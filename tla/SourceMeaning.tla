---------------------------- MODULE SourceMeaning ----------------------------
(***************************************************************************)
(* What a method of the source language does, stated over its tree: the    *)
(* reference the generated program is compared with.  Operands are         *)
(* evaluated from left to right, && and || only as far as they decide,     *)
(* and the variables of a method live until it ends.                       *)
(*                                                                         *)
(* A run follows a guide, the trace of another run: it takes the guide's   *)
(* answers to the questions its comparisons ask, and it stops as soon as   *)
(* it has done as many things as "limit" says.                             *)
(***************************************************************************)
EXTENDS SourceRules, SymbolicValues

Finished(r)     == Len(r.trace) >= r.limit
Does(r, e)      == IF Finished(r) THEN r ELSE [r EXCEPT !.trace = Append(@, e)]
Result2(r, v)   == [r EXCEPT !.value = v]
Assigned(r, x, v) ==
  IF Finished(r) THEN r ELSE [r EXCEPT !.memory[x] = v]

Answer(r) ==
  LET i == Len(r.trace) + 1
  IN  IF i \in DOMAIN r.guide /\ r.guide[i].kind = "ask" THEN r.guide[i].value ELSE "="

(* Whether a stands in the relation op to b, as the value of the run. *)
Compared(r, op, a, b) ==
  LET holds == TruthValue(Holds(op, Relation(a, b, Answer(r))))
  IN  Result2(IF IsAsked(a, b) THEN Does(r, WasAsked(a, b, Answer(r))) ELSE r, holds)

(* A condition holds when it is not 0. *)
Tested(r, v)  == Compared(r, "!=", v, Number0)
IsTrue(r)     == r.value = TruthValue(TRUE)

LiteralValue(e) ==
  CASE e.op = "NumberLiteral"  -> Value(IF e.text = FloatLit THEN "float" ELSE "int", e.text)
    [] e.op = "StringLiteral"  -> Value("string", e.text)
    [] e.op = "BooleanLiteral" -> TruthValue(e.text = True)

RECURSIVE Evaluated(_, _), Executed(_, _)

Evaluated(e, r) ==
  IF e.op = "Identifier" THEN Result2(r, r.memory[e.text])
  ELSE IF e.kids = <<>> THEN Result2(r, LiteralValue(e))
  ELSE LET left == Evaluated(e.kids[1], r)
           right(before) == Evaluated(e.kids[2], before)
       IN  IF e.op \in {"&&", "||"}
             THEN LET first == Tested(left, left.value)
                  IN  IF IsTrue(first) = (e.op = "||") THEN first
                      ELSE LET second == right(first) IN Tested(second, second.value)
           ELSE LET both == right(left)
                IN  IF e.op \in {"+", "-", "*", "/", "%"}
                      THEN Result2(both, Arithmetic(e.op, left.value, both.value))
                      ELSE Compared(both, e.op, left.value, both.value)

Condition(s, r) ==
  LET value == Evaluated(s.kids[1], r) IN Tested(value, value.value)

Executed(s, r) ==
  IF Finished(r) THEN r
  ELSE CASE s.op = "statements" -> Executed(s.kids[2], Executed(s.kids[1], r))
         [] s.op = "var-declaration" ->
              Assigned(r, s.kids[1].text, Uninitialised(s.type, s.kids[1].text))
         [] s.op = ":=" ->
              LET target == s.kids[1].text
                  after  == Evaluated(s.kids[2], r)
                  value  == Converted(r.memory[target].type, after.value)
              IN  Does(Assigned(after, target, value), WasSet(target, value))
         [] s.op = "console.readline" ->
              LET target == s.kids[1].text
                  input  == Input(r.memory[target].type, r.reads)
              IN  Does([Assigned(r, target, input) EXCEPT !.reads = @ + 1], WasRead(target))
         [] s.op = "console.writeline" ->
              LET after == Evaluated(s.kids[1], r) IN Does(after, Printed(after.value))
         [] s.op = "while" ->
              LET test == Condition(s, r)
              IN  IF IsTrue(test) THEN Executed(s, Executed(s.kids[2], test)) ELSE test
         [] s.op = "if-then-endif" ->
              LET test == Condition(s, r)
              IN  IF IsTrue(test) THEN Executed(s.kids[2], test) ELSE test
         [] s.op = "if-then-else-endif" ->
              LET test == Condition(s, r)
              IN  Executed(s.kids[IF IsTrue(test) THEN 2 ELSE 3], test)

------------------------------------------------------------------------------
(* The variables of a method, its parameters included, with their types. *)
Parameters(m) == Elements("param-list", m.kids[4])
Locals(m) ==
  {<<s.kids[1].text, s.type>> : s \in {t \in Range(Steps(m.kids[5])) : t.op = "var-declaration"}}
    \cup {<<p.text, p.type>> : p \in Range(Parameters(m))}

Run(m, guide, limit) ==
  Executed(m.kids[5],
    [memory |-> [x \in {p[1] : p \in Locals(m)} |-> Uninitialised(DeclaredType(Locals(m), x), x)],
     trace  |-> <<>>, reads |-> 0, value |-> Number0, guide |-> guide, limit |-> limit])
==============================================================================
