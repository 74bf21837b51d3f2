----------------------------- MODULE SourceRules -----------------------------
(***************************************************************************)
(* What makes a source program correct, stated over its tree without the   *)
(* parser's order, the stacks and the symbol table: the reference the      *)
(* front end is compared with.  Errors(tree) is the set of the kinds of    *)
(* mistake a program makes.                                                *)
(*                                                                         *)
(*   "scope"      a name declared twice or used without a declaration      *)
(*   "method"     a method whose name its class has already used           *)
(*   "zero"       division by the literal 0                                *)
(*   "divisor"    division by a literal that is no 32-bit integer          *)
(*   "type"       operands, or an assignment, of the wrong type            *)
(*   "nested"     a class among the statements of a method                 *)
(*   "condition"  a comparison of the wrong types, or of operands that are *)
(*                themselves wrongly typed                                 *)
(***************************************************************************)
EXTENDS CSharpGrammar, FiniteSets

Numbers       == {"int", "float"}
Wider(a, b)   == IF "float" \in {a, b} THEN "float" ELSE "int"

(* An environment is a set of pairs of a name and its type. *)
IsDeclared(env, x)   == \E p \in env : p[1] = x
DeclaredType(env, x) == (CHOOSE p \in env : p[1] = x)[2]

RECURSIVE Elements(_, _), Steps(_), ExpressionType(_, _), ExpressionErrors(_, _)

(* The elements of a right-recursive list. *)
Elements(op, tree) ==
  IF tree.op # op THEN <<tree>>
  ELSE IF tree.kids = <<>> THEN <<>> ELSE <<tree.kids[1]>> \o Elements(op, tree.kids[2])

(* Blocks open no scope: a body is the sequence of its conditions and      *)
(* simple statements in the order of the text.                             *)
Steps(tree) ==
  IF tree.op = "statements" THEN Steps(tree.kids[1]) \o Steps(tree.kids[2])
  ELSE IF tree.op \in {"while", "if-then-endif", "if-then-else-endif"}
    THEN <<Tree("condition", <<tree.kids[1]>>)>>
           \o FoldRight(LAMBDA block, rest : Steps(block) \o rest, Tail(tree.kids), <<>>)
  ELSE <<tree>>

------------------------------------------------------------------------------
(* A remainder is an integer but no operand of arithmetic or an order.     *)
IsNumber(e, env) == e.op # "%" /\ ExpressionType(e, env) \in Numbers

BadDivisor(e) ==
  /\ e.op = "/"
  /\ e.kids[2].op = "NumberLiteral"
  /\ e.kids[2].text \notin Integers32 \ {ZeroLit}

ExpressionType(e, env) ==
  CASE e.op = "Identifier" ->
         IF IsDeclared(env, e.text) THEN DeclaredType(env, e.text) ELSE "error"
    [] e.op = "NumberLiteral"  -> IF e.text = FloatLit THEN "float" ELSE "int"
    [] e.op = "StringLiteral"  -> "string"
    [] e.op = "BooleanLiteral" -> "bool"
    [] e.op \in {"+", "-", "*", "/"} ->
         IF /\ \A i \in 1 .. 2 : IsNumber(e.kids[i], env)
            /\ ~BadDivisor(e)
           THEN Wider(ExpressionType(e.kids[1], env), ExpressionType(e.kids[2], env))
           ELSE "error"
    [] e.op = "%" ->
         IF \A i \in 1 .. 2 : ExpressionType(e.kids[i], env) = "int" THEN "int" ELSE "error"
    [] OTHER -> "bool"

Comparable(op, l, r, env) ==
  LET a == ExpressionType(l, env)
      b == ExpressionType(r, env)
  IN  CASE op \in {"&&", "||"} -> a = "bool" /\ b = "bool"
        [] op \in {"==", "!="} -> a = b /\ a # "error"
        [] OTHER               -> a = b /\ IsNumber(l, env) /\ IsNumber(r, env)

ExpressionErrors(e, env) ==
  LET inKids == UNION {ExpressionErrors(e.kids[i], env) : i \in DOMAIN e.kids}
  IN  CASE e.op = "Identifier" -> IF IsDeclared(env, e.text) THEN {} ELSE {"scope"}
        [] e.op \in {"+", "-", "*", "/", "%"} ->
             inKids
               \cup (IF ~BadDivisor(e) THEN {}
                     ELSE IF e.kids[2].text = ZeroLit THEN {"zero"} ELSE {"divisor"})
               \cup (IF ExpressionType(e, env) = "error" THEN {"type"} ELSE {})
        [] e.op \in {"<", "<=", ">", ">=", "==", "!=", "&&", "||"} ->
             (inKids \ {"type"})
               \cup (IF Comparable(e.op, e.kids[1], e.kids[2], env) THEN {} ELSE {"condition"})
        [] OTHER -> {}

------------------------------------------------------------------------------
StepErrors(s, env) ==
  CASE s.op = "var-declaration" ->
         IF IsDeclared(env, s.kids[1].text) THEN {"scope"} ELSE {}
    [] s.op = "nested-class"      -> {"nested"}
    [] s.op = "console.readline"  -> ExpressionErrors(s.kids[1], env)
    [] s.op = "console.writeline" -> ExpressionErrors(s.kids[1], env)
    [] s.op = "condition" ->
         ExpressionErrors(s.kids[1], env)
           \cup (IF ExpressionType(s.kids[1], env) \in {"bool"} \cup Numbers THEN {} ELSE {"type"})
    [] s.op = ":=" ->
         LET l == ExpressionType(s.kids[1], env)
             r == ExpressionType(s.kids[2], env)
         IN  ExpressionErrors(s.kids[1], env) \cup ExpressionErrors(s.kids[2], env)
               \cup (IF \/ l = r
                        \/ l = "float" /\ IsNumber(s.kids[2], env)
                       THEN {} ELSE {"type"})

AfterStep(s, env) ==
  IF s.op = "var-declaration" THEN env \cup {<<s.kids[1].text, s.type>>} ELSE env

(* A declaration holds from where it stands to the end of its method. *)
MethodErrors(m) ==
  LET params == Elements("param-list", m.kids[4])
      env0   == {<<params[i].text, params[i].type>> : i \in DOMAIN params}
      end    == FoldLeft(LAMBDA acc, s : [env    |-> AfterStep(s, acc.env),
                                          errors |-> acc.errors \cup StepErrors(s, acc.env)],
                         [env |-> env0, errors |-> {}], Steps(m.kids[5]))
      repeated == Cardinality({params[i].text : i \in DOMAIN params}) < Len(params)
  IN  end.errors \cup (IF repeated THEN {"scope"} ELSE {})

Repeats(names, i) == \E j \in 1 .. i - 1 : names[j] = names[i]

NamesErrors(trees, names, kind) ==
  UNION {IF Repeats(names, i)
           THEN {IF trees[i].op = "method-definition" THEN "method" ELSE kind} ELSE {} :
         i \in DOMAIN trees}

DeclaredName(tree) ==
  CASE tree.op = "var-declaration"   -> tree.kids[1].text
    [] tree.op = "class-definition"  -> tree.kids[2].text
    [] tree.op = "method-definition" -> tree.kids[3].text

(* The members of a class, and the definitions of a program, in order. *)
Members(tree) ==
  IF tree.op \in {"class-body", "program"}
    THEN Elements("var-declarations", tree.kids[1])
           \o Elements(IF tree.op = "program" THEN "class-definitions" ELSE "method-definitions",
                       tree.kids[2])
    ELSE Elements(IF tree.op \in {"var-declarations", "class-definitions"} THEN tree.op
                  ELSE "method-definitions", tree)

BlockErrors(members) ==
  NamesErrors(members, [i \in DOMAIN members |-> DeclaredName(members[i])], "scope")

ClassErrors(c) ==
  LET members == Members(c.kids[3])
  IN  BlockErrors(members)
        \cup UNION {MethodErrors(members[i]) :
                    i \in {j \in DOMAIN members : members[j].op = "method-definition"}}

Errors(tree) ==
  LET definitions == Members(tree)
  IN  BlockErrors(definitions)
        \cup UNION {ClassErrors(definitions[i]) :
                    i \in {j \in DOMAIN definitions : definitions[j].op = "class-definition"}}
==============================================================================
