---------------------------- MODULE SymbolicValues ----------------------------
(***************************************************************************)
(* The values of a running program, for the source language and for the    *)
(* C++ it becomes.  A value has a type and a term: a literal, the n-th     *)
(* input, an uninitialised variable, or an operator over values.  Terms    *)
(* are not computed: what a comparison of two of them answers is left      *)
(* open, and a run records the answer it was given.  Only 0 and 1, which   *)
(* the code generator uses for the truth values, are known numbers.        *)
(***************************************************************************)
EXTENDS CSharpGrammar

Value(type, term) == [type |-> type, term |-> term]
Number1           == Value("int", IntLit)
Number0           == Value("int", ZeroLit)
TruthValue(b)     == Value("bool", IF b THEN IntLit ELSE ZeroLit)
Uninitialised(type, x) == Value(type, <<"uninitialised", x>>)
Input(type, n)    == Value(type, <<"input", n>>)

Known(v) == v.term \in Integers32

(* What a variable of a type holds after a value was assigned to it. *)
Converted(type, v) ==
  IF v.type = type \/ Known(v) THEN Value(type, v.term) ELSE Value(type, <<"to", type, v>>)

Arithmetic(op, a, b) ==
  Value(IF "float" \in {a.type, b.type} THEN "float" ELSE "int", <<op, a, b>>)

------------------------------------------------------------------------------
(* Comparing two values asks one question: how the one relates to the      *)
(* other, or, of an unknown bool and a known number, whether the bool is   *)
(* 0.                                                                      *)
BoolAgainst(a, b) == a.type = "bool" /\ ~Known(a) /\ Known(b)

IsAsked(a, b) == ~(Known(a) /\ Known(b))

Question(a, b) ==
  IF BoolAgainst(a, b) THEN <<a.term, ZeroLit>>
  ELSE IF BoolAgainst(b, a) THEN <<b.term, ZeroLit>> ELSE <<a.term, b.term>>

Answers(a, b) ==
  IF BoolAgainst(a, b) \/ BoolAgainst(b, a) THEN {"=", ">"}
  ELSE {"<", "=", ">"} \cup (IF "float" \in {a.type, b.type} THEN {"unordered"} ELSE {})

Flipped(relation) ==
  CASE relation = "<" -> ">" [] relation = ">" -> "<" [] OTHER -> relation

OfBool(known, answer) ==
  IF known.term = ZeroLit THEN answer ELSE IF answer = "=" THEN "<" ELSE "="

(* How a relates to b, given the answer. *)
Relation(a, b, answer) ==
  CASE ~IsAsked(a, b)    -> IF a.term = b.term THEN "=" ELSE IF a.term = ZeroLit THEN "<" ELSE ">"
    [] BoolAgainst(a, b) -> OfBool(b, answer)
    [] BoolAgainst(b, a) -> Flipped(OfBool(a, answer))
    [] OTHER             -> answer

Holds(op, relation) ==
  CASE op = "<"  -> relation = "<"
    [] op = "<=" -> relation \in {"<", "="}
    [] op = ">"  -> relation = ">"
    [] op = ">=" -> relation \in {">", "="}
    [] op = "==" -> relation = "="
    [] op = "!=" -> relation # "="

------------------------------------------------------------------------------
(* What a run is seen to do. *)
Happening(kind, about, value) == [kind |-> kind, about |-> about, value |-> value]
Printed(v)          == Happening("print", <<>>, v.term)
WasRead(x)          == Happening("read", <<x>>, None)
WasSet(x, v)        == Happening("set", <<x>>, v)
WasAsked(a, b, ans) == Happening("ask", Question(a, b), ans)
==============================================================================
