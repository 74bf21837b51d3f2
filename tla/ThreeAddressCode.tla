--------------------------- MODULE ThreeAddressCode ---------------------------
(***************************************************************************)
(* The three-address code of a syntax tree                                 *)
(* (src/src/yipada/Three_Address_Program.java).  A generation in progress  *)
(* is a record of the quadruples so far, the number of labels handed out   *)
(* by any generation since the IDE was started (the counter is static),    *)
(* and the operand in which the code generated last leaves its result.     *)
(***************************************************************************)
EXTENDS TypeChecker

CONSTANTS
  MaxSizeOfProgram,   (* length of the array of quadruples: 50000           *)
  Generated(_, _)     (* what code_gen makes of an operand: code_gen itself,
                         so that the recursion of the code is closed where
                         this module is given its constants                 *)

(* An operand is a leaf or the temporary of an operator's node, a label,   *)
(* or a constant of the generator's own.                                   *)
ThreeAddressOperand(type, id) == [type |-> type, id |-> id]
OfLeaf(n)       == ThreeAddressOperand(n.op, IF n.sym # 0 THEN n.sym ELSE n.text)
OfOperator(n)   == ThreeAddressOperand("BinaryOperator", n.sym)
LabelOperand(l) == ThreeAddressOperand("label", l)
Own(text)       == ThreeAddressOperand("constant", text)
NoOperand       == ThreeAddressOperand("null", 0)

Quadruple(op, arg1, arg2, sym) == [op |-> op, arg1 |-> arg1, arg2 |-> arg2, sym |-> sym]
Jump(op, l)  == Quadruple(op, LabelOperand(l), NoOperand, 0)
Put(n, text) == Quadruple("MOV", OfOperator(n), Own(text), 0)
Unary3(op, arg)        == Quadruple(op, arg, NoOperand, 0)
Binary3(op, arg, arg2) == Quadruple(op, arg, arg2, 0)

(* The counter moves by one whatever is taken from it. *)
OneLabel(g, n)         == [g EXCEPT !.labels = @ + 1]

addCode(g, quadruples) == [g EXCEPT !.code = @ \o quadruples]
NewLabels(g, n)        == [g EXCEPT !.labels = @ + n]
Leaving(g, operand)    == [g EXCEPT !.place = operand]

------------------------------------------------------------------------------
(* The operator <= translated like <. *)
JumpUnlessStrict ==
  [op \in Relations \cup Equalities |->
     CASE op \in {"<", "<="} -> "JAE" [] op = ">" -> "JBE" [] op = ">=" -> "JB"
       [] op = "==" -> "JNE" [] op = "!=" -> "JE"]

(* The jump taken when the comparison is false. *)
JumpUnless ==
  [op \in Relations \cup Equalities |->
     CASE op = "<" -> "JAE" [] op = "<=" -> "JA" [] op = ">" -> "JBE" [] op = ">=" -> "JB"
       [] op = "==" -> "JNE" [] op = "!=" -> "JE"]

code_gen_4_Relational_expression(n, g) ==
  LET left  == Generated(n.kids[1], g)
      right == Generated(n.kids[2], left)
      false == right.labels + 1
      exit  == right.labels + 2
  IN  Leaving(addCode(NewLabels(right, 2),
        <<Binary3("CMP", left.place, right.place), Jump(JumpUnless[n.op], false),
          Put(n, IntLit), Jump("JMP", exit),
          Jump("LABEL", false), Put(n, ZeroLit), Jump("LABEL", exit)>>), OfOperator(n))

(* && and ||: the operand that decides, 0 or 1, is also the result.        *)
code_gen_4_Logic_expression(n, g, decisive, otherwise) ==
  LET left  == Generated(n.kids[1], g)
      short == left.labels + 1
      exit  == left.labels + 2
      Test(operand) == <<Binary3("CMP", operand, Own(decisive)), Jump("JE", short)>>
      right == Generated(n.kids[2], addCode(NewLabels(left, 2), Test(left.place)))
  IN  Leaving(addCode(right,
        Test(right.place) \o
        <<Put(n, otherwise), Jump("JMP", exit),
          Jump("LABEL", short), Put(n, decisive), Jump("LABEL", exit)>>), OfOperator(n))

code_gen_4_arithmetic_expression(n, g) ==
  LET left  == Generated(n.kids[1], g)
      right == Generated(n.kids[2], left)
  IN  Leaving(addCode(right, <<Quadruple(n.op, left.place, right.place, n.sym)>>), OfOperator(n))

code_gen_4_ASSIGNMENT_STATEMENT(n, g) ==
  LET left  == Generated(n.kids[1], g)
      right == Generated(n.kids[2], left)
  IN  addCode(right, <<Binary3("ASSIGN", left.place, right.place)>>)

------------------------------------------------------------------------------
JumpIfZero(operand, l) == <<Binary3("CMP", operand, Own(ZeroLit)), Jump("JE", l)>>

(* The label to leave the loop by stands where it is entered. *)
WhileExitAtEntry(n, g) ==
  LET entry == g.labels + 1
      exit  == g.labels + 2
      test  == Generated(n.kids[1],
                 addCode(NewLabels(g, 2), <<Jump("LABEL", entry), Jump("LABEL", exit)>>))
      body  == Generated(n.kids[2], addCode(test, JumpIfZero(test.place, exit)))
  IN  addCode(body, <<Jump("JMP", entry)>>)

code_gen_4_While_expression(n, g) ==
  LET entry == g.labels + 1
      exit  == g.labels + 2
      test  == Generated(n.kids[1], addCode(NewLabels(g, 2), <<Jump("LABEL", entry)>>))
      body  == Generated(n.kids[2], addCode(test, JumpIfZero(test.place, exit)))
  IN  addCode(body, <<Jump("JMP", entry), Jump("LABEL", exit)>>)

code_gen_4_IF_THEN_ENDIF_expression(n, g) ==
  LET test == Generated(n.kids[1], g)
      exit == test.labels + 1
      then == Generated(n.kids[2], addCode(NewLabels(test, 1), JumpIfZero(test.place, exit)))
  IN  addCode(then, <<Jump("LABEL", exit)>>)

(* The second label is taken only once the test has been generated, and    *)
(* taken for the one that was last then.                                   *)
ElseLabelTakenLate(n, g) ==
  LET endif       == g.labels + 1
      else        == g.labels + 2
      test        == Generated(n.kids[1], NewLabels(g, 1))
      then        == Generated(n.kids[2], addCode(NewLabels(test, 1), JumpIfZero(test.place, else)))
      alternative == Generated(n.kids[3],
                       addCode(then, <<Jump("JMP", endif), Jump("LABEL", else)>>))
  IN  addCode(alternative, <<Jump("LABEL", endif)>>)

code_gen_4_IF_THEN_ELSE_ENDIF_expression(n, g) ==
  LET endif       == g.labels + 1
      else        == g.labels + 2
      test        == Generated(n.kids[1], NewLabels(g, 2))
      then        == Generated(n.kids[2], addCode(test, JumpIfZero(test.place, else)))
      alternative == Generated(n.kids[3],
                       addCode(then, <<Jump("JMP", endif), Jump("LABEL", else)>>))
  IN  addCode(alternative, <<Jump("LABEL", endif)>>)

------------------------------------------------------------------------------
InTurn(n, g) == Generated(n.kids[2], Generated(n.kids[1], g))

code_gen_4_ClassDefinition(n, g) ==
  LET Mark(op) == <<Binary3(op, OfLeaf(n.kids[1]), OfLeaf(n.kids[2]))>>
      body     == Generated(n.kids[3], InTurn(n, addCode(g, Mark("CLASS_DEF_BEGIN"))))
  IN  addCode(body, Mark("CLASS_DEF_END"))

code_gen_4_MethodDefinition(n, g) ==
  LET Mark(op) == <<Binary3(op, OfLeaf(n.kids[2]), OfLeaf(n.kids[3]))>>
      name       == Generated(n.kids[3], InTurn(n, addCode(g, Mark("METHOD_DEF_BEGIN"))))
      parameters == Generated(n.kids[4], name)
  IN  addCode(Generated(n.kids[5], parameters), Mark("METHOD_DEF_END"))

(* A parameter is declared, whatever else is a leaf only is an operand. *)
Terminal(n, g) ==
  Leaving(IF n.op # "FormalParameter" THEN g
          ELSE addCode(g, <<Unary3("METHOD_FORMAL_PARAM", OfLeaf(n))>>), OfLeaf(n))

code_gen_4_print(n, g) ==
  LET what == Generated(n.kids[1], g)
  IN  addCode(what, <<Unary3("PRINTCONSOLE", what.place)>>)

(* Of a list of declarations only the first is generated: only variables   *)
(* of classes and of the program are in such lists.                        *)
code_gen(n, g) ==
  IF n.kids = <<>> THEN Terminal(n, g)
  ELSE Leaving(
    CASE n.op \in {"program", "class-definitions", "class-body", "method-definitions",
                   "param-list", "statements"} -> InTurn(n, g)
      [] n.op = "var-declarations"   -> Generated(n.kids[1], g)
      [] n.op = "var-declaration"    ->
           addCode(g, <<Unary3("VAR_DECLARATION", OfLeaf(n.kids[1]))>>)
      [] n.op = "class-definition"   -> code_gen_4_ClassDefinition(n, g)
      [] n.op = "method-definition"  -> code_gen_4_MethodDefinition(n, g)
      [] n.op = ":="                 -> code_gen_4_ASSIGNMENT_STATEMENT(n, g)
      [] n.op \in Additive \cup {"%"} -> code_gen_4_arithmetic_expression(n, g)
      [] n.op = "||"                 -> code_gen_4_Logic_expression(n, g, IntLit, ZeroLit)
      [] n.op = "&&"                 -> code_gen_4_Logic_expression(n, g, ZeroLit, IntLit)
      [] n.op \in Relations \cup Equalities -> code_gen_4_Relational_expression(n, g)
      [] n.op = "while"              -> code_gen_4_While_expression(n, g)
      [] n.op = "if-then-endif"      -> code_gen_4_IF_THEN_ENDIF_expression(n, g)
      [] n.op = "if-then-else-endif" -> code_gen_4_IF_THEN_ELSE_ENDIF_expression(n, g)
      [] n.op = "console.readline"   -> addCode(g, <<Unary3("READCONSOLE", OfLeaf(n.kids[1]))>>)
      [] n.op = "console.writeline"  -> code_gen_4_print(n, g)
      [] OTHER                       -> g,
    IF n.op \in ExpressiveOperators \cup {"%"} THEN OfOperator(n) ELSE NoOperand)

(* The code for a tree, given how many labels there have been.             *)
GenerateCode(root, labels) ==
  code_gen(root, [code |-> <<>>, labels |-> labels, place |-> NoOperand])

(* The index of the last quadruple moves past the array, and reading the   *)
(* code back throws.                                                       *)
TooLong(code) == Len(code) > MaxSizeOfProgram
==============================================================================
