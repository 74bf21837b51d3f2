----------------------------- MODULE TypeChecker -----------------------------
(***************************************************************************)
(* The type rules of src/src/yipada/TypeChecker.java.  A node of the       *)
(* abstract syntax tree is a record                                        *)
(*                                                                         *)
(*   op    the operator, or the kind of a leaf                             *)
(*   text  what a literal spells                                           *)
(*   sym   position in the symbol table of an identifier, or of the        *)
(*         temporary that holds an operator's result; 0 for none           *)
(*   dt    the data type AstTree writes into an operator's node            *)
(*   kids  the operands                                                    *)
(*                                                                         *)
(* A rule answers "ok", "reported" when it refuses the operands and says   *)
(* so in the IDE's output window, or "silent" when it refuses them and     *)
(* only writes to the debugging log.                                       *)
(***************************************************************************)
EXTENDS CSharpGrammar, SymbolTable

NumericTypes == {"int", "long", "float"}

LeafKinds ==
  {"Identifier", "FormalParameter", "StringLiteral", "NumberLiteral", "BooleanLiteral"}
Relations           == {"<", "<=", ">", ">="}
Equalities          == {"==", "!="}
Connectives         == {"&&", "||"}
Comparisons         == Relations \cup Equalities \cup Connectives
Additive            == {"+", "-", "*", "/"}
ExpressiveOperators == Additive \cup Comparisons       \* "%" is not among them

SymbolType(t, i) == IF i \in DOMAIN t.symbols THEN t.symbols[i].datatype ELSE "error"

dataTypeOfNode(t, n) ==
  CASE n.op \in {"Identifier", "FormalParameter"} \cup ExpressiveOperators -> SymbolType(t, n.sym)
    [] n.op = "NumberLiteral"  -> IF n.text = FloatLit THEN "float" ELSE "int"
    [] n.op = "StringLiteral"  -> "string"
    [] n.op = "BooleanLiteral" -> "bool"
    [] OTHER                   -> n.dt

(* The literals and operators the code enumerates: a bool literal, a       *)
(* string literal and a remainder are not numeric whatever their type.     *)
isNumeric(t, n) ==
  \/ n.op = "NumberLiteral"
  \/ /\ n.op \in {"Identifier", "FormalParameter"} \cup ExpressiveOperators
     /\ SymbolType(t, n.sym) \in NumericTypes

Order == [void |-> 60, int |-> 61, long |-> 62, float |-> 63]

(* A remainder of two values of one type has that type, numeric or not. *)
greaterType(type1, type2) ==
  IF type1 = type2 THEN type1
  ELSE IF {type1, type2} \subseteq NumericTypes
         THEN IF Order[type1] < Order[type2] THEN type2 ELSE type1
         ELSE "void"

------------------------------------------------------------------------------
Must(condition, otherwise) == <<condition, otherwise>>

FirstFailure(checks) ==
  LET failed == {i \in DOMAIN checks : ~checks[i][1]}
  IN  IF failed = {} THEN "ok" ELSE checks[Min(failed)][2]

(* What a rule asks of the operands k, in the order in which it asks. *)
ModuloArithmetic(t, k) ==
  [i \in 1 .. 2 |-> Must(dataTypeOfNode(t, k[i]) \in {"int", "long"}, "reported")]

(* Only the first operand is checked. *)
BinaryArithmeticLeft(t, k) == <<Must(isNumeric(t, k[1]), "reported")>>

BinaryArithmetic(t, k) ==
  <<Must(isNumeric(t, k[1]) /\ isNumeric(t, k[2]), "reported")>>

RelationalOperations(t, k) ==
  <<Must(isNumeric(t, k[1]), "reported"),
    Must(isNumeric(t, k[2]), "reported"),
    Must(dataTypeOfNode(t, k[1]) = dataTypeOfNode(t, k[2]), "reported")>>

RelationalEqualities(t, k) ==
  <<Must(dataTypeOfNode(t, k[1]) \notin {"void", "error"}, "reported"),
    Must(dataTypeOfNode(t, k[1]) = dataTypeOfNode(t, k[2]), "reported")>>

LogicOperations(t, k) ==
  [i \in 1 .. 2 |-> Must(dataTypeOfNode(t, k[i]) = "bool", "reported")]

(* The message goes to the debugging log. *)
AssignmentSilent(t, k) ==
  <<Must(dataTypeOfNode(t, k[1]) = dataTypeOfNode(t, k[2]), "silent")>>

(* The lvalue has the rvalue's type, or a wider one. *)
AssignmentOperation(t, k) ==
  LET lvalue == dataTypeOfNode(t, k[1])
      rvalue == dataTypeOfNode(t, k[2])
  IN  <<Must(\/ lvalue = rvalue
             \/ /\ isNumeric(t, k[1]) /\ isNumeric(t, k[2])
                /\ greaterType(lvalue, rvalue) = lvalue,
             "reported")>>

(* A condition and the blocks it guards. *)
Guarded(t, k) ==
  [i \in DOMAIN k |->
     IF i = 1 THEN Must(dataTypeOfNode(t, k[1]) \in {"bool"} \cup NumericTypes, "reported")
     ELSE Must(dataTypeOfNode(t, k[i]) = "void", "silent")]

ParameterListOperands(t, k) ==
  <<Must(k[1].op = "FormalParameter", "reported"),
    Must(k[2].op = "FormalParameter" \/ dataTypeOfNode(t, k[2]) = "void", "silent")>>

AllVoid(t, k) == [i \in DOMAIN k |-> Must(dataTypeOfNode(t, k[i]) = "void", "silent")]

ProgramOperands(t, k) ==
  [i \in DOMAIN k |-> Must(dataTypeOfNode(t, k[i]) # "error", "silent")]

ClassDefinitionOperands(t, k) ==
  <<Must(dataTypeOfNode(t, k[1]) = "string", "reported"),
    Must(dataTypeOfNode(t, k[2]) = "void",   "reported"),
    Must(dataTypeOfNode(t, k[3]) = "void",   "silent")>>

MethodDefinitionOperands(t, k) ==
  <<Must(dataTypeOfNode(t, k[1]) = "string", "reported"),
    Must(dataTypeOfNode(t, k[2]) = "string", "reported"),
    Must(dataTypeOfNode(t, k[3]) = "void",   "reported"),
    Must(dataTypeOfNode(t, k[4]) = "void" \/ k[4].op = "FormalParameter", "reported"),
    Must(dataTypeOfNode(t, k[5]) = "void",   "silent")>>

Verdict(t, op, k) ==
  FirstFailure(
    CASE op = "%"                   -> ModuloArithmetic(t, k)
      [] op \in Additive            -> BinaryArithmetic(t, k)
      [] op \in Relations           -> RelationalOperations(t, k)
      [] op \in Equalities          -> RelationalEqualities(t, k)
      [] op \in Connectives         -> LogicOperations(t, k)
      [] op = ":="                  -> AssignmentOperation(t, k)
      [] op \in {"while", "if-then-endif", "if-then-else-endif"} -> Guarded(t, k)
      [] op = "param-list"          -> ParameterListOperands(t, k)
      [] op = "program"             -> ProgramOperands(t, k)
      [] op = "class-definition"    -> ClassDefinitionOperands(t, k)
      [] op = "method-definition"   -> MethodDefinitionOperands(t, k)
      [] OTHER                      -> AllVoid(t, k))
==============================================================================
