------------------------------- MODULE AstTree -------------------------------
(***************************************************************************)
(* The stack machine that builds the abstract syntax tree                  *)
(* (src/src/yipada/AstTree.java with Stack_of_AST_Nodes.java).  A tree     *)
(* under construction is a record of the stack of nodes, of the flag       *)
(* bErroBuildingTree, and of whether the stack is broken; adding an        *)
(* operator also asks the symbol table for a temporary and may report to   *)
(* the user, so it returns all three.                                      *)
(*                                                                         *)
(* Popping the empty stack gives null, and every type rule that meets a    *)
(* null throws; addOperatorNode catches that and raises the flag.  A push  *)
(* onto the full stack moves the index of the top past the array and       *)
(* throws.  The stack is broken from then on: pushes are ignored, and to   *)
(* pop or to look at the top throws.                                       *)
(***************************************************************************)
EXTENDS TypeChecker

CONSTANT MaxSizeOfStack    (* of nodes, and of tokens: 20000 *)

ASSUME StackAssumption == MaxSizeOfStack \in Nat \ {0}

EmptyTree == [stack |-> <<>>, failed |-> FALSE, broken |-> FALSE]

Node(op, sym, dt, kids) == [op |-> op, text |-> None, sym |-> sym, dt |-> dt, kids |-> kids]
LeafNode(kind, text, sym) ==
  [op |-> kind, text |-> text, sym |-> sym, dt |-> None, kids |-> <<>>]
NullNode == LeafNode("null", None, 0)

(* The last slot is never used. *)
StackFullBeforeLast(a) == Len(a.stack) + 1 = MaxSizeOfStack

StackFull(a)  == Len(a.stack) = MaxSizeOfStack
PushThrows(a) == StackFull(a) /\ ~a.broken

Push(a, n) ==
  IF StackFull(a) THEN [a EXCEPT !.broken = TRUE] ELSE [a EXCEPT !.stack = Append(@, n)]
SetFailed(a) == [a EXCEPT !.failed = TRUE]

addleaf(a, kind, text, sym) == Push(a, LeafNode(kind, text, sym))

(* The flag alone decides. *)
errorBuildingTreeFlag(a) == a.failed

(* Without a node at the top, asking for its type throws. *)
RootThrows(a) == ~a.failed /\ (a.stack = <<>> \/ a.broken)

errorBuildingTree(a) == a.failed \/ Last(a.stack).dt = "error"

Arity(op) ==
  CASE op \in {"console.writeline", "console.readline", "var-declaration"} -> 1
    [] op \in {"if-then-else-endif", "class-definition"}                   -> 3
    [] op = "method-definition"                                            -> 5
    [] OTHER                                                               -> 2

(* The operands in source order, null where the stack had run out. *)
Popped(a, n) ==
  [i \in 1 .. n |-> LET j == Len(a.stack) - n + i
                    IN  IF j > 0 THEN a.stack[j] ELSE NullNode]
Pop(a, n) ==
  [a EXCEPT !.stack = SubSeq(@, 1, IF Len(@) > n THEN Len(@) - n ELSE 0)]

Missing(kids) == \E i \in DOMAIN kids : kids[i] = NullNode
Kids(kids)    ==
  IF Missing(kids) THEN SelectSeq(kids, LAMBDA k : k # NullNode) ELSE kids

Result(a, t, said) == [ast |-> a, table |-> t, said |-> said]

------------------------------------------------------------------------------
(* How a divisor that is a literal ends: Integer.parseInt refuses what is  *)
(* not a 32-bit integer.                                                   *)
Divisor(op, k) ==
  IF op # "/" \/ k.op # "NumberLiteral" THEN "fine"
  ELSE IF k.text \notin Integers32 THEN "throws"
  ELSE IF k.text = ZeroLit THEN "zero" ELSE "fine"

(* Arithmetic: the node is on the stack before its type is known, and      *)
(* stays there without a temporary when something throws.                  *)
AddArithmetic(a, t, op) ==
  LET kids    == Popped(a, 2)
      verdict == Verdict(t, op, kids)
      divisor == Divisor(op, kids[2])
      type    == IF verdict = "ok" /\ divisor # "zero"
                   THEN greaterType(dataTypeOfNode(t, kids[1]), dataTypeOfNode(t, kids[2]))
                   ELSE "error"
      t1      == GetFreeStore(t, type)
      stored  == Len(t1.symbols) > Len(t.symbols)
      node    == Node(op, IF stored THEN Len(t1.symbols) ELSE 0, type, kids)
      b       == Push(Pop(a, 2), node)
  IN  IF Missing(kids)
        THEN Result(SetFailed(Push(Pop(a, 2), Node(op, 0, None, Kids(kids)))), t, FALSE)
      ELSE IF divisor = "throws"
        THEN Result(SetFailed(Push(Pop(a, 2), [node EXCEPT !.sym = 0])), t, verdict # "ok")
      ELSE Result(IF stored /\ divisor = "fine" THEN b ELSE SetFailed(b), t1,
                  verdict # "ok" \/ divisor = "zero")

(* A comparison or a connective: its operands are checked, but whatever    *)
(* the verdict its result is a temporary of type bool; its node is pushed  *)
(* last, and not at all when something throws.                             *)
AddComparison(a, t, op) ==
  LET kids == Popped(a, 2)
      t1   == GetFreeStore(t, "bool")
      said == Verdict(t, op, kids) # "ok"
  IN  IF Missing(kids) THEN Result(SetFailed(Pop(a, 2)), t, FALSE)
      ELSE IF Len(t1.symbols) = Len(t.symbols) THEN Result(SetFailed(Pop(a, 2)), t1, said)
      ELSE Result(Push(Pop(a, 2), Node(op, Len(t1.symbols), None, kids)), t1, said)

(* What to print may be anything but an expression known to be wrong. *)
AddWriteLine(a, t) ==
  LET kid == Popped(a, 1)[1]
      b   == Push(Pop(a, 1), Node("console.writeline", 0, "void", Kids(<<kid>>)))
  IN  Result(IF kid.dt = "error" \/ kid = NullNode THEN SetFailed(b) ELSE b, t, FALSE)

(* What to read and what to declare is not checked. *)
AddUnchecked(a, t, op) ==
  Result(Push(Pop(a, 1), Node(op, 0, "void", Kids(Popped(a, 1)))), t, FALSE)

(* The operands of an assignment left in the order they were pushed. *)
InOrderPushed(op, kids) == kids

(* The value was pushed before the lvalue: its node comes second. *)
InOrder(op, kids) == IF op = ":=" THEN <<kids[2], kids[1]>> ELSE kids

(* Everything else: the node has type void, or error when its operands are *)
(* wrong.                                                                  *)
AddTyped(a, t, op) ==
  LET kids    == InOrder(op, Popped(a, Arity(op)))
      verdict == Verdict(t, op, kids)
      b       == Pop(a, Arity(op))
  IN  IF Missing(kids)
        THEN Result(SetFailed(Push(b, Node(op, 0, "void", Kids(kids)))), t, FALSE)
        ELSE Result(Push(b, Node(op, 0, IF verdict = "ok" THEN "void" ELSE "error", kids)), t,
                    verdict = "reported")

Increments == [op \in {"++", "--"} |-> IF op = "++" THEN "+" ELSE "-"]

AddOperator(a, t, op) ==
  CASE op \in DOMAIN Increments                      -> AddArithmetic(a, t, Increments[op])
    [] op \in Additive \cup {"%"}                     -> AddArithmetic(a, t, op)
    [] op \in Comparisons                             -> AddComparison(a, t, op)
    [] op = "console.writeline"                       -> AddWriteLine(a, t)
    [] op \in {"console.readline", "var-declaration"} -> AddUnchecked(a, t, op)
    [] OTHER                                          -> AddTyped(a, t, op)

(* ++v is v + 1 and --v is v - 1: the 1 is pushed first. *)
WithOperands(a, op) ==
  IF op \in DOMAIN Increments THEN addleaf(a, "NumberLiteral", IntLit, 0) ELSE a

(* Whatever throws is caught here. *)
addOperatorNode(a, t, op) ==
  LET b == WithOperands(a, op)
  IN  IF b.broken THEN Result(SetFailed(b), t, FALSE) ELSE AddOperator(b, t, op)

(* A leaf and the operator over it, unless adding the leaf throws. *)
AddLeafAndOperator(a, t, sym, op) ==
  LET b == addleaf(a, "Identifier", None, sym)
  IN  IF PushThrows(a) THEN Result(b, t, FALSE) ELSE addOperatorNode(b, t, op)

addNullOperatorNode(a) ==
  LET b == Push(a, Node("param-list", 0, "void", <<>>))
  IN  IF PushThrows(a) THEN SetFailed(b) ELSE b
==============================================================================
