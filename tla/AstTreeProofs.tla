---------------------------- MODULE AstTreeProofs ----------------------------
(***************************************************************************)
(* What the operations on the tree under construction return: a stack that *)
(* is never longer than its array, nodes that refer to symbols there are,  *)
(* and the table as it was or with one temporary more.                     *)
(***************************************************************************)
EXTENDS AstTree, SymbolTableProofs, SequenceTheorems

USE StackAssumption

(* A node may refer to any of the first "count" symbols; what stands for a *)
(* name refers to one.                                                     *)
NodeOK(n, count) ==
  /\ n.sym \in 0 .. count
  /\ n.op \in {"Identifier", "FormalParameter"} => n.sym # 0
  /\ n.dt \in DataTypes \cup {None}

IsSeq(s) == s \in Seq({s[i] : i \in DOMAIN s})

TreeOK(a, count) ==
  /\ a = [stack |-> a.stack, failed |-> a.failed, broken |-> a.broken]
  /\ a.failed \in BOOLEAN
  /\ a.broken \in BOOLEAN
  /\ IsSeq(a.stack)
  /\ Len(a.stack) <= MaxSizeOfStack
  /\ \A i \in DOMAIN a.stack : NodeOK(a.stack[i], count)

(* There is a root, or an error that is not forgotten. *)
Standing(a) == a.failed \/ a.broken \/ a.stack # <<>>

LEMMA EmptyTreeOK == \A count \in Nat : TreeOK(EmptyTree, count)
  BY DEF TreeOK, EmptyTree, IsSeq

(* What is a sequence over any set is one over its elements. *)
LEMMA IsSeqOver ==
  ASSUME NEW S, NEW s \in Seq(S)
  PROVE  IsSeq(s)
  <1> DEFINE T == {s[i] : i \in DOMAIN s}
  <1>1. Len(s) \in Nat /\ DOMAIN s = 1 .. Len(s) /\ s = [i \in 1 .. Len(s) |-> s[i]]
    OBVIOUS
  <1>2. \A i \in 1 .. Len(s) : s[i] \in T
    BY <1>1
  <1> HIDE DEF T
  <1>3. s \in [1 .. Len(s) -> T]
    BY <1>1, <1>2
  <1>4. s \in Seq(T)
    BY <1>1, <1>3
  <1>5. QED
    BY <1>4 DEF IsSeq, T

LEMMA AppendIsSeq ==
  ASSUME NEW s, IsSeq(s), NEW e
  PROVE  /\ IsSeq(Append(s, e))
         /\ Len(s) \in Nat /\ DOMAIN s = 1 .. Len(s)
         /\ Len(Append(s, e)) = Len(s) + 1
         /\ Append(s, e) # <<>>
         /\ DOMAIN Append(s, e) = 1 .. Len(s) + 1
         /\ \A i \in 1 .. Len(s) : Append(s, e)[i] = s[i]
         /\ Append(s, e)[Len(s) + 1] = e
  <1> DEFINE T == {s[i] : i \in DOMAIN s} \cup {e}
  <1>1. s \in Seq(T) /\ e \in T
    <2>1. s \in Seq({s[i] : i \in DOMAIN s})
      BY DEF IsSeq
    <2>2. {s[i] : i \in DOMAIN s} \subseteq T
      OBVIOUS
    <2> HIDE DEF T
    <2>3. QED
      BY <2>1, <2>2 DEF T
  <1> HIDE DEF T
  <1>2. Append(s, e) \in Seq(T)
    BY <1>1
  <1>3. IsSeq(Append(s, e))
    BY <1>2, IsSeqOver
  <1>4. Len(s) \in Nat /\ DOMAIN s = 1 .. Len(s) /\ Len(Append(s, e)) = Len(s) + 1
    BY <1>1
  <1>5. DOMAIN Append(s, e) = 1 .. Len(s) + 1
    BY <1>2, <1>4
  <1>6. Append(s, e)[Len(s) + 1] = e
    BY <1>1
  <1>7. \A i \in 1 .. Len(s) : Append(s, e)[i] = s[i]
    BY <1>1
  <1>8. Append(s, e) # <<>>
    BY <1>2, <1>4
  <1>9. QED
    BY <1>3, <1>4, <1>5, <1>6, <1>7, <1>8

LEMMA SubSeqIsSeq ==
  ASSUME NEW s, IsSeq(s), NEW n \in 0 .. Len(s)
  PROVE  /\ IsSeq(SubSeq(s, 1, n))
         /\ Len(SubSeq(s, 1, n)) = n
         /\ DOMAIN SubSeq(s, 1, n) = 1 .. n
         /\ \A i \in 1 .. n : i \in DOMAIN s /\ SubSeq(s, 1, n)[i] = s[i]
  <1> DEFINE T == {s[i] : i \in DOMAIN s}
  <1>1. s \in Seq(T)
    BY DEF IsSeq
  <1> HIDE DEF T
  <1>2. SubSeq(s, 1, n) \in Seq(T) /\ Len(SubSeq(s, 1, n)) = n
    BY <1>1
  <1>3. IsSeq(SubSeq(s, 1, n))
    BY <1>2, IsSeqOver
  <1>4. DOMAIN SubSeq(s, 1, n) = 1 .. n
    BY <1>2
  <1>5. \A i \in 1 .. n : i \in DOMAIN s /\ SubSeq(s, 1, n)[i] = s[i]
    BY <1>1
  <1>6. QED
    BY <1>2, <1>3, <1>4, <1>5

------------------------------------------------------------------------------
(* What is in order among fewer symbols is in order among more. *)
LEMMA TreeOKGrows ==
  ASSUME NEW a, NEW count \in Nat, TreeOK(a, count), NEW more \in Nat, count <= more
  PROVE  TreeOK(a, more)
  BY DEF TreeOK, NodeOK

(* A push keeps a tree in order, and there is a root after it, or the      *)
(* stack is broken.                                                        *)
LEMMA PushOK ==
  ASSUME NEW a, NEW count \in Nat, TreeOK(a, count), NEW n, NodeOK(n, count)
  PROVE  /\ TreeOK(Push(a, n), count)
         /\ Standing(Push(a, n))
  <1>1. CASE StackFull(a)
    <2>1. /\ Push(a, n) = [a EXCEPT !.broken = TRUE]
          /\ a = [stack |-> a.stack, failed |-> a.failed, broken |-> a.broken]
      BY <1>1 DEF Push, TreeOK
    <2>2. Push(a, n) = [stack |-> a.stack, failed |-> a.failed, broken |-> TRUE]
      BY <2>1
    <2>3. QED
      BY <2>2 DEF TreeOK, Standing
  <1>2. CASE ~StackFull(a)
    <2> DEFINE s == Append(a.stack, n)
    <2>1. Push(a, n) = [stack |-> s, failed |-> a.failed, broken |-> a.broken]
      BY <1>2 DEF Push, TreeOK
    <2>2. /\ IsSeq(s) /\ Len(s) = Len(a.stack) + 1 /\ s # <<>>
          /\ Len(a.stack) \in Nat /\ DOMAIN a.stack = 1 .. Len(a.stack)
          /\ DOMAIN s = 1 .. Len(a.stack) + 1
          /\ \A i \in 1 .. Len(a.stack) : s[i] = a.stack[i]
          /\ s[Len(a.stack) + 1] = n
      BY AppendIsSeq DEF TreeOK
    <2> HIDE DEF s
    <2>3. Len(s) <= MaxSizeOfStack
      BY <1>2, <2>2 DEF StackFull, TreeOK
    <2>4. \A i \in DOMAIN s : NodeOK(s[i], count)
      <3>1. \A i \in 1 .. Len(a.stack) : NodeOK(a.stack[i], count)
        BY <2>2 DEF TreeOK
      <3>2. \A i \in DOMAIN s : i \in 1 .. Len(a.stack) \/ i = Len(a.stack) + 1
        BY <2>2
      <3>3. QED
        BY <2>2, <3>1, <3>2
    <2>5. QED
      BY <2>1, <2>2, <2>3, <2>4 DEF TreeOK, Standing
  <1>3. QED
    BY <1>1, <1>2

LEMMA SetFailedOK ==
  ASSUME NEW a, NEW count \in Nat, TreeOK(a, count)
  PROVE  TreeOK(SetFailed(a), count) /\ Standing(SetFailed(a))
  <1>1. /\ SetFailed(a) = [a EXCEPT !.failed = TRUE]
        /\ a = [stack |-> a.stack, failed |-> a.failed, broken |-> a.broken]
    BY DEF SetFailed, TreeOK
  <1>2. SetFailed(a) = [stack |-> a.stack, failed |-> TRUE, broken |-> a.broken]
    BY <1>1
  <1>3. QED
    BY <1>2 DEF TreeOK, Standing

LEMMA PopOK ==
  ASSUME NEW a, NEW count \in Nat, TreeOK(a, count), NEW n \in Nat
  PROVE  TreeOK(Pop(a, n), count)
  <1> DEFINE m == IF Len(a.stack) > n THEN Len(a.stack) - n ELSE 0
             s == SubSeq(a.stack, 1, m)
  <1>1. Len(a.stack) \in Nat
    BY AppendIsSeq DEF TreeOK
  <1>2. m \in 0 .. Len(a.stack)
    BY <1>1
  <1>3. Pop(a, n) = [stack |-> s, failed |-> a.failed, broken |-> a.broken]
    <2>1. a = [stack |-> a.stack, failed |-> a.failed, broken |-> a.broken]
      BY DEF TreeOK
    <2>2. Pop(a, n) = [a EXCEPT !.stack = s]
      BY DEF Pop
    <2> HIDE DEF s
    <2>3. QED
      BY <2>1, <2>2
  <1> HIDE DEF m
  <1>4. /\ IsSeq(s) /\ Len(s) = m /\ DOMAIN s = 1 .. m
        /\ \A i \in 1 .. m : i \in DOMAIN a.stack /\ s[i] = a.stack[i]
    BY <1>2, SubSeqIsSeq DEF TreeOK
  <1> HIDE DEF s
  <1>5. Len(s) <= MaxSizeOfStack
    BY <1>1, <1>2, <1>4 DEF TreeOK
  <1>6. \A i \in DOMAIN s : NodeOK(s[i], count)
    BY <1>4 DEF TreeOK
  <1>7. QED
    BY <1>3, <1>4, <1>5, <1>6 DEF TreeOK

LEMMA AddLeafOK ==
  ASSUME NEW a, NEW count \in Nat, TreeOK(a, count),
         NEW kind, NEW text, NEW sym \in 0 .. count,
         kind \in {"Identifier", "FormalParameter"} => sym # 0
  PROVE  /\ TreeOK(addleaf(a, kind, text, sym), count)
         /\ Standing(addleaf(a, kind, text, sym))
  <1>1. NodeOK(LeafNode(kind, text, sym), count)
    BY DEF NodeOK, LeafNode
  <1>2. QED
    BY <1>1, PushOK DEF addleaf

------------------------------------------------------------------------------
(* A rule that accepts its operands has found nothing wrong with them. *)
LEMMA AllChecked ==
  ASSUME NEW checks, DOMAIN checks \in SUBSET Nat,
         \A i \in DOMAIN checks : checks[i][2] # "ok",
         FirstFailure(checks) = "ok"
  PROVE  \A i \in DOMAIN checks : checks[i][1]
  <1> DEFINE failed == {i \in DOMAIN checks : ~checks[i][1]}
  <1>1. SUFFICES ASSUME failed # {} PROVE FALSE
    OBVIOUS
  <1>2. FirstFailure(checks) = checks[Min(failed)][2]
    BY <1>1 DEF FirstFailure
  <1>3. failed \in SUBSET Nat
    OBVIOUS
  <1> HIDE DEF failed
  <1>4. \E i \in failed : \A j \in failed : i <= j
    BY <1>1, <1>3, LeastOf
  <1>5. Min(failed) \in failed
    BY <1>4 DEF Min
  <1>6. QED
    BY <1>2, <1>5 DEF failed

LEMMA NumericType ==
  ASSUME NEW t, NEW n, isNumeric(t, n)
  PROVE  dataTypeOfNode(t, n) \in NumericTypes
  BY DEF isNumeric, dataTypeOfNode, NumericTypes, ExpressiveOperators, Additive,
         Comparisons, Relations, Equalities, Connectives

LEMMA GreaterOfNumeric ==
  ASSUME NEW a \in NumericTypes, NEW b \in NumericTypes
  PROVE  greaterType(a, b) \in NumericTypes
  BY DEF greaterType, NumericTypes

(* The result of an operation whose operands are accepted is numeric. *)
LEMMA ArithmeticType ==
  ASSUME NEW t, NEW op \in Additive \cup {"%"}, NEW k, Verdict(t, op, k) = "ok"
  PROVE  greaterType(dataTypeOfNode(t, k[1]), dataTypeOfNode(t, k[2])) \in NumericTypes
  <1>1. CASE op = "%"
    <2> DEFINE c == ModuloArithmetic(t, k)
    <2>1. Verdict(t, op, k) = FirstFailure(c)
      BY <1>1 DEF Verdict, Additive, Relations, Equalities, Connectives
    <2>2. /\ DOMAIN c = 1 .. 2
          /\ \A i \in 1 .. 2 : /\ c[i][1] <=> dataTypeOfNode(t, k[i]) \in {"int", "long"}
                               /\ c[i][2] = "reported"
      BY DEF ModuloArithmetic, Must
    <2> HIDE DEF c
    <2>3. \A i \in 1 .. 2 : c[i][1]
      BY <2>1, <2>2, AllChecked
    <2>4. /\ dataTypeOfNode(t, k[1]) \in {"int", "long"}
          /\ dataTypeOfNode(t, k[2]) \in {"int", "long"}
      BY <2>2, <2>3
    <2>5. {"int", "long"} \subseteq NumericTypes
      BY DEF NumericTypes
    <2>6. QED
      BY <2>4, <2>5, GreaterOfNumeric
  <1>2. CASE op \in Additive
    <2> DEFINE c == BinaryArithmetic(t, k)
    <2>1. Verdict(t, op, k) = FirstFailure(c)
      BY <1>2 DEF Verdict, Additive, Relations, Equalities, Connectives
    <2> DEFINE P == isNumeric(t, k[1]) /\ isNumeric(t, k[2])
    <2>2. c = << <<P, "reported">> >>
      BY DEF BinaryArithmetic, Must
    <2> HIDE DEF c, P
    <2>3. P
      <3>1. /\ DOMAIN c = 1 .. 1
            /\ c[1] = <<P, "reported">>
        BY <2>2
      <3>2. \A i \in 1 .. 1 : c[i] = <<P, "reported">>
        BY <3>1
      <3>3. \A i \in DOMAIN c : c[i][2] # "ok"
        BY <3>1, <3>2
      <3>4. DOMAIN c \in SUBSET Nat
        BY <3>1
      <3>5. \A i \in DOMAIN c : c[i][1]
        BY <2>1, <3>3, <3>4, AllChecked
      <3>6. c[1][1]
        BY <3>1, <3>5
      <3>7. c[1][1] = P
        BY <3>1
      <3>8. QED
        BY <3>6, <3>7
    <2>4. /\ dataTypeOfNode(t, k[1]) \in NumericTypes
          /\ dataTypeOfNode(t, k[2]) \in NumericTypes
      BY <2>3, NumericType DEF P
    <2>5. QED
      BY <2>4, GreaterOfNumeric
  <1>3. QED
    BY <1>1, <1>2

------------------------------------------------------------------------------
(* The table an operation hands back: the one it was given, or that with a *)
(* request for a temporary made of it.                                     *)
TableAfter(u, t) == u = t \/ \E type \in DataTypes : u = GetFreeStore(t, type)

ResultOK(r, t) ==
  /\ r.said \in BOOLEAN
  /\ TableAfter(r.table, t)
  /\ TreeOK(r.ast, Len(r.table.symbols))
  /\ Standing(r.ast)

LeafWithSymbol == {"Identifier", "FormalParameter"}

LEMMA TableAfterOK ==
  ASSUME NEW t, WellFormed(t), NEW u, TableAfter(u, t)
  PROVE  /\ WellFormed(u)
         /\ Len(t.symbols) \in Nat
         /\ Len(u.symbols) \in Nat
         /\ Len(t.symbols) <= Len(u.symbols)
  <1>1. WellFormed(t) => Len(t.symbols) \in Nat
    BY DEF WellFormed, Table
  <1>2. CASE u = t
    BY <1>1, <1>2
  <1>3. CASE \E type \in DataTypes : u = GetFreeStore(t, type)
    BY <1>3, GetFreeStoreResult
  <1>4. QED
    BY <1>2, <1>3 DEF TableAfter

LEMMA PushNodeOK ==
  ASSUME NEW a, NEW count \in Nat, TreeOK(a, count), NEW n \in Nat,
         NEW op, op \notin LeafWithSymbol, NEW sym \in 0 .. count,
         NEW dt \in DataTypes \cup {None}, NEW kids
  PROVE  LET b == Push(Pop(a, n), Node(op, sym, dt, kids))
         IN  /\ TreeOK(b, count) /\ Standing(b)
             /\ TreeOK(SetFailed(b), count) /\ Standing(SetFailed(b))
  <1>1. NodeOK(Node(op, sym, dt, kids), count)
    BY DEF NodeOK, Node, LeafWithSymbol
  <1>2. TreeOK(Pop(a, n), count)
    BY PopOK
  <1>3. QED
    BY <1>1, <1>2, PushOK, SetFailedOK

(* An operation that leaves the table as it was. *)
LEMMA SameTableOK ==
  ASSUME NEW t, NEW a, TreeOK(a, Len(t.symbols)), Standing(a), NEW said \in BOOLEAN
  PROVE  ResultOK(Result(a, t, said), t)
  BY DEF ResultOK, Result, TableAfter

LEMMA ArithmeticOK ==
  ASSUME NEW t, WellFormed(t), NEW a, TreeOK(a, Len(t.symbols)),
         NEW op \in Additive \cup {"%"}
  PROVE  ResultOK(AddArithmetic(a, t, op), t)
  <1> DEFINE kids    == Popped(a, 2)
             verdict == Verdict(t, op, kids)
             divisor == Divisor(op, kids[2])
             type    == IF verdict = "ok" /\ divisor # "zero"
                          THEN greaterType(dataTypeOfNode(t, kids[1]), dataTypeOfNode(t, kids[2]))
                          ELSE "error"
             t1      == GetFreeStore(t, type)
             stored  == Len(t1.symbols) > Len(t.symbols)
             sym     == IF stored THEN Len(t1.symbols) ELSE 0
             b       == Push(Pop(a, 2), Node(op, sym, type, kids))
             none    == Push(Pop(a, 2), Node(op, 0, None, Kids(kids)))
             bare    == Push(Pop(a, 2), Node(op, 0, type, kids))
  <1>1. type \in DataTypes
    <2>1. verdict = "ok" =>
            greaterType(dataTypeOfNode(t, kids[1]), dataTypeOfNode(t, kids[2])) \in NumericTypes
      BY ArithmeticType
    <2>2. NumericTypes \subseteq DataTypes /\ "error" \in DataTypes
      BY DEF NumericTypes, DataTypes
    <2> HIDE DEF verdict, divisor, kids
    <2>3. QED
      BY <2>1, <2>2
  <1>2. op \notin LeafWithSymbol
    BY DEF Additive, LeafWithSymbol
  <1>3. AddArithmetic(a, t, op) =
          IF Missing(kids) THEN Result(SetFailed(none), t, FALSE)
          ELSE IF divisor = "throws" THEN Result(SetFailed(bare), t, verdict # "ok")
          ELSE Result(IF stored /\ divisor = "fine" THEN b ELSE SetFailed(b), t1,
                      verdict # "ok" \/ divisor = "zero")
    <2>1. [Node(op, sym, type, kids) EXCEPT !.sym = 0] = Node(op, 0, type, kids)
      BY DEF Node
    <2> HIDE DEF type, verdict, divisor, kids
    <2>2. QED
      BY <2>1 DEF AddArithmetic, type, verdict, divisor, kids
  <1> HIDE DEF verdict, divisor, kids, type
  <1>4. /\ Len(t.symbols) \in Nat
        /\ WellFormed(t1) /\ Len(t1.symbols) \in {Len(t.symbols), Len(t.symbols) + 1}
    BY <1>1, GetFreeStoreResult
  <1>5. /\ TreeOK(SetFailed(none), Len(t.symbols)) /\ Standing(SetFailed(none))
        /\ TreeOK(SetFailed(bare), Len(t.symbols)) /\ Standing(SetFailed(bare))
    <2>1. 0 \in 0 .. Len(t.symbols) /\ None \in DataTypes \cup {None}
      BY <1>4
    <2>2. TreeOK(SetFailed(none), Len(t.symbols)) /\ Standing(SetFailed(none))
      BY <1>2, <1>4, <2>1, PushNodeOK
    <2>3. TreeOK(SetFailed(bare), Len(t.symbols)) /\ Standing(SetFailed(bare))
      BY <1>1, <1>2, <1>4, <2>1, PushNodeOK
    <2>4. QED
      BY <2>2, <2>3
  <1>6. /\ TreeOK(b, Len(t1.symbols)) /\ Standing(b)
        /\ TreeOK(SetFailed(b), Len(t1.symbols)) /\ Standing(SetFailed(b))
    <2>1. TreeOK(a, Len(t1.symbols)) /\ Len(t1.symbols) \in Nat
      BY <1>4, TreeOKGrows
    <2>2. sym \in 0 .. Len(t1.symbols)
      BY <2>1
    <2> HIDE DEF sym, t1
    <2>3. QED
      BY <1>1, <1>2, <2>1, <2>2, PushNodeOK
  <1>7. TableAfter(t1, t)
    BY <1>1 DEF TableAfter
  <1> HIDE DEF t1, stored, b, none, bare
  <1>8. CASE Missing(kids)
    BY <1>3, <1>5, <1>8, SameTableOK
  <1>9. CASE ~Missing(kids) /\ divisor = "throws"
    BY <1>3, <1>5, <1>9, SameTableOK
  <1>10. CASE ~Missing(kids) /\ divisor # "throws"
    BY <1>3, <1>6, <1>7, <1>10 DEF ResultOK, Result
  <1>11. QED
    BY <1>8, <1>9, <1>10

LEMMA ComparisonOK ==
  ASSUME NEW t, WellFormed(t), NEW a, TreeOK(a, Len(t.symbols)), NEW op \in Comparisons
  PROVE  ResultOK(AddComparison(a, t, op), t)
  <1> DEFINE kids == Popped(a, 2)
             t1   == GetFreeStore(t, "bool")
             said == Verdict(t, op, kids) # "ok"
             b    == Push(Pop(a, 2), Node(op, Len(t1.symbols), None, kids))
             none == SetFailed(Pop(a, 2))
  <1>1. "bool" \in DataTypes
    BY DEF DataTypes
  <1>2. op \notin LeafWithSymbol
    BY DEF Comparisons, Relations, Equalities, Connectives, LeafWithSymbol
  <1>3. AddComparison(a, t, op) =
          IF Missing(kids) THEN Result(none, t, FALSE)
          ELSE IF Len(t1.symbols) = Len(t.symbols) THEN Result(none, t1, said)
          ELSE Result(b, t1, said)
    BY DEF AddComparison
  <1>4. /\ Len(t.symbols) \in Nat
        /\ WellFormed(t1) /\ Len(t1.symbols) \in {Len(t.symbols), Len(t.symbols) + 1}
    BY <1>1, GetFreeStoreResult
  <1>5. TreeOK(none, Len(t.symbols)) /\ Standing(none)
    BY <1>4, PopOK, SetFailedOK
  <1>6. TableAfter(t1, t)
    BY <1>1 DEF TableAfter
  <1> HIDE DEF t1
  <1>7. TreeOK(a, Len(t1.symbols)) /\ Len(t1.symbols) \in Nat
    BY <1>4, TreeOKGrows
  <1>8. /\ TreeOK(none, Len(t1.symbols))
        /\ TreeOK(b, Len(t1.symbols)) /\ Standing(b)
    <2>1. TreeOK(Pop(a, 2), Len(t1.symbols))
      BY <1>7, PopOK
    <2>2. TreeOK(none, Len(t1.symbols))
      BY <1>7, <2>1, SetFailedOK
    <2>3. Len(t1.symbols) \in 0 .. Len(t1.symbols) /\ None \in DataTypes \cup {None}
      BY <1>7
    <2>4. TreeOK(b, Len(t1.symbols)) /\ Standing(b)
      BY <1>2, <1>7, <2>3, PushNodeOK
    <2>5. QED
      BY <2>2, <2>4
  <1> HIDE DEF none, b, kids
  <1>9. said \in BOOLEAN
    OBVIOUS
  <1> HIDE DEF said
  <1>10. ResultOK(Result(none, t, FALSE), t)
    BY <1>5, SameTableOK
  <1>11. ResultOK(Result(none, t1, said), t) /\ ResultOK(Result(b, t1, said), t)
    BY <1>5, <1>6, <1>8, <1>9 DEF ResultOK, Result
  <1>12. QED
    BY <1>3, <1>10, <1>11

LEMMA WriteLineOK ==
  ASSUME NEW t, WellFormed(t), NEW a, TreeOK(a, Len(t.symbols))
  PROVE  ResultOK(AddWriteLine(a, t), t)
  <1> DEFINE kid  == Popped(a, 1)[1]
             kids == Kids(<<kid>>)
             b    == Push(Pop(a, 1), Node("console.writeline", 0, "void", kids))
  <1>1. Len(t.symbols) \in Nat /\ "void" \in DataTypes
        /\ "console.writeline" \notin LeafWithSymbol
    BY DEF WellFormed, Table, DataTypes, LeafWithSymbol
  <1>2. AddWriteLine(a, t) =
          Result(IF kid.dt = "error" \/ kid = NullNode THEN SetFailed(b) ELSE b, t, FALSE)
    BY DEF AddWriteLine
  <1> HIDE DEF kid, kids
  <1>3. /\ TreeOK(b, Len(t.symbols)) /\ Standing(b)
        /\ TreeOK(SetFailed(b), Len(t.symbols)) /\ Standing(SetFailed(b))
    BY <1>1, PushNodeOK
  <1> HIDE DEF b
  <1>4. QED
    BY <1>2, <1>3, SameTableOK

(* Whatever symbols there are, also more than the table has yet. *)
LEMMA UncheckedOK ==
  ASSUME NEW t, NEW a, NEW count \in Nat, TreeOK(a, count),
         NEW op, op \notin LeafWithSymbol
  PROVE  LET r == AddUnchecked(a, t, op)
         IN  /\ r.table = t /\ r.said \in BOOLEAN
             /\ TreeOK(r.ast, count) /\ Standing(r.ast)
  <1>1. "void" \in DataTypes
    BY DEF DataTypes
  <1>2. AddUnchecked(a, t, op) =
          Result(Push(Pop(a, 1), Node(op, 0, "void", Kids(Popped(a, 1)))), t, FALSE)
    BY DEF AddUnchecked
  <1>3. QED
    BY <1>1, <1>2, PushNodeOK DEF Result

LEMMA TypedOK ==
  ASSUME NEW t, WellFormed(t), NEW a, TreeOK(a, Len(t.symbols)),
         NEW op, op \notin LeafWithSymbol
  PROVE  ResultOK(AddTyped(a, t, op), t)
  <1> DEFINE n       == Arity(op)
             kids    == InOrder(op, Popped(a, n))
             verdict == Verdict(t, op, kids)
             none    == Push(Pop(a, n), Node(op, 0, "void", Kids(kids)))
             type    == IF verdict = "ok" THEN "void" ELSE "error"
             b       == Push(Pop(a, n), Node(op, 0, type, kids))
  <1>1. Len(t.symbols) \in Nat
    BY DEF WellFormed, Table
  <1>2. n \in Nat
    BY DEF Arity
  <1>3. "void" \in DataTypes /\ type \in DataTypes
    BY DEF DataTypes
  <1>4. AddTyped(a, t, op) =
          IF Missing(kids) THEN Result(SetFailed(none), t, FALSE)
          ELSE Result(b, t, verdict = "reported")
    BY DEF AddTyped
  <1> HIDE DEF n, kids, verdict, type
  <1>5. /\ TreeOK(SetFailed(none), Len(t.symbols)) /\ Standing(SetFailed(none))
        /\ TreeOK(b, Len(t.symbols)) /\ Standing(b)
    BY <1>1, <1>2, <1>3, PushNodeOK
  <1> HIDE DEF none, b
  <1>6. QED
    BY <1>4, <1>5, SameTableOK

(* Whatever operator the tree is asked for, it stays in order, and there   *)
(* is a root afterwards or an error.                                       *)
LEMMA OperatorOK ==
  ASSUME NEW t, WellFormed(t), NEW a, TreeOK(a, Len(t.symbols)),
         NEW op, op \notin LeafWithSymbol
  PROVE  ResultOK(AddOperator(a, t, op), t)
  <1>1. Len(t.symbols) \in Nat
    BY DEF WellFormed, Table
  <1>2. CASE op \in DOMAIN Increments
    <2>1. Increments[op] \in {"+", "-"} /\ {"+", "-"} \subseteq Additive
      BY <1>2 DEF Increments, Additive
    <2>2. AddOperator(a, t, op) = AddArithmetic(a, t, Increments[op])
      BY <1>2 DEF AddOperator, Increments, Additive, Comparisons, Relations, Equalities,
                  Connectives
    <2>3. QED
      BY <2>1, <2>2, ArithmeticOK
  <1>3. CASE op \in Additive \cup {"%"}
    <2>1. AddOperator(a, t, op) = AddArithmetic(a, t, op)
      BY <1>3 DEF AddOperator, Increments, Additive, Comparisons, Relations, Equalities,
                  Connectives
    <2>2. QED
      BY <1>3, <2>1, ArithmeticOK
  <1>4. CASE op \in Comparisons
    <2>1. AddOperator(a, t, op) = AddComparison(a, t, op)
      BY <1>4 DEF AddOperator, Increments, Additive, Comparisons, Relations, Equalities,
                  Connectives
    <2>2. QED
      BY <1>4, <2>1, ComparisonOK
  <1>5. CASE op = "console.writeline"
    <2>1. AddOperator(a, t, op) = AddWriteLine(a, t)
      BY <1>5 DEF AddOperator, Increments, Additive, Comparisons, Relations, Equalities,
                  Connectives
    <2>2. QED
      BY <2>1, WriteLineOK
  <1>6. CASE op \in {"console.readline", "var-declaration"}
    <2>1. AddOperator(a, t, op) = AddUnchecked(a, t, op)
      BY <1>6 DEF AddOperator, Increments, Additive, Comparisons, Relations, Equalities,
                  Connectives
    <2> DEFINE r     == AddUnchecked(a, t, op)
               count == Len(t.symbols)
    <2>2. count \in Nat /\ TreeOK(a, count)
      BY <1>1
    <2> HIDE DEF count
    <2>3. r.table = t /\ r.said \in BOOLEAN /\ TreeOK(r.ast, count) /\ Standing(r.ast)
      BY <2>2, UncheckedOK
    <2> HIDE DEF r
    <2>4. ResultOK(r, t)
      BY <2>3 DEF ResultOK, TableAfter, count
    <2>5. QED
      BY <2>1, <2>4 DEF r
  <1>7. CASE op \notin DOMAIN Increments \cup Additive \cup {"%"} \cup Comparisons
                      \cup {"console.writeline", "console.readline", "var-declaration"}
    <2>1. AddOperator(a, t, op) = AddTyped(a, t, op)
      BY <1>7 DEF AddOperator
    <2>2. QED
      BY <2>1, TypedOK
  <1>8. QED
    BY <1>2, <1>3, <1>4, <1>5, <1>6, <1>7

(* The operands pushed along are of the tree too. *)
LEMMA WithOperandsOK ==
  ASSUME NEW a, NEW count \in Nat, TreeOK(a, count), NEW op
  PROVE  TreeOK(WithOperands(a, op), count)
  <1>1. TreeOK(addleaf(a, "NumberLiteral", IntLit, 0), count)
    <2>1. "NumberLiteral" \notin {"Identifier", "FormalParameter"} /\ 0 \in 0 .. count
      OBVIOUS
    <2>2. QED
      BY <2>1, AddLeafOK
  <1>2. QED
    BY <1>1 DEF WithOperands

LEMMA AddOperatorNodeOK ==
  ASSUME NEW t, WellFormed(t), NEW a, TreeOK(a, Len(t.symbols)),
         NEW op, op \notin LeafWithSymbol
  PROVE  ResultOK(addOperatorNode(a, t, op), t)
  <1> DEFINE b == WithOperands(a, op)
  <1>1. Len(t.symbols) \in Nat
    BY DEF WellFormed, Table
  <1>2. TreeOK(b, Len(t.symbols))
    BY <1>1, WithOperandsOK
  <1>3. addOperatorNode(a, t, op) =
          IF b.broken THEN Result(SetFailed(b), t, FALSE) ELSE AddOperator(b, t, op)
    BY DEF addOperatorNode
  <1> HIDE DEF b
  <1>4. ResultOK(Result(SetFailed(b), t, FALSE), t)
    BY <1>1, <1>2, SetFailedOK, SameTableOK
  <1>5. ResultOK(AddOperator(b, t, op), t)
    BY <1>2, OperatorOK
  <1>6. QED
    BY <1>3, <1>4, <1>5

LEMMA LeafAndOperatorOK ==
  ASSUME NEW t, WellFormed(t), NEW a, TreeOK(a, Len(t.symbols)),
         NEW op, op \notin LeafWithSymbol, NEW sym \in 1 .. Len(t.symbols)
  PROVE  ResultOK(AddLeafAndOperator(a, t, sym, op), t)
  <1> DEFINE b == addleaf(a, "Identifier", None, sym)
  <1>1. Len(t.symbols) \in Nat
    BY DEF WellFormed, Table
  <1>2. sym \in 0 .. Len(t.symbols) /\ sym # 0
    BY <1>1
  <1>3. TreeOK(b, Len(t.symbols)) /\ Standing(b)
    BY <1>1, <1>2, AddLeafOK
  <1>4. AddLeafAndOperator(a, t, sym, op) =
          IF PushThrows(a) THEN Result(b, t, FALSE) ELSE addOperatorNode(b, t, op)
    BY DEF AddLeafAndOperator
  <1> HIDE DEF b
  <1>5. QED
    BY <1>3, <1>4, AddOperatorNodeOK, SameTableOK

(* A declaration, whose node refers to the symbol just added. *)
LEMMA DeclarationOK ==
  ASSUME NEW t, NEW a, NEW count \in Nat, TreeOK(a, count), NEW sym \in 1 .. count
  PROVE  LET r == AddLeafAndOperator(a, t, sym, "var-declaration")
         IN  TreeOK(r.ast, count) /\ Standing(r.ast)
  <1> DEFINE b  == addleaf(a, "Identifier", None, sym)
             op == "var-declaration"
  <1>1. sym \in 0 .. count /\ sym # 0
    OBVIOUS
  <1>2. TreeOK(b, count) /\ Standing(b)
    BY <1>1, AddLeafOK
  <1>3. AddLeafAndOperator(a, t, sym, op) =
          IF PushThrows(a) THEN Result(b, t, FALSE) ELSE addOperatorNode(b, t, op)
    BY DEF AddLeafAndOperator
  <1> HIDE DEF b
  <1>4. addOperatorNode(b, t, op) =
          IF b.broken THEN Result(SetFailed(b), t, FALSE) ELSE AddUnchecked(b, t, op)
    <2>1. WithOperands(b, op) = b
      BY DEF WithOperands, Increments
    <2>2. AddOperator(b, t, op) = AddUnchecked(b, t, op)
      BY DEF AddOperator, Increments, Additive, Comparisons, Relations, Equalities, Connectives
    <2>3. QED
      BY <2>1, <2>2 DEF addOperatorNode
  <1>5. LET r == AddUnchecked(b, t, op)
        IN  TreeOK(r.ast, count) /\ Standing(r.ast)
    <2>1. op \notin LeafWithSymbol
      BY DEF LeafWithSymbol
    <2> HIDE DEF op
    <2>2. QED
      BY <1>2, <2>1, UncheckedOK
  <1>6. TreeOK(SetFailed(b), count) /\ Standing(SetFailed(b))
    BY <1>2, SetFailedOK
  <1>7. QED
    BY <1>2, <1>3, <1>4, <1>5, <1>6 DEF Result

LEMMA NullOperatorOK ==
  ASSUME NEW a, NEW count \in Nat, TreeOK(a, count)
  PROVE  TreeOK(addNullOperatorNode(a), count) /\ Standing(addNullOperatorNode(a))
  <1> DEFINE n == Node("param-list", 0, "void", <<>>)
  <1>1. NodeOK(n, count)
    BY DEF NodeOK, Node, DataTypes
  <1>2. addNullOperatorNode(a) = IF PushThrows(a) THEN SetFailed(Push(a, n)) ELSE Push(a, n)
    BY DEF addNullOperatorNode
  <1> HIDE DEF n
  <1>3. QED
    BY <1>1, <1>2, PushOK, SetFailedOK

------------------------------------------------------------------------------
(* A set of nodes with all their operands: each operator has as many as it *)
(* takes, or none, and they are lower than it.                             *)
Forest(D, height) ==
  \A n \in D :
    /\ height[n] \in Nat
    /\ IsSeq(n.kids)
    /\ n.kids # <<>> => Len(n.kids) = Arity(n.op)
    /\ \A i \in DOMAIN n.kids : n.kids[i] \in D /\ height[n.kids[i]] < height[n]

Planted(nodes) == \E D, height : Forest(D, height) /\ nodes \subseteq D

(* Unless an error was noted, every node on the stack is a whole tree.     *)
StackNodes(a)  == {a.stack[i] : i \in DOMAIN a.stack}
TreesWhole(a)  == a.failed \/ Planted(StackNodes(a))

LEMMA NoNodePlanted == Planted({})
  <1>1. Forest({}, <<>>)
    BY DEF Forest
  <1>2. QED
    BY <1>1 DEF Planted

LEMMA FewerPlanted ==
  ASSUME NEW nodes, Planted(nodes), NEW fewer \in SUBSET nodes
  PROVE  Planted(fewer)
  BY DEF Planted

LEMMA Arities == \A op : Arity(op) \in {1, 2, 3, 5}
  BY DEF Arity

(* A node over nodes that are whole is whole.                              *)
LEMMA NodePlanted ==
  ASSUME NEW nodes, Planted(nodes), NEW n, IsSeq(n.kids),
         n.kids # <<>> => Len(n.kids) = Arity(n.op),
         \A i \in DOMAIN n.kids : n.kids[i] \in nodes
  PROVE  Planted(nodes \cup {n})
  <1>1. PICK D, height : Forest(D, height) /\ nodes \subseteq D
    BY DEF Planted
  <1>2. CASE n \in D
    BY <1>1, <1>2 DEF Planted
  <1>3. CASE n \notin D
    <2>1. /\ Len(n.kids) \in Nat /\ DOMAIN n.kids = 1 .. Len(n.kids)
          /\ Len(n.kids) <= 5
      BY Arities DEF IsSeq
    <2>2. \A i \in DOMAIN n.kids : n.kids[i] \in D /\ height[n.kids[i]] \in Nat
      BY <1>1 DEF Forest
    <2> DEFINE h(i) == IF i \in DOMAIN n.kids THEN height[n.kids[i]] ELSE 0
               b    == h(1) + h(2) + h(3) + h(4) + h(5) + 1
    <2>3. \A i \in 1 .. 5 : h(i) \in Nat
      BY <2>2
    <2>4. \A i \in DOMAIN n.kids : i \in 1 .. 5 /\ h(i) = height[n.kids[i]]
      BY <2>1
    <2> HIDE DEF h
    <2>5. b \in Nat /\ \A i \in 1 .. 5 : h(i) < b
      <3>1. /\ h(1) \in Nat /\ h(2) \in Nat /\ h(3) \in Nat /\ h(4) \in Nat /\ h(5) \in Nat
        BY <2>3
      <3>2. b \in Nat /\ h(1) < b /\ h(2) < b /\ h(3) < b /\ h(4) < b /\ h(5) < b
        BY SMTT(20), <3>1
      <3>3. QED
        BY <3>2
    <2>6. \A i \in DOMAIN n.kids : height[n.kids[i]] < b
      BY <2>4, <2>5
    <2> HIDE DEF b
    <2> DEFINE E    == D \cup {n}
               tall == [x \in E |-> IF x = n THEN b ELSE height[x]]
    <2>7. \A x \in D : tall[x] = height[x]
      BY <1>3
    <2>8. tall[n] = b
      OBVIOUS
    <2> HIDE DEF tall
    <2>9. Forest(E, tall)
      <3> SUFFICES ASSUME NEW m \in E
                   PROVE  /\ tall[m] \in Nat /\ IsSeq(m.kids)
                          /\ m.kids # <<>> => Len(m.kids) = Arity(m.op)
                          /\ \A i \in DOMAIN m.kids : m.kids[i] \in E /\ tall[m.kids[i]] < tall[m]
        BY DEF Forest
      <3>1. CASE m = n
        BY <2>2, <2>5, <2>6, <2>7, <2>8, <3>1
      <3>2. CASE m \in D
        <4>1. /\ height[m] \in Nat /\ IsSeq(m.kids)
              /\ m.kids # <<>> => Len(m.kids) = Arity(m.op)
              /\ \A i \in DOMAIN m.kids : m.kids[i] \in D /\ height[m.kids[i]] < height[m]
          BY <1>1, <3>2 DEF Forest
        <4>2. QED
          BY <2>7, <3>2, <4>1
      <3>3. QED
        BY <3>1, <3>2
    <2>10. nodes \cup {n} \subseteq E
      BY <1>1
    <2>11. QED
      BY <2>9, <2>10 DEF Planted
  <1>4. QED
    BY <1>2, <1>3

TreeWhole(a) ==
  /\ a = [stack |-> a.stack, failed |-> a.failed, broken |-> a.broken]
  /\ a.failed \in BOOLEAN
  /\ IsSeq(a.stack)
  /\ a.failed \/ Planted(StackNodes(a))

LEMMA EmptyTreeWhole == TreeWhole(EmptyTree)
  <1>1. IsSeq(<<>>) /\ StackNodes(EmptyTree) = {}
    BY DEF IsSeq, StackNodes, EmptyTree
  <1>2. QED
    BY <1>1, NoNodePlanted DEF TreeWhole, EmptyTree

LEMMA SetFailedWhole ==
  ASSUME NEW a, TreeWhole(a)
  PROVE  TreeWhole(SetFailed(a)) /\ SetFailed(a).failed
  <1>1. /\ SetFailed(a) = [a EXCEPT !.failed = TRUE]
        /\ a = [stack |-> a.stack, failed |-> a.failed, broken |-> a.broken]
    BY DEF SetFailed, TreeWhole
  <1>2. SetFailed(a) = [stack |-> a.stack, failed |-> TRUE, broken |-> a.broken]
    BY <1>1
  <1>3. QED
    BY <1>2 DEF TreeWhole

(* A push that puts a node over those on the stack, some of which have     *)
(* been taken off.                                                         *)
LEMMA PushWhole ==
  ASSUME NEW a, TreeWhole(a), NEW nodes, StackNodes(a) \subseteq nodes, NEW n,
         a.failed \/ Planted(nodes \cup {n})
  PROVE  /\ TreeWhole(Push(a, n))
         /\ StackFull(a) \/ Push(a, n).stack # <<>>
  <1>1. CASE StackFull(a)
    <2>1. Push(a, n) = [stack |-> a.stack, failed |-> a.failed, broken |-> TRUE]
      BY <1>1 DEF Push, TreeWhole
    <2>2. StackNodes(Push(a, n)) = StackNodes(a)
      BY <2>1 DEF StackNodes
    <2>3. QED
      BY <1>1, <2>1, <2>2 DEF TreeWhole
  <1>2. CASE ~StackFull(a)
    <2> DEFINE s == Append(a.stack, n)
               b == Push(a, n)
    <2>1. b = [stack |-> s, failed |-> a.failed, broken |-> a.broken]
      BY <1>2 DEF Push, TreeWhole
    <2>2. /\ IsSeq(s) /\ s # <<>>
          /\ Len(a.stack) \in Nat /\ DOMAIN a.stack = 1 .. Len(a.stack)
          /\ DOMAIN s = 1 .. Len(a.stack) + 1
          /\ \A i \in 1 .. Len(a.stack) : s[i] = a.stack[i]
          /\ s[Len(a.stack) + 1] = n
      BY AppendIsSeq DEF TreeWhole
    <2> HIDE DEF s, b
    <2>3. \A i \in DOMAIN s : s[i] = n \/ \E j \in DOMAIN a.stack : s[i] = a.stack[j]
      BY <2>2
    <2>4. StackNodes(b) \subseteq nodes \cup {n}
      BY <2>1, <2>3 DEF StackNodes
    <2>5. a.failed \/ Planted(StackNodes(b))
      BY <2>4, FewerPlanted
    <2>6. QED
      BY <2>1, <2>2, <2>5 DEF TreeWhole, b
  <1>3. QED
    BY <1>1, <1>2

LEMMA PopWhole ==
  ASSUME NEW a, TreeWhole(a), NEW k \in Nat
  PROVE  /\ TreeWhole(Pop(a, k))
         /\ Pop(a, k).failed = a.failed
         /\ StackNodes(Pop(a, k)) \subseteq StackNodes(a)
  <1> DEFINE n == IF Len(a.stack) > k THEN Len(a.stack) - k ELSE 0
             s == SubSeq(a.stack, 1, n)
             b == Pop(a, k)
  <1>1. IsSeq(a.stack) /\ Len(a.stack) \in Nat
    BY DEF TreeWhole, IsSeq
  <1>2. n \in 0 .. Len(a.stack)
    BY <1>1
  <1>3. b = [stack |-> s, failed |-> a.failed, broken |-> a.broken]
    <2>1. a = [stack |-> a.stack, failed |-> a.failed, broken |-> a.broken]
      BY DEF TreeWhole
    <2>2. b = [a EXCEPT !.stack = s]
      BY DEF Pop
    <2> HIDE DEF s, b
    <2>3. QED
      BY <2>1, <2>2
  <1> HIDE DEF n
  <1>4. IsSeq(s) /\ DOMAIN s = 1 .. n /\ \A i \in 1 .. n : i \in DOMAIN a.stack /\ s[i] = a.stack[i]
    BY <1>1, <1>2, SubSeqIsSeq
  <1> HIDE DEF s, b
  <1>5. StackNodes(b) \subseteq StackNodes(a)
    BY <1>3, <1>4 DEF StackNodes
  <1>6. a.failed \/ Planted(StackNodes(b))
    BY <1>5, FewerPlanted DEF TreeWhole
  <1>7. QED
    BY <1>3, <1>4, <1>5, <1>6 DEF TreeWhole, b

(* A leaf, or a node without operands.                                     *)
LEMMA AddLeafWhole ==
  ASSUME NEW a, TreeWhole(a), NEW n, n.kids = <<>>
  PROVE  /\ TreeWhole(Push(a, n))
         /\ StackFull(a) \/ Push(a, n).stack # <<>>
  <1>1. IsSeq(n.kids) /\ DOMAIN n.kids = {}
    BY DEF IsSeq
  <1>2. a.failed \/ Planted(StackNodes(a) \cup {n})
    BY <1>1, NodePlanted DEF TreeWhole
  <1>3. QED
    BY <1>2, PushWhole

(* The operands that were popped, when none is missing.                    *)
LEMMA PoppedWhole ==
  ASSUME NEW a, TreeWhole(a), NEW k \in Nat, ~Missing(Popped(a, k))
  PROVE  /\ IsSeq(Popped(a, k)) /\ Len(Popped(a, k)) = k /\ DOMAIN Popped(a, k) = 1 .. k
         /\ \A i \in 1 .. k : Popped(a, k)[i] \in StackNodes(a)
  <1> DEFINE p == Popped(a, k)
  <1>1. Len(a.stack) \in Nat /\ DOMAIN a.stack = 1 .. Len(a.stack)
    BY DEF TreeWhole, IsSeq
  <1>2. DOMAIN p = 1 .. k
    BY DEF Popped
  <1>3. \A i \in 1 .. k : p[i] \in StackNodes(a)
    <2> SUFFICES ASSUME NEW i \in 1 .. k PROVE p[i] \in StackNodes(a)
      OBVIOUS
    <2> DEFINE j == Len(a.stack) - k + i
    <2>1. p[i] = IF j > 0 THEN a.stack[j] ELSE NullNode
      BY DEF Popped
    <2>2. p[i] # NullNode
      BY <1>2 DEF Missing
    <2>3. j \in DOMAIN a.stack /\ p[i] = a.stack[j]
      BY <1>1, <2>1, <2>2
    <2> HIDE DEF j, p
    <2>4. QED
      BY <2>3 DEF StackNodes
  <1>4. p \in [1 .. k -> StackNodes(a)]
    BY <1>3 DEF Popped
  <1>5. p \in Seq(StackNodes(a)) /\ Len(p) = k
    BY <1>4
  <1>6. QED
    BY <1>2, <1>3, <1>5, IsSeqOver

(* A node over the operands that were popped takes their place.            *)
LEMMA OverPoppedWhole ==
  ASSUME NEW a, TreeWhole(a), NEW k \in Nat, NEW n,
         IsSeq(n.kids), Len(n.kids) = Arity(n.op),
         \A i \in DOMAIN n.kids : n.kids[i] \in StackNodes(a)
  PROVE  TreeWhole(Push(Pop(a, k), n))
  <1>1. a.failed \/ Planted(StackNodes(a) \cup {n})
    BY NodePlanted DEF TreeWhole
  <1>2. QED
    BY <1>1, PopWhole, PushWhole

(* A node whose kids are the popped operands.                              *)
LEMMA NodeOverPopped ==
  ASSUME NEW a, TreeWhole(a), NEW op, ~Missing(Popped(a, Arity(op))), NEW sym, NEW dt
  PROVE  TreeWhole(Push(Pop(a, Arity(op)), Node(op, sym, dt, Popped(a, Arity(op)))))
  <1> DEFINE kids == Popped(a, Arity(op))
             n    == Node(op, sym, dt, kids)
  <1>1. Arity(op) \in Nat
    BY Arities
  <1>2. IsSeq(kids) /\ Len(kids) = Arity(op) /\ \A i \in DOMAIN kids : kids[i] \in StackNodes(a)
    BY <1>1, PoppedWhole
  <1>3. n.kids = kids /\ n.op = op
    BY DEF Node
  <1> HIDE DEF kids, n
  <1>4. TreeWhole(Push(Pop(a, Arity(op)), n))
    BY <1>1, <1>2, <1>3, OverPoppedWhole
  <1>5. QED
    BY <1>4 DEF kids, n

(* What went wrong is noted, whatever is on the stack then.                *)
LEMMA FailedPushWhole ==
  ASSUME NEW a, TreeWhole(a), NEW k \in Nat, NEW n
  PROVE  /\ TreeWhole(SetFailed(Push(Pop(a, k), n)))
         /\ TreeWhole(SetFailed(Pop(a, k)))
  <1> DEFINE p == Pop(a, k)
             b == Push(p, n)
  <1>1. TreeWhole(p)
    BY PopWhole
  <1>2. TreeWhole(SetFailed(p))
    BY <1>1, SetFailedWhole
  <1> HIDE DEF p
  <1>3. b = [stack |-> b.stack, failed |-> b.failed, broken |-> b.broken] /\ IsSeq(b.stack)
    <2>1. CASE StackFull(p)
      BY <1>1, <2>1 DEF Push, TreeWhole
    <2>2. CASE ~StackFull(p)
      <3>1. IsSeq(Append(p.stack, n))
        BY <1>1, AppendIsSeq DEF TreeWhole
      <3>2. b = [p EXCEPT !.stack = Append(p.stack, n)]
        BY <2>2 DEF Push
      <3> HIDE DEF b
      <3>3. QED
        BY <1>1, <3>1, <3>2 DEF TreeWhole
    <2>3. QED
      BY <2>1, <2>2
  <1> HIDE DEF b
  <1>4. SetFailed(b) = [stack |-> b.stack, failed |-> TRUE, broken |-> b.broken]
    <2>1. SetFailed(b) = [b EXCEPT !.failed = TRUE]
      BY DEF SetFailed
    <2>2. QED
      BY <1>3, <2>1
  <1>5. TreeWhole(SetFailed(b))
    BY <1>3, <1>4 DEF TreeWhole
  <1>6. QED
    BY <1>2, <1>5 DEF b, p

------------------------------------------------------------------------------
LEMMA ArithmeticWhole ==
  ASSUME NEW a, TreeWhole(a), NEW t, NEW op \in Additive \cup {"%"}
  PROVE  TreeWhole(AddArithmetic(a, t, op).ast)
  <1> DEFINE kids    == Popped(a, 2)
             verdict == Verdict(t, op, kids)
             divisor == Divisor(op, kids[2])
             type    == IF verdict = "ok" /\ divisor # "zero"
                          THEN greaterType(dataTypeOfNode(t, kids[1]), dataTypeOfNode(t, kids[2]))
                          ELSE "error"
             t1      == GetFreeStore(t, type)
             stored  == Len(t1.symbols) > Len(t.symbols)
             node    == Node(op, IF stored THEN Len(t1.symbols) ELSE 0, type, kids)
             b       == Push(Pop(a, 2), node)
             failure == Node(op, 0, None, Kids(kids))
             r       == AddArithmetic(a, t, op)
  <1>1. r = IF Missing(kids)
              THEN Result(SetFailed(Push(Pop(a, 2), failure)), t, FALSE)
            ELSE IF divisor = "throws"
              THEN Result(SetFailed(Push(Pop(a, 2), [node EXCEPT !.sym = 0])), t, verdict # "ok")
            ELSE Result(IF stored /\ divisor = "fine" THEN b ELSE SetFailed(b), t1,
                        verdict # "ok" \/ divisor = "zero")
    BY DEF AddArithmetic
  <1>2. Arity(op) = 2
    BY DEF Arity, Additive
  <1>3. ~Missing(kids) => TreeWhole(b)
    BY <1>2, NodeOverPopped
  <1> HIDE DEF type, t1, stored, verdict, divisor, failure, r
  <1>4. TreeWhole(SetFailed(Push(Pop(a, 2), failure)))
    BY FailedPushWhole
  <1>5. TreeWhole(SetFailed(Push(Pop(a, 2), [node EXCEPT !.sym = 0])))
    BY FailedPushWhole
  <1>6. ~Missing(kids) => TreeWhole(SetFailed(b))
    BY <1>3, SetFailedWhole
  <1> HIDE DEF kids, node, b
  <1>7. TreeWhole(r.ast)
    BY <1>1, <1>3, <1>4, <1>5, <1>6 DEF Result
  <1>8. QED
    BY <1>7 DEF r

LEMMA ComparisonWhole ==
  ASSUME NEW a, TreeWhole(a), NEW t, NEW op \in Comparisons
  PROVE  TreeWhole(AddComparison(a, t, op).ast)
  <1> DEFINE kids == Popped(a, 2)
             t1   == GetFreeStore(t, "bool")
             said == Verdict(t, op, kids) # "ok"
             b    == Push(Pop(a, 2), Node(op, Len(t1.symbols), None, kids))
             r    == AddComparison(a, t, op)
  <1>1. r = IF Missing(kids) THEN Result(SetFailed(Pop(a, 2)), t, FALSE)
            ELSE IF Len(t1.symbols) = Len(t.symbols) THEN Result(SetFailed(Pop(a, 2)), t1, said)
            ELSE Result(b, t1, said)
    BY DEF AddComparison
  <1>2. Arity(op) = 2
    BY DEF Arity, Comparisons, Relations, Equalities, Connectives
  <1>3. ~Missing(kids) => TreeWhole(b)
    BY <1>2, NodeOverPopped
  <1> HIDE DEF kids, t1, said, b, r
  <1>4. TreeWhole(SetFailed(Pop(a, 2)))
    BY FailedPushWhole
  <1>5. TreeWhole(r.ast)
    BY <1>1, <1>3, <1>4 DEF Result
  <1>6. QED
    BY <1>5 DEF r

(* One operand, which is there.                                            *)
LEMMA OneOperandWhole ==
  ASSUME NEW a, TreeWhole(a), Popped(a, 1)[1] # NullNode, NEW op, Arity(op) = 1, NEW dt
  PROVE  /\ ~Missing(Popped(a, 1))
         /\ <<Popped(a, 1)[1]>> = Popped(a, 1)
         /\ TreeWhole(Push(Pop(a, 1), Node(op, 0, dt, Popped(a, 1))))
  <1> DEFINE kids == Popped(a, 1)
  <1>1. kids = [i \in 1 .. 1 |-> kids[i]]
    BY DEF Popped
  <1>2. DOMAIN kids = {1}
    BY <1>1
  <1>3. ~Missing(kids)
    BY <1>2 DEF Missing
  <1>4. TreeWhole(Push(Pop(a, 1), Node(op, 0, dt, Popped(a, 1))))
    BY <1>3, NodeOverPopped
  <1> HIDE DEF kids
  <1>5. <<kids[1]>> = kids
    BY <1>1
  <1>6. QED
    BY <1>3, <1>4, <1>5 DEF kids

LEMMA WriteLineWhole ==
  ASSUME NEW a, TreeWhole(a), NEW t
  PROVE  TreeWhole(AddWriteLine(a, t).ast)
  <1> DEFINE op  == "console.writeline"
             kid == Popped(a, 1)[1]
             b   == Push(Pop(a, 1), Node(op, 0, "void", Kids(<<kid>>)))
             r   == AddWriteLine(a, t)
  <1>1. r = Result(IF kid.dt = "error" \/ kid = NullNode THEN SetFailed(b) ELSE b, t, FALSE)
    BY DEF AddWriteLine
  <1>2. TreeWhole(SetFailed(b))
    BY FailedPushWhole
  <1>3. kid # NullNode => TreeWhole(b)
    <2>1. Arity(op) = 1
      BY DEF Arity
    <2>2. SUFFICES ASSUME kid # NullNode PROVE TreeWhole(b)
      OBVIOUS
    <2>3. /\ ~Missing(Popped(a, 1)) /\ <<kid>> = Popped(a, 1)
          /\ TreeWhole(Push(Pop(a, 1), Node(op, 0, "void", Popped(a, 1))))
      BY <2>1, <2>2, OneOperandWhole
    <2>4. Kids(<<kid>>) = Popped(a, 1)
      BY <2>3 DEF Kids
    <2>5. QED
      BY <2>3, <2>4
  <1> HIDE DEF kid, b, r
  <1>4. TreeWhole(r.ast)
    BY <1>1, <1>2, <1>3 DEF Result
  <1>5. QED
    BY <1>4 DEF r

LEMMA UncheckedWhole ==
  ASSUME NEW a, TreeWhole(a), a.stack # <<>>, Last(a.stack) # NullNode, NEW t,
         NEW op \in {"console.readline", "var-declaration"}
  PROVE  TreeWhole(AddUnchecked(a, t, op).ast)
  <1> DEFINE b == Push(Pop(a, 1), Node(op, 0, "void", Kids(Popped(a, 1))))
             r == AddUnchecked(a, t, op)
  <1>1. r = Result(b, t, FALSE)
    BY DEF AddUnchecked
  <1>2. Arity(op) = 1
    BY DEF Arity
  <1>3. Popped(a, 1)[1] # NullNode
    <2>1. Len(a.stack) \in Nat \ {0}
      BY EmptySeq DEF TreeWhole, IsSeq
    <2>2. Popped(a, 1)[1] = a.stack[Len(a.stack)]
      BY <2>1 DEF Popped
    <2>3. QED
      BY <2>2 DEF Last
  <1>4. ~Missing(Popped(a, 1)) /\ TreeWhole(Push(Pop(a, 1), Node(op, 0, "void", Popped(a, 1))))
    BY <1>2, <1>3, OneOperandWhole
  <1>5. TreeWhole(b)
    BY <1>4 DEF Kids
  <1> HIDE DEF b, r
  <1>6. TreeWhole(r.ast)
    BY <1>1, <1>5 DEF Result
  <1>7. QED
    BY <1>6 DEF r

LEMMA TypedWhole ==
  ASSUME NEW a, TreeWhole(a), NEW t, NEW op
  PROVE  TreeWhole(AddTyped(a, t, op).ast)
  <1> DEFINE k       == Arity(op)
             popped  == Popped(a, k)
             kids    == InOrder(op, popped)
             verdict == Verdict(t, op, kids)
             p       == Pop(a, k)
             good    == Node(op, 0, IF verdict = "ok" THEN "void" ELSE "error", kids)
             bad     == Node(op, 0, "void", Kids(kids))
             r       == AddTyped(a, t, op)
  <1>1. r = IF Missing(kids) THEN Result(SetFailed(Push(p, bad)), t, FALSE)
            ELSE Result(Push(p, good), t, verdict = "reported")
    BY DEF AddTyped
  <1>2. k \in Nat
    BY Arities
  <1>3. TreeWhole(SetFailed(Push(p, bad)))
    BY <1>2, FailedPushWhole
  <1>4. ~Missing(kids) => TreeWhole(Push(p, good))
    <2> SUFFICES ASSUME ~Missing(kids) PROVE TreeWhole(Push(p, good))
      OBVIOUS
    <2>1. CASE op = ":="
      <3>1. k = 2
        BY <2>1 DEF Arity
      <3>2. kids = <<popped[2], popped[1]>>
        BY <2>1 DEF InOrder
      <3>3. popped[1] # NullNode /\ popped[2] # NullNode
        BY <3>2 DEF Missing
      <3>4. DOMAIN popped = 1 .. 2
        BY <3>1 DEF Popped
      <3>5. ~Missing(popped)
        BY <3>3, <3>4 DEF Missing
      <3>6. popped[1] \in StackNodes(a) /\ popped[2] \in StackNodes(a)
        BY <1>2, <3>1, <3>5, PoppedWhole
      <3>7. kids \in Seq(StackNodes(a)) /\ Len(kids) = 2 /\ DOMAIN kids = {1, 2}
            /\ kids[1] = popped[2] /\ kids[2] = popped[1]
        <4> HIDE DEF popped, kids
        <4>1. QED
          BY <3>2, <3>6
      <3>8. IsSeq(kids) /\ \A i \in DOMAIN kids : kids[i] \in StackNodes(a)
        BY <3>6, <3>7, IsSeqOver
      <3>9. good.kids = kids /\ good.op = op
        BY DEF Node
      <3> HIDE DEF good, kids, popped
      <3>10. QED
        BY <1>2, <3>1, <3>7, <3>8, <3>9, OverPoppedWhole
    <2>2. CASE op # ":="
      <3>1. kids = popped
        BY <2>2 DEF InOrder
      <3>2. QED
        BY <3>1, NodeOverPopped
    <2>3. QED
      BY <2>1, <2>2
  <1> HIDE DEF kids, verdict, p, good, bad, r
  <1>5. TreeWhole(r.ast)
    BY <1>1, <1>3, <1>4 DEF Result
  <1>6. QED
    BY <1>5 DEF r

Unchecked == {"console.readline", "var-declaration"}

LEMMA OperatorWhole ==
  ASSUME NEW a, TreeWhole(a), NEW t, NEW op,
         op \in Unchecked => a.stack # <<>> /\ Last(a.stack) # NullNode
  PROVE  TreeWhole(AddOperator(a, t, op).ast)
  <1>1. CASE op \in DOMAIN Increments
    <2>1. AddOperator(a, t, op) = AddArithmetic(a, t, Increments[op])
      BY <1>1 DEF AddOperator, Increments, Additive, Comparisons, Relations, Equalities,
                  Connectives
    <2>2. Increments[op] \in Additive \cup {"%"}
      BY <1>1 DEF Increments, Additive
    <2>3. QED
      BY <2>1, <2>2, ArithmeticWhole
  <1>2. CASE op \in Additive \cup {"%"}
    <2>1. AddOperator(a, t, op) = AddArithmetic(a, t, op)
      BY <1>2 DEF AddOperator, Increments, Additive, Comparisons, Relations, Equalities,
                  Connectives
    <2>2. QED
      BY <1>2, <2>1, ArithmeticWhole
  <1>3. CASE op \in Comparisons
    <2>1. AddOperator(a, t, op) = AddComparison(a, t, op)
      BY <1>3 DEF AddOperator, Increments, Additive, Comparisons, Relations, Equalities, Connectives
    <2>2. QED
      BY <1>3, <2>1, ComparisonWhole
  <1>4. CASE op = "console.writeline"
    <2>1. AddOperator(a, t, op) = AddWriteLine(a, t)
      BY <1>4 DEF AddOperator, Increments, Additive, Comparisons, Relations, Equalities, Connectives
    <2>2. QED
      BY <2>1, WriteLineWhole
  <1>5. CASE op \in Unchecked
    <2>1. AddOperator(a, t, op) = AddUnchecked(a, t, op)
      BY <1>5 DEF AddOperator, Increments, Additive, Comparisons, Relations, Equalities,
                  Connectives, Unchecked
    <2>2. QED
      BY <1>5, <2>1, UncheckedWhole DEF Unchecked
  <1>6. CASE op \notin DOMAIN Increments \cup Additive \cup {"%", "console.writeline"}
                         \cup Comparisons \cup Unchecked
    <2>1. AddOperator(a, t, op) = AddTyped(a, t, op)
      BY <1>6 DEF AddOperator, Unchecked
    <2>2. QED
      BY <2>1, TypedWhole
  <1>7. QED
    BY <1>1, <1>2, <1>3, <1>4, <1>5, <1>6

(* A node for an operator of the grammar leaves whole trees.               *)
LEMMA AddOperatorNodeWhole ==
  ASSUME NEW a, TreeWhole(a), NEW t, NEW op,
         op \in Unchecked => a.broken \/ (a.stack # <<>> /\ Last(a.stack) # NullNode)
  PROVE  TreeWhole(addOperatorNode(a, t, op).ast)
  <1> DEFINE b == WithOperands(a, op)
             r == addOperatorNode(a, t, op)
             l == LeafNode("NumberLiteral", IntLit, 0)
  <1>1. TreeWhole(b)
    <2>1. TreeWhole(Push(a, l))
      BY AddLeafWhole DEF LeafNode
    <2>2. b = IF op \in DOMAIN Increments THEN Push(a, l) ELSE a
      BY DEF WithOperands, addleaf
    <2>3. QED
      BY <2>1, <2>2
  <1>2. op \in Unchecked => b = a
    BY DEF WithOperands, Unchecked, Increments
  <1>3. r = IF b.broken THEN Result(SetFailed(b), t, FALSE) ELSE AddOperator(b, t, op)
    BY DEF addOperatorNode
  <1> HIDE DEF b, r
  <1>4. TreeWhole(r.ast)
    <2>1. CASE b.broken
      BY <1>1, <1>3, <2>1, SetFailedWhole DEF Result
    <2>2. CASE ~b.broken
      BY <1>1, <1>2, <1>3, <2>2, OperatorWhole
    <2>3. QED
      BY <2>1, <2>2
  <1>5. QED
    BY <1>4 DEF r

LEMMA LeafAndOperatorWhole ==
  ASSUME NEW a, TreeWhole(a), NEW t, NEW sym, NEW op
  PROVE  TreeWhole(AddLeafAndOperator(a, t, sym, op).ast)
  <1> DEFINE l == LeafNode("Identifier", None, sym)
             b == Push(a, l)
             r == AddLeafAndOperator(a, t, sym, op)
  <1>1. r = IF PushThrows(a) THEN Result(b, t, FALSE) ELSE addOperatorNode(b, t, op)
    BY DEF AddLeafAndOperator, addleaf
  <1>2. TreeWhole(b)
    BY AddLeafWhole DEF LeafNode
  <1>3. b.broken \/ (b.stack # <<>> /\ Last(b.stack) # NullNode)
    <2>1. CASE StackFull(a)
      BY <2>1 DEF Push, TreeWhole
    <2>2. CASE ~StackFull(a)
      <3>1. b.stack = Append(a.stack, l)
        BY <2>2 DEF Push, TreeWhole
      <3> HIDE DEF l, b
      <3>2. b.stack # <<>> /\ b.stack[Len(b.stack)] = l
        <4>1. /\ Len(Append(a.stack, l)) = Len(a.stack) + 1
              /\ Append(a.stack, l) # <<>>
              /\ Append(a.stack, l)[Len(a.stack) + 1] = l
          BY AppendIsSeq DEF TreeWhole
        <4>2. QED
          BY <3>1, <4>1
      <3>3. l # NullNode
        <4>1. l.op = "Identifier" /\ NullNode.op = "null"
          BY DEF l, LeafNode, NullNode
        <4>2. QED
          BY <4>1
      <3>4. QED
        BY <3>2, <3>3 DEF Last
    <2>3. QED
      BY <2>1, <2>2
  <1> HIDE DEF b, r, l
  <1>4. TreeWhole(addOperatorNode(b, t, op).ast)
    BY <1>2, <1>3, AddOperatorNodeWhole
  <1>5. TreeWhole(r.ast)
    BY <1>1, <1>2, <1>4 DEF Result
  <1>6. QED
    BY <1>5 DEF r

LEMMA NullOperatorWhole ==
  ASSUME NEW a, TreeWhole(a)
  PROVE  TreeWhole(addNullOperatorNode(a))
  <1> DEFINE n == Node("param-list", 0, "void", <<>>)
  <1>1. TreeWhole(Push(a, n))
    BY AddLeafWhole DEF Node
  <1>2. TreeWhole(SetFailed(Push(a, n)))
    BY <1>1, SetFailedWhole
  <1>3. addNullOperatorNode(a) = IF PushThrows(a) THEN SetFailed(Push(a, n)) ELSE Push(a, n)
    BY DEF addNullOperatorNode
  <1> HIDE DEF n
  <1>4. QED
    BY <1>1, <1>2, <1>3
==============================================================================
