---------------------------- MODULE BackEndProofs ----------------------------
(***************************************************************************)
(* The back end is correct for every tree, every number of compilations,   *)
(* every length of the array of quadruples and every length of a run: the  *)
(* three-address code and the C++ made from it place each label once and   *)
(* jump to those only, and the program that runs is always at a statement  *)
(* of the function it was started in, with the variables declared there.   *)
(*                                                                         *)
(* code_gen calls itself through the constant Generated.  The theorems     *)
(* suppose that this recursion is closed (ClosedRecursion), as it is where *)
(* MCBackEnd gives Generated its value; how deep it goes is the height of  *)
(* the tree, which is finite (FrontEndProofs, TranslatedTreeWhole).        *)
(***************************************************************************)
EXTENDS BackEnd, FrontEndProofs, FiniteSetTheorems

USE BackEndAssumption

(* The quadruples that jump, and all there are.                            *)
Jumping == {"JMP"} \cup Branches

QuadrupleOps ==
  Arithmetic3 \cup Jumping \cup
  {"CLASS_DEF_BEGIN", "CLASS_DEF_END", "METHOD_DEF_BEGIN", "METHOD_DEF_END",
   "METHOD_FORMAL_PARAM", "VAR_DECLARATION", "ASSIGN", "MOV", "LABEL", "CMP",
   "PRINTCONSOLE", "READCONSOLE"}

(* A sequence of quadruples.                                               *)
IsCode(s) == IsSeq(s) /\ \A i \in DOMAIN s : s[i].op \in QuadrupleOps

(* The quadruple i of s places the label l.                                *)
Places(s, i, l) == s[i].op = "LABEL" /\ s[i].arg1.id = l

(* The code s places each of the labels P once and no others, and jumps    *)
(* only to labels in J.                                                    *)
Block(s, P, J) ==
  /\ IsCode(s)
  /\ \A i \in DOMAIN s : s[i].op = "LABEL" => s[i].arg1.id \in P
  /\ \A l \in P : \E i \in DOMAIN s : Places(s, i, l)
  /\ \A l \in P : \A i, j \in DOMAIN s : Places(s, i, l) /\ Places(s, j, l) => i = j
  /\ \A i \in DOMAIN s : s[i].op \in Jumping => s[i].arg1.id \in J

(* Two sequences, one after the other.                                     *)
LEMMA ConcatIsSeq ==
  ASSUME NEW s, IsSeq(s), NEW t, IsSeq(t)
  PROVE  /\ IsSeq(s \o t)
         /\ Len(s) \in Nat /\ DOMAIN s = 1 .. Len(s)
         /\ Len(t) \in Nat /\ DOMAIN t = 1 .. Len(t)
         /\ Len(s \o t) = Len(s) + Len(t)
         /\ DOMAIN (s \o t) = 1 .. Len(s) + Len(t)
         /\ \A i \in 1 .. Len(s) : (s \o t)[i] = s[i]
         /\ \A i \in 1 .. Len(t) : (s \o t)[Len(s) + i] = t[i]
  <1> DEFINE T == {s[i] : i \in DOMAIN s} \cup {t[i] : i \in DOMAIN t}
  <1>1. s \in Seq(T) /\ t \in Seq(T)
    <2>1. s \in Seq({s[i] : i \in DOMAIN s}) /\ t \in Seq({t[i] : i \in DOMAIN t})
      BY DEF IsSeq
    <2>2. {s[i] : i \in DOMAIN s} \subseteq T /\ {t[i] : i \in DOMAIN t} \subseteq T
      OBVIOUS
    <2> HIDE DEF T
    <2>3. QED
      BY <2>1, <2>2, SeqMonotonic
  <1> HIDE DEF T
  <1>2. /\ s \o t \in Seq(T)
        /\ Len(s \o t) = Len(s) + Len(t)
        /\ \A i \in 1 .. Len(s) + Len(t) : (s \o t)[i] =
                     IF i <= Len(s) THEN s[i] ELSE t[i - Len(s)]
    BY <1>1, ConcatProperties
  <1>3. /\ Len(s) \in Nat /\ DOMAIN s = 1 .. Len(s)
        /\ Len(t) \in Nat /\ DOMAIN t = 1 .. Len(t)
        /\ DOMAIN (s \o t) = 1 .. Len(s \o t)
    BY <1>1, <1>2, LenProperties
  <1>4. IsSeq(s \o t)
    BY <1>2, IsSeqOver
  <1> DEFINE c == s \o t
             n == Len(s)
             m == Len(t)
  <1>5. \A i \in 1 .. n + m : c[i] = IF i <= n THEN s[i] ELSE t[i - n]
    BY <1>2
  <1>6. n \in Nat /\ m \in Nat
    BY <1>3
  <1> HIDE DEF c, n, m
  <1>7. \A i \in 1 .. n : c[i] = s[i]
    BY <1>5, <1>6
  <1>8. \A i \in 1 .. m : c[n + i] = t[i]
    <2> SUFFICES ASSUME NEW i \in 1 .. m PROVE c[n + i] = t[i]
      OBVIOUS
    <2>1. n + i \in 1 .. n + m /\ ~(n + i <= n) /\ (n + i) - n = i
      BY <1>6
    <2>2. QED
      BY <1>5, <2>1
  <1>9. QED
    BY <1>2, <1>3, <1>4, <1>7, <1>8 DEF c, n, m

(* An element of a concatenation is one of the first or of the second.     *)
LEMMA ConcatParts ==
  ASSUME NEW s, IsSeq(s), NEW t, IsSeq(t), NEW i \in DOMAIN (s \o t)
  PROVE  \/ i \in DOMAIN s /\ (s \o t)[i] = s[i]
         \/ \E j \in DOMAIN t : i = Len(s) + j /\ (s \o t)[i] = t[j]
  <1> DEFINE c == s \o t
             n == Len(s)
             m == Len(t)
  <1>1. /\ n \in Nat /\ DOMAIN s = 1 .. n /\ m \in Nat /\ DOMAIN t = 1 .. m
        /\ DOMAIN c = 1 .. n + m
        /\ \A k \in 1 .. n : c[k] = s[k]
        /\ \A k \in 1 .. m : c[n + k] = t[k]
    BY ConcatIsSeq
  <1>2. i \in DOMAIN c
    OBVIOUS
  <1> HIDE DEF c, n, m
  <1>3. CASE i <= n
    BY <1>1, <1>2, <1>3 DEF c
  <1>4. CASE ~(i <= n)
    <2>1. i - n \in DOMAIN t /\ i = n + (i - n)
      BY <1>1, <1>2, <1>4
    <2>2. c[n + (i - n)] = t[i - n]
      BY <1>1, <2>1
    <2>3. i = n + (i - n) /\ c[i] = t[i - n]
      BY <2>1, <2>2
    <2>4. QED
      BY <2>1, <2>3 DEF c, n
  <1>5. QED
    BY <1>3, <1>4

(* Blocks that place different labels make one block.                      *)
LEMMA BlocksCompose ==
  ASSUME NEW s, NEW P, NEW J, Block(s, P, J), NEW t, NEW Q, NEW K, Block(t, Q, K),
         P \cap Q = {}
  PROVE  Block(s \o t, P \cup Q, J \cup K)
  <1> DEFINE c == s \o t
  <1>1. IsSeq(s) /\ IsSeq(t)
    BY DEF Block, IsCode
  <1>2. /\ IsSeq(c) /\ DOMAIN c = 1 .. Len(s) + Len(t)
        /\ Len(s) \in Nat /\ DOMAIN s = 1 .. Len(s) /\ Len(t) \in Nat /\ DOMAIN t = 1 .. Len(t)
        /\ \A i \in DOMAIN s : c[i] = s[i]
        /\ \A i \in DOMAIN t : c[Len(s) + i] = t[i]
    <2>1. /\ IsSeq(c) /\ DOMAIN c = 1 .. Len(s) + Len(t)
          /\ Len(s) \in Nat /\ DOMAIN s = 1 .. Len(s) /\ Len(t) \in Nat /\ DOMAIN t = 1 .. Len(t)
          /\ \A i \in 1 .. Len(s) : c[i] = s[i]
          /\ \A i \in 1 .. Len(t) : c[Len(s) + i] = t[i]
      BY ZenonT(30), <1>1, ConcatIsSeq
    <2> HIDE DEF c
    <2>2. QED
      BY <2>1
  <1>3. \A i \in DOMAIN c :
          \/ i \in DOMAIN s /\ c[i] = s[i]
          \/ \E j \in DOMAIN t : i = Len(s) + j /\ c[i] = t[j]
    BY <1>1, ConcatParts
  <1> HIDE DEF c
  <1>4. \A i \in DOMAIN s : i \in DOMAIN c
    BY <1>2
  <1>5. \A i \in DOMAIN t : Len(s) + i \in DOMAIN c
    BY <1>2
  <1>6. IsCode(c)
    BY <1>2, <1>3 DEF Block, IsCode
  <1>7. \A i \in DOMAIN c : c[i].op = "LABEL" => c[i].arg1.id \in P \cup Q
    BY <1>3 DEF Block
  <1>8. \A i \in DOMAIN c : c[i].op \in Jumping => c[i].arg1.id \in J \cup K
    BY <1>3 DEF Block
  <1>9. \A l \in P \cup Q : \E i \in DOMAIN c : Places(c, i, l)
    <2> SUFFICES ASSUME NEW l \in P \cup Q PROVE \E i \in DOMAIN c : Places(c, i, l)
      OBVIOUS
    <2>1. CASE l \in P
      <3>1. PICK i \in DOMAIN s : Places(s, i, l)
        BY <2>1 DEF Block
      <3>2. Places(c, i, l) /\ i \in DOMAIN c
        BY <1>2, <1>4, <3>1 DEF Places
      <3>3. QED
        BY <3>2
    <2>2. CASE l \in Q
      <3>1. PICK i \in DOMAIN t : Places(t, i, l)
        BY <2>2 DEF Block
      <3>2. Places(c, Len(s) + i, l) /\ Len(s) + i \in DOMAIN c
        BY <1>2, <1>5, <3>1 DEF Places
      <3>3. QED
        BY <3>2
    <2>3. QED
      BY <2>1, <2>2
  <1>10. \A l \in P \cup Q : \A i, j \in DOMAIN c : Places(c, i, l) /\ Places(c, j, l) => i = j
    <2> SUFFICES ASSUME NEW l \in P \cup Q, NEW i \in DOMAIN c, NEW j \in DOMAIN c,
                        Places(c, i, l), Places(c, j, l)
                 PROVE  i = j
      OBVIOUS
    <2>1. \A k \in DOMAIN c : Places(c, k, l) =>
             \/ l \in P /\ k \in DOMAIN s /\ Places(s, k, l)
             \/ l \in Q /\ \E n \in DOMAIN t : k = Len(s) + n /\ Places(t, n, l)
      BY <1>3 DEF Places, Block
    <2>2. CASE l \in P
      <3>1. i \in DOMAIN s /\ Places(s, i, l) /\ j \in DOMAIN s /\ Places(s, j, l)
        BY <2>1, <2>2
      <3>2. QED
        BY <2>2, <3>1 DEF Block
    <2>3. CASE l \in Q
      <3>1. PICK m \in DOMAIN t : i = Len(s) + m /\ Places(t, m, l)
        BY <2>1, <2>3
      <3>2. PICK n \in DOMAIN t : j = Len(s) + n /\ Places(t, n, l)
        BY <2>1, <2>3
      <3>3. m = n
        BY <2>3, <3>1, <3>2 DEF Block
      <3>4. QED
        BY <3>1, <3>2, <3>3
    <2>4. QED
      BY <2>2, <2>3
  <1>11. QED
    BY <1>6, <1>7, <1>8, <1>9, <1>10 DEF Block, c

(* No code is a block.                                                     *)
LEMMA EmptyBlock == Block(<<>>, {}, {})
  <1>1. IsSeq(<<>>) /\ DOMAIN <<>> = {}
    BY DEF IsSeq
  <1>2. QED
    BY <1>1 DEF Block, IsCode

(* One quadruple.                                                          *)
LEMMA QuadrupleBlock ==
  ASSUME NEW q, q.op \in QuadrupleOps
  PROVE  Block(<<q>>, IF q.op = "LABEL" THEN {q.arg1.id} ELSE {},
               IF q.op \in Jumping THEN {q.arg1.id} ELSE {})
  <1> DEFINE s == <<q>>
  <1>1. IsSeq(s) /\ DOMAIN s = {1} /\ s[1] = q
    BY DEF IsSeq
  <1> HIDE DEF s
  <1>2. Block(s, IF q.op = "LABEL" THEN {q.arg1.id} ELSE {},
               IF q.op \in Jumping THEN {q.arg1.id} ELSE {})
    BY <1>1 DEF Block, IsCode, Places
  <1>3. QED
    BY <1>2 DEF s

(* A generation in progress.                                               *)
IsGeneration(g) ==
  /\ g = [code |-> g.code, labels |-> g.labels, place |-> g.place]
  /\ IsCode(g.code)
  /\ g.labels \in Nat

(* From g to h, code is added that places P and jumps to J.                *)
Adds(g, h, P, J) ==
  /\ IsGeneration(g) /\ IsGeneration(h)
  /\ g.labels <= h.labels
  /\ \E s : Block(s, P, J) /\ h.code = g.code \o s

(* Concatenation is associative.                                           *)
LEMMA ConcatAssociates ==
  ASSUME NEW s, IsSeq(s), NEW t, IsSeq(t), NEW u, IsSeq(u)
  PROVE  (s \o t) \o u = s \o (t \o u)
  <1> DEFINE T == {s[i] : i \in DOMAIN s} \cup {t[i] : i \in DOMAIN t} \cup {u[i] : i \in DOMAIN u}
  <1>1. /\ s \in Seq({s[i] : i \in DOMAIN s}) /\ t \in Seq({t[i] : i \in DOMAIN t})
        /\ u \in Seq({u[i] : i \in DOMAIN u})
    BY DEF IsSeq
  <1>2. /\ {s[i] : i \in DOMAIN s} \subseteq T /\ {t[i] : i \in DOMAIN t} \subseteq T
        /\ {u[i] : i \in DOMAIN u} \subseteq T
    OBVIOUS
  <1> HIDE DEF T
  <1>3. s \in Seq(T) /\ t \in Seq(T) /\ u \in Seq(T)
    BY <1>1, <1>2, SeqMonotonic
  <1>4. QED
    BY <1>3, ConcatAssociative

(* Codes make a code.                                                      *)
LEMMA CodeConcat ==
  ASSUME NEW s, IsCode(s), NEW t, IsCode(t)
  PROVE  IsCode(s \o t)
  <1>1. IsSeq(s \o t)
    BY ConcatIsSeq DEF IsCode
  <1>2. \A i \in DOMAIN (s \o t) :
          \/ i \in DOMAIN s /\ (s \o t)[i] = s[i]
          \/ \E j \in DOMAIN t : i = Len(s) + j /\ (s \o t)[i] = t[j]
    BY ConcatParts DEF IsCode
  <1> DEFINE c == s \o t
  <1> HIDE DEF c
  <1>3. \A i \in DOMAIN c : c[i].op \in QuadrupleOps
    BY <1>2 DEF IsCode, c
  <1>4. QED
    BY <1>1, <1>3 DEF IsCode, c

(* What is added from g to h and from h to k is added from g to k.         *)
LEMMA AddsCompose ==
  ASSUME NEW g, NEW h, NEW k, NEW P, NEW J, NEW Q, NEW K,
         Adds(g, h, P, J), Adds(h, k, Q, K), P \cap Q = {}
  PROVE  Adds(g, k, P \cup Q, J \cup K)
  <1>1. PICK s : Block(s, P, J) /\ h.code = g.code \o s
    BY DEF Adds
  <1>2. PICK t : Block(t, Q, K) /\ k.code = h.code \o t
    BY DEF Adds
  <1>3. k.code = g.code \o (s \o t)
    <2>1. IsSeq(g.code) /\ IsSeq(s) /\ IsSeq(t)
      BY <1>1, <1>2 DEF Adds, IsGeneration, Block, IsCode
    <2> DEFINE c == g.code
    <2>2. IsSeq(c)
      BY <2>1
    <2> HIDE DEF c
    <2>3. (c \o s) \o t = c \o (s \o t)
      BY <2>1, <2>2, ConcatAssociates
    <2>4. QED
      BY <1>1, <1>2, <2>3 DEF c
  <1>4. Block(s \o t, P \cup Q, J \cup K)
    BY <1>1, <1>2, BlocksCompose
  <1>5. g.labels <= k.labels
    BY DEF Adds, IsGeneration
  <1>6. QED
    BY <1>3, <1>4, <1>5 DEF Adds

(* Handing out labels adds no code.                                        *)
LEMMA NewLabelsAdds ==
  ASSUME NEW g, IsGeneration(g), NEW n \in Nat
  PROVE  /\ Adds(g, NewLabels(g, n), {}, {})
         /\ NewLabels(g, n).labels = g.labels + n
         /\ NewLabels(g, n).place = g.place
         /\ IsGeneration(NewLabels(g, n))
  <1> DEFINE h == NewLabels(g, n)
  <1>1. g = [code |-> g.code, labels |-> g.labels, place |-> g.place]
    BY DEF IsGeneration
  <1>2. h = [g EXCEPT !.labels = g.labels + n]
    BY DEF NewLabels
  <1> HIDE DEF h
  <1>3. h = [code |-> g.code, labels |-> g.labels + n, place |-> g.place]
    BY <1>1, <1>2
  <1>4. g.labels \in Nat /\ g.labels + n \in Nat /\ g.labels <= g.labels + n
    BY DEF IsGeneration
  <1>5. IsGeneration(h) /\ g.labels <= h.labels
    BY <1>3, <1>4 DEF IsGeneration
  <1>6. h.code = g.code \o <<>>
    <2>1. g.code \in Seq({g.code[i] : i \in DOMAIN g.code})
      BY DEF IsGeneration, IsCode, IsSeq
    <2>2. g.code \o <<>> = g.code
      BY <2>1, ConcatEmptySeq
    <2>3. QED
      BY <1>3, <2>2
  <1>7. Adds(g, h, {}, {})
    BY <1>5, <1>6, EmptyBlock DEF Adds
  <1>8. QED
    BY <1>3, <1>5, <1>7 DEF h

(* Leaving a result adds no code.                                          *)
LEMMA LeavingAdds ==
  ASSUME NEW g, IsGeneration(g), NEW o
  PROVE  /\ Adds(g, Leaving(g, o), {}, {})
         /\ Leaving(g, o).labels = g.labels
  <1> DEFINE h == Leaving(g, o)
  <1>1. g = [code |-> g.code, labels |-> g.labels, place |-> g.place]
    BY DEF IsGeneration
  <1>2. h = [g EXCEPT !.place = o]
    BY DEF Leaving
  <1> HIDE DEF h
  <1>3. h = [code |-> g.code, labels |-> g.labels, place |-> o]
    BY <1>1, <1>2
  <1>5. IsGeneration(h) /\ g.labels <= h.labels
    BY <1>3 DEF IsGeneration
  <1>6. h.code = g.code \o <<>>
    <2>1. g.code \in Seq({g.code[i] : i \in DOMAIN g.code})
      BY DEF IsGeneration, IsCode, IsSeq
    <2>2. g.code \o <<>> = g.code
      BY <2>1, ConcatEmptySeq
    <2>3. QED
      BY <1>3, <2>2
  <1>7. Adds(g, h, {}, {})
    BY <1>5, <1>6, EmptyBlock DEF Adds
  <1>8. QED
    BY <1>3, <1>7 DEF h

(* addCode adds its quadruples.                                            *)
LEMMA CodeAdds ==
  ASSUME NEW g, IsGeneration(g), NEW q, NEW P, NEW J, Block(q, P, J)
  PROVE  /\ Adds(g, addCode(g, q), P, J)
         /\ addCode(g, q).labels = g.labels
         /\ IsGeneration(addCode(g, q))
  <1> DEFINE h == addCode(g, q)
             c == g.code \o q
  <1>1. g = [code |-> g.code, labels |-> g.labels, place |-> g.place]
    BY DEF IsGeneration
  <1>2. h = [g EXCEPT !.code = c]
    BY DEF addCode
  <1>3. IsCode(c)
    BY CodeConcat DEF IsGeneration, Block
  <1> HIDE DEF h, c
  <1>4. h = [code |-> c, labels |-> g.labels, place |-> g.place]
    BY <1>1, <1>2
  <1>5. IsGeneration(h) /\ g.labels <= h.labels
    BY <1>3, <1>4 DEF IsGeneration
  <1>6. Adds(g, h, P, J)
    BY <1>4, <1>5 DEF Adds, c
  <1>7. QED
    BY <1>4, <1>5, <1>6 DEF h

------------------------------------------------------------------------------
(* A comparison and the jump that depends on it.                           *)
LEMMA TestBlock ==
  ASSUME NEW a, NEW b, NEW op \in Branches, NEW l
  PROVE  Block(<<Binary3("CMP", a, b), Jump(op, l)>>, {}, {l})
  <1> DEFINE s == <<Binary3("CMP", a, b), Jump(op, l)>>
  <1>1. IsSeq(s) /\ DOMAIN s = {1, 2}
    BY DEF IsSeq
  <1>2. /\ s[1].op = "CMP" /\ s[2].op = op /\ s[2].arg1.id = l
    BY DEF Binary3, Jump, Quadruple, LabelOperand, ThreeAddressOperand
  <1> HIDE DEF s
  <1>3. Block(s, {}, {l})
    BY <1>1, <1>2 DEF Block, IsCode, QuadrupleOps, Jumping, Branches, Arithmetic3, Additive
  <1>4. QED
    BY <1>3 DEF s

(* The code of a comparison, after that of its operands.                   *)
LEMMA RelationBlock ==
  ASSUME NEW a, NEW b, NEW op \in Branches, NEW n, NEW false, NEW exit, false # exit
  PROVE  Block(<<Binary3("CMP", a, b), Jump(op, false),
                 Put(n, IntLit), Jump("JMP", exit),
                 Jump("LABEL", false), Put(n, ZeroLit), Jump("LABEL", exit)>>,
               {false, exit}, {false, exit})
  <1> DEFINE s == <<Binary3("CMP", a, b), Jump(op, false),
                 Put(n, IntLit), Jump("JMP", exit),
                 Jump("LABEL", false), Put(n, ZeroLit), Jump("LABEL", exit)>>
  <1>1. IsSeq(s) /\ DOMAIN s = 1 .. 7
    BY DEF IsSeq
  <1>2. /\ s[1].op = "CMP" /\ s[2].op = op /\ s[2].arg1.id = false
        /\ s[3].op = "MOV" /\ s[4].op = "JMP" /\ s[4].arg1.id = exit
        /\ s[5].op = "LABEL" /\ s[5].arg1.id = false
        /\ s[6].op = "MOV" /\ s[7].op = "LABEL" /\ s[7].arg1.id = exit
    BY DEF Binary3, Jump, Quadruple, LabelOperand, ThreeAddressOperand, Put
  <1> HIDE DEF s
  <1>3. \A i \in DOMAIN s : i = 1 \/ i = 2 \/ i = 3 \/ i = 4 \/ i = 5 \/ i = 6 \/ i = 7
    BY <1>1
  <1>4. \A i \in DOMAIN s : s[i].op = "LABEL" => i = 5 \/ i = 7
    BY <1>2, <1>3 DEF Branches
  <1>5. \A i \in DOMAIN s : s[i].op \in Jumping => i = 2 \/ i = 4
    BY <1>2, <1>3 DEF Jumping, Branches
  <1>6. IsCode(s)
    BY <1>1, <1>2, <1>3 DEF IsCode, QuadrupleOps, Jumping
  <1>7. /\ 5 \in DOMAIN s /\ 7 \in DOMAIN s
    BY <1>1
  <1>8. Block(s, {false, exit}, {false, exit})
    BY <1>2, <1>4, <1>5, <1>6, <1>7 DEF Block, Places
  <1>9. QED
    BY <1>8 DEF s

(* The code of a connective, after that of its operands.                   *)
LEMMA LogicBlock ==
  ASSUME NEW a, NEW b, NEW n, NEW decisive, NEW otherwise, NEW short, NEW exit, short # exit
  PROVE  Block(<<Binary3("CMP", a, b), Jump("JE", short)>> \o
               <<Put(n, otherwise), Jump("JMP", exit),
                 Jump("LABEL", short), Put(n, decisive), Jump("LABEL", exit)>>,
               {short, exit}, {short, exit})
  <1> DEFINE s == <<Put(n, otherwise), Jump("JMP", exit),
                    Jump("LABEL", short), Put(n, decisive), Jump("LABEL", exit)>>
             t == <<Binary3("CMP", a, b), Jump("JE", short)>>
  <1>1. IsSeq(s) /\ DOMAIN s = 1 .. 5
    BY DEF IsSeq
  <1>2. /\ s[1].op = "MOV" /\ s[2].op = "JMP" /\ s[2].arg1.id = exit
        /\ s[3].op = "LABEL" /\ s[3].arg1.id = short
        /\ s[4].op = "MOV" /\ s[5].op = "LABEL" /\ s[5].arg1.id = exit
    BY DEF Jump, Quadruple, LabelOperand, ThreeAddressOperand, Put
  <1>3. Block(t, {}, {short})
    BY TestBlock DEF Branches
  <1> HIDE DEF s, t
  <1>4. \A i \in DOMAIN s : i = 1 \/ i = 2 \/ i = 3 \/ i = 4 \/ i = 5
    BY <1>1
  <1>5. \A i \in DOMAIN s : s[i].op = "LABEL" => i = 3 \/ i = 5
    BY <1>2, <1>4
  <1>6. \A i \in DOMAIN s : s[i].op \in Jumping => i = 2
    BY <1>2, <1>4 DEF Jumping, Branches
  <1>7. IsCode(s)
    BY <1>1, <1>2, <1>4 DEF IsCode, QuadrupleOps, Jumping
  <1>8. /\ 3 \in DOMAIN s /\ 5 \in DOMAIN s
    BY <1>1
  <1>9. Block(s, {short, exit}, {exit})
    BY <1>2, <1>5, <1>6, <1>7, <1>8 DEF Block, Places
  <1>10. Block(t \o s, {} \cup {short, exit}, {short} \cup {exit})
    BY <1>3, <1>9, BlocksCompose
  <1>11. {} \cup {short, exit} = {short, exit} /\ {short} \cup {exit} = {short, exit}
    OBVIOUS
  <1>12. QED
    BY <1>10, <1>11 DEF s, t

(* A jump and the label that follows it.                                   *)
LEMMA JumpThenLabelBlock ==
  ASSUME NEW entry, NEW exit
  PROVE  Block(<<Jump("JMP", entry), Jump("LABEL", exit)>>, {exit}, {entry})
  <1> DEFINE s == <<Jump("JMP", entry), Jump("LABEL", exit)>>
  <1>1. IsSeq(s) /\ DOMAIN s = {1, 2}
    BY DEF IsSeq
  <1>2. s[1].op = "JMP" /\ s[1].arg1.id = entry /\ s[2].op = "LABEL" /\ s[2].arg1.id = exit
    BY DEF Jump, Quadruple, LabelOperand, ThreeAddressOperand
  <1> HIDE DEF s
  <1>3. Block(s, {exit}, {entry})
    BY <1>1, <1>2 DEF Block, IsCode, Places, QuadrupleOps, Jumping, Branches
  <1>4. QED
    BY <1>3 DEF s

(* A label.                                                                *)
LEMMA LabelBlock ==
  ASSUME NEW l
  PROVE  Block(<<Jump("LABEL", l)>>, {l}, {})
  <1>1. Jump("LABEL", l).op = "LABEL" /\ Jump("LABEL", l).arg1.id = l
    BY DEF Jump, Quadruple, LabelOperand, ThreeAddressOperand
  <1>2. "LABEL" \in QuadrupleOps /\ "LABEL" \notin Jumping
    BY DEF QuadrupleOps, Jumping, Branches
  <1>3. QED
    BY <1>1, <1>2, QuadrupleBlock

(* A quadruple that is neither a jump nor a label.                         *)
LEMMA PlainBlock ==
  ASSUME NEW q, q.op \in QuadrupleOps \ (Jumping \cup {"LABEL"})
  PROVE  Block(<<q>>, {}, {})
  BY QuadrupleBlock

(* From g to h, code is added that places every label handed out since g   *)
(* once, no other label, and jumps to those labels only.                   *)
Fresh(g, h)  == g.labels + 1 .. h.labels
Closed(g, h) == Adds(g, h, Fresh(g, h), Fresh(g, h))

(* The code of the operand n is closed, wherever it is generated.          *)
Generates(n) == \A g : IsGeneration(g) => Closed(g, Generated(n, g))

(* Code that uses no label of its own.                                     *)
LEMMA PlainThen ==
  ASSUME NEW g, NEW h, NEW k, Closed(g, h), Adds(h, k, {}, {}), k.labels = h.labels
  PROVE  Closed(g, k) /\ IsGeneration(k)
  <1>1. Adds(g, k, Fresh(g, h) \cup {}, Fresh(g, h) \cup {})
    BY AddsCompose DEF Closed
  <1>2. Fresh(g, h) \cup {} = Fresh(g, k)
    BY DEF Fresh
  <1>3. QED
    BY <1>1, <1>2 DEF Closed, Adds

(* The labels of what is generated later are others.                       *)
LEMMA ClosedCompose ==
  ASSUME NEW g, NEW h, NEW k, Closed(g, h), Closed(h, k)
  PROVE  Closed(g, k) /\ IsGeneration(k)
  <1>1. /\ g.labels \in Nat /\ h.labels \in Nat /\ k.labels \in Nat
        /\ g.labels <= h.labels /\ h.labels <= k.labels
    BY DEF Closed, Adds, IsGeneration
  <1>2. Fresh(g, h) \cap Fresh(h, k) = {}
    BY <1>1 DEF Fresh
  <1>3. Fresh(g, h) \cup Fresh(h, k) = Fresh(g, k)
    BY <1>1 DEF Fresh
  <1>4. Adds(g, k, Fresh(g, h) \cup Fresh(h, k), Fresh(g, h) \cup Fresh(h, k))
    BY <1>2, AddsCompose DEF Closed
  <1>5. QED
    BY <1>3, <1>4 DEF Closed, Adds

(* Where nothing is generated, no label is handed out.                     *)
LEMMA SameClosed ==
  ASSUME NEW g, IsGeneration(g)
  PROVE  Closed(g, g)
  <1>1. Adds(g, NewLabels(g, 0), {}, {}) /\ NewLabels(g, 0).labels = g.labels + 0
    BY NewLabelsAdds
  <1>2. g.labels \in Nat /\ Fresh(g, g) = {}
    BY DEF IsGeneration, Fresh
  <1>3. NewLabels(g, 0) = g
    <2>1. NewLabels(g, 0) = [g EXCEPT !.labels = g.labels + 0]
      BY DEF NewLabels
    <2>2. g.labels + 0 = g.labels
      BY <1>2
    <2>3. QED
      BY <2>1, <2>2 DEF IsGeneration
  <1>4. QED
    BY <1>1, <1>2, <1>3 DEF Closed

(* The code of a part follows.                                             *)
LEMMA PartThen ==
  ASSUME NEW g, NEW h, Closed(g, h), NEW n, Generates(n)
  PROVE  Closed(g, Generated(n, h)) /\ IsGeneration(Generated(n, h))
  <1>1. Closed(h, Generated(n, h))
    BY DEF Generates, Closed, Adds
  <1>2. QED
    BY <1>1, ClosedCompose

(* A quadruple that is neither a jump nor a label follows.                 *)
LEMMA QuadrupleThen ==
  ASSUME NEW g, NEW h, Closed(g, h), NEW q, q.op \in QuadrupleOps \ (Jumping \cup {"LABEL"})
  PROVE  Closed(g, addCode(h, <<q>>)) /\ IsGeneration(addCode(h, <<q>>))
  <1>1. IsGeneration(h)
    BY DEF Closed, Adds
  <1>2. Adds(h, addCode(h, <<q>>), {}, {}) /\ addCode(h, <<q>>).labels = h.labels
    BY <1>1, PlainBlock, CodeAdds
  <1>3. QED
    BY <1>2, PlainThen

(* The result is told.                                                     *)
LEMMA LeavingThen ==
  ASSUME NEW g, NEW h, Closed(g, h), NEW o
  PROVE  Closed(g, Leaving(h, o)) /\ IsGeneration(Leaving(h, o))
  <1>1. IsGeneration(h)
    BY DEF Closed, Adds
  <1>2. QED
    BY <1>1, LeavingAdds, PlainThen

------------------------------------------------------------------------------
(* A comparison: two labels after those of its operands.                   *)
LEMMA RelationalCloses ==
  ASSUME NEW n, Generates(n.kids[1]), Generates(n.kids[2]),
         n.op \in Relations \cup Equalities, NEW g, IsGeneration(g)
  PROVE  Closed(g, code_gen_4_Relational_expression(n, g))
  <1> DEFINE left  == Generated(n.kids[1], g)
             right == Generated(n.kids[2], left)
             false == right.labels + 1
             exit  == right.labels + 2
             two   == NewLabels(right, 2)
             s     == <<Binary3("CMP", left.place, right.place), Jump(JumpUnless[n.op], false),
                        Put(n, IntLit), Jump("JMP", exit),
                        Jump("LABEL", false), Put(n, ZeroLit), Jump("LABEL", exit)>>
             all   == addCode(two, s)
  <1>1. Closed(g, left)
    BY SameClosed, PartThen
  <1> HIDE DEF left
  <1>2. Closed(g, right) /\ IsGeneration(right)
    BY <1>1, PartThen
  <1> HIDE DEF right
  <1>3. right.labels \in Nat /\ false # exit
    BY <1>2 DEF IsGeneration
  <1>4. JumpUnless[n.op] \in Branches
    BY DEF JumpUnless, Branches, Relations, Equalities
  <1>5. Block(s, {false, exit}, {false, exit})
    BY <1>3, <1>4, RelationBlock
  <1> HIDE DEF s
  <1>6. Adds(right, two, {}, {}) /\ two.labels = right.labels + 2 /\ IsGeneration(two)
    BY <1>2, NewLabelsAdds
  <1> HIDE DEF two
  <1>7. Adds(two, all, {false, exit}, {false, exit}) /\ all.labels = two.labels
    BY <1>5, <1>6, CodeAdds
  <1> HIDE DEF all
  <1>8. Adds(right, all, {} \cup {false, exit}, {} \cup {false, exit})
    BY <1>6, <1>7, AddsCompose
  <1>9. {} \cup {false, exit} = Fresh(right, all)
    BY <1>3, <1>6, <1>7 DEF Fresh
  <1>10. Closed(g, all)
    BY <1>2, <1>8, <1>9, ClosedCompose DEF Closed
  <1>11. Closed(g, Leaving(all, OfOperator(n)))
    BY <1>10, LeavingThen
  <1>12. QED
    BY <1>11 DEF code_gen_4_Relational_expression, all, two, s, right, left

(* A connective: its two labels between those of its operands.             *)
LEMMA LogicCloses ==
  ASSUME NEW n, Generates(n.kids[1]), Generates(n.kids[2]), NEW g, IsGeneration(g),
         NEW decisive, NEW otherwise
  PROVE  Closed(g, code_gen_4_Logic_expression(n, g, decisive, otherwise))
  <1> DEFINE left  == Generated(n.kids[1], g)
             short == left.labels + 1
             exit  == left.labels + 2
             Test(operand) == <<Binary3("CMP", operand, Own(decisive)), Jump("JE", short)>>
             two   == NewLabels(left, 2)
             first == addCode(two, Test(left.place))
             right == Generated(n.kids[2], first)
             rest  == Test(right.place) \o
                      <<Put(n, otherwise), Jump("JMP", exit),
                        Jump("LABEL", short), Put(n, decisive), Jump("LABEL", exit)>>
             all   == addCode(right, rest)
  <1>1. Closed(g, left) /\ IsGeneration(left)
    BY SameClosed, PartThen
  <1>2. left.labels \in Nat /\ short # exit
    BY <1>1 DEF IsGeneration
  <1> HIDE DEF left
  <1>3. Block(Test(left.place), {}, {short})
    BY TestBlock DEF Branches
  <1>4. Adds(left, two, {}, {}) /\ two.labels = left.labels + 2 /\ IsGeneration(two)
    BY <1>1, NewLabelsAdds
  <1> HIDE DEF two, Test
  <1>5. /\ Adds(two, first, {}, {short}) /\ first.labels = two.labels /\ IsGeneration(first)
    BY <1>3, <1>4, CodeAdds
  <1> HIDE DEF first
  <1>6. Closed(first, right) /\ IsGeneration(right) /\ right.labels \in Nat
        /\ first.labels <= right.labels
    BY <1>5 DEF Generates, Closed, Adds, IsGeneration
  <1> HIDE DEF right
  <1>7. Block(rest, {short, exit}, {short, exit})
    BY <1>2, LogicBlock DEF Test
  <1> HIDE DEF rest
  <1>8. Adds(right, all, {short, exit}, {short, exit}) /\ all.labels = right.labels
    BY <1>6, <1>7, CodeAdds
  <1> HIDE DEF all
  <1>9. Adds(left, first, {} \cup {}, {} \cup {short})
    BY <1>4, <1>5, AddsCompose
  <1>10. Adds(left, right, ({} \cup {}) \cup Fresh(first, right), ({} \cup {short}) \cup Fresh(first, right))
    <2>1. ({} \cup {}) \cap Fresh(first, right) = {}
      OBVIOUS
    <2>2. QED
      BY <1>6, <1>9, <2>1, AddsCompose DEF Closed
  <1>11. Fresh(first, right) \cap {short, exit} = {}
    BY <1>2, <1>4, <1>5, <1>6 DEF Fresh
  <1>12. Adds(left, all, (({} \cup {}) \cup Fresh(first, right)) \cup {short, exit},
                         (({} \cup {short}) \cup Fresh(first, right)) \cup {short, exit})
    <2>1. (({} \cup {}) \cup Fresh(first, right)) \cap {short, exit} = {}
      BY <1>11
    <2>2. QED
      BY <1>8, <1>10, <2>1, AddsCompose
  <1>13. (({} \cup {}) \cup Fresh(first, right)) \cup {short, exit} = Fresh(left, all)
    BY <1>2, <1>4, <1>5, <1>6, <1>8 DEF Fresh
  <1>14. (({} \cup {short}) \cup Fresh(first, right)) \cup {short, exit} = Fresh(left, all)
    BY <1>13
  <1>15. Closed(left, all)
    BY <1>12, <1>13, <1>14 DEF Closed
  <1>16. Closed(g, Leaving(all, OfOperator(n)))
    BY <1>1, <1>15, ClosedCompose, LeavingThen
  <1>17. QED
    BY <1>16 DEF code_gen_4_Logic_expression, all, rest, right, first, two, left, Test

(* An arithmetic operator has no label of its own.                         *)
LEMMA ArithmeticCloses ==
  ASSUME NEW n, Generates(n.kids[1]), Generates(n.kids[2]), NEW g, IsGeneration(g),
         n.op \in Additive \cup {"%"}
  PROVE  Closed(g, code_gen_4_arithmetic_expression(n, g))
  <1> DEFINE left  == Generated(n.kids[1], g)
             right == Generated(n.kids[2], left)
             q     == Quadruple(n.op, left.place, right.place, n.sym)
  <1>1. Closed(g, left)
    BY SameClosed, PartThen
  <1> HIDE DEF left
  <1>2. Closed(g, right)
    BY <1>1, PartThen
  <1>3. q.op \in QuadrupleOps \ (Jumping \cup {"LABEL"})
    BY DEF Quadruple, QuadrupleOps, Jumping, Branches, Arithmetic3, Additive
  <1> HIDE DEF right, q
  <1>4. Closed(g, addCode(right, <<q>>))
    BY <1>2, <1>3, QuadrupleThen
  <1>5. Closed(g, Leaving(addCode(right, <<q>>), OfOperator(n)))
    BY <1>4, LeavingThen
  <1>6. QED
    BY <1>5 DEF code_gen_4_arithmetic_expression, left, right, q

(* Neither has an assignment,                                              *)
LEMMA AssignmentCloses ==
  ASSUME NEW n, Generates(n.kids[1]), Generates(n.kids[2]), NEW g, IsGeneration(g)
  PROVE  Closed(g, code_gen_4_ASSIGNMENT_STATEMENT(n, g))
  <1> DEFINE left  == Generated(n.kids[1], g)
             right == Generated(n.kids[2], left)
             q     == Binary3("ASSIGN", left.place, right.place)
  <1>1. Closed(g, left)
    BY SameClosed, PartThen
  <1> HIDE DEF left
  <1>2. Closed(g, right)
    BY <1>1, PartThen
  <1>3. q.op \in QuadrupleOps \ (Jumping \cup {"LABEL"})
    BY DEF Binary3, Quadruple, QuadrupleOps, Jumping, Branches
  <1> HIDE DEF right, q
  <1>4. Closed(g, addCode(right, <<q>>))
    BY <1>2, <1>3, QuadrupleThen
  <1>5. QED
    BY <1>4 DEF code_gen_4_ASSIGNMENT_STATEMENT, left, right, q

(* a list,                                                                 *)
LEMMA InTurnCloses ==
  ASSUME NEW n, Generates(n.kids[1]), Generates(n.kids[2]), NEW g, NEW h, Closed(g, h)
  PROVE  Closed(g, InTurn(n, h))
  <1> DEFINE first == Generated(n.kids[1], h)
  <1>1. Closed(g, first)
    BY PartThen
  <1> HIDE DEF first
  <1>2. Closed(g, Generated(n.kids[2], first))
    BY <1>1, PartThen
  <1>3. QED
    BY <1>2 DEF InTurn, first

(* an output,                                                              *)
LEMMA PrintCloses ==
  ASSUME NEW n, Generates(n.kids[1]), NEW g, IsGeneration(g)
  PROVE  Closed(g, code_gen_4_print(n, g))
  <1> DEFINE what == Generated(n.kids[1], g)
             q    == Unary3("PRINTCONSOLE", what.place)
  <1>1. Closed(g, what)
    BY SameClosed, PartThen
  <1>2. q.op \in QuadrupleOps \ (Jumping \cup {"LABEL"})
    BY DEF Unary3, Quadruple, QuadrupleOps, Jumping, Branches
  <1> HIDE DEF what, q
  <1>3. Closed(g, addCode(what, <<q>>))
    BY <1>1, <1>2, QuadrupleThen
  <1>4. QED
    BY <1>3 DEF code_gen_4_print, what, q

(* a class                                                                 *)
LEMMA ClassCloses ==
  ASSUME NEW n, Generates(n.kids[1]), Generates(n.kids[2]), Generates(n.kids[3]),
         NEW g, IsGeneration(g)
  PROVE  Closed(g, code_gen_4_ClassDefinition(n, g))
  <1> DEFINE Mark(op) == Binary3(op, OfLeaf(n.kids[1]), OfLeaf(n.kids[2]))
             first == addCode(g, <<Mark("CLASS_DEF_BEGIN")>>)
             names == InTurn(n, first)
             body  == Generated(n.kids[3], names)
  <1>1. /\ Mark("CLASS_DEF_BEGIN").op \in QuadrupleOps \ (Jumping \cup {"LABEL"})
        /\ Mark("CLASS_DEF_END").op \in QuadrupleOps \ (Jumping \cup {"LABEL"})
    BY DEF Binary3, Quadruple, QuadrupleOps, Jumping, Branches
  <1> HIDE DEF Mark
  <1>2. Closed(g, first)
    BY <1>1, SameClosed, QuadrupleThen
  <1> HIDE DEF first
  <1>3. Closed(g, names)
    BY <1>2, InTurnCloses
  <1> HIDE DEF names
  <1>4. Closed(g, body)
    BY <1>3, PartThen
  <1> HIDE DEF body
  <1>5. Closed(g, addCode(body, <<Mark("CLASS_DEF_END")>>))
    BY <1>1, <1>4, QuadrupleThen
  <1>6. QED
    BY <1>5 DEF code_gen_4_ClassDefinition, body, names, first, Mark

(* or a method.                                                            *)
LEMMA MethodCloses ==
  ASSUME NEW n, Generates(n.kids[1]), Generates(n.kids[2]), Generates(n.kids[3]),
         Generates(n.kids[4]), Generates(n.kids[5]), NEW g, IsGeneration(g)
  PROVE  Closed(g, code_gen_4_MethodDefinition(n, g))
  <1> DEFINE Mark(op) == Binary3(op, OfLeaf(n.kids[2]), OfLeaf(n.kids[3]))
             first == addCode(g, <<Mark("METHOD_DEF_BEGIN")>>)
             types == InTurn(n, first)
             name  == Generated(n.kids[3], types)
             parameters == Generated(n.kids[4], name)
             body  == Generated(n.kids[5], parameters)
  <1>1. /\ Mark("METHOD_DEF_BEGIN").op \in QuadrupleOps \ (Jumping \cup {"LABEL"})
        /\ Mark("METHOD_DEF_END").op \in QuadrupleOps \ (Jumping \cup {"LABEL"})
    BY DEF Binary3, Quadruple, QuadrupleOps, Jumping, Branches
  <1> HIDE DEF Mark
  <1>2. Closed(g, first)
    BY <1>1, SameClosed, QuadrupleThen
  <1> HIDE DEF first
  <1>3. Closed(g, types)
    BY <1>2, InTurnCloses
  <1> HIDE DEF types
  <1>4. Closed(g, name)
    BY <1>3, PartThen
  <1> HIDE DEF name
  <1>5. Closed(g, parameters)
    BY <1>4, PartThen
  <1> HIDE DEF parameters
  <1>6. Closed(g, body)
    BY <1>5, PartThen
  <1> HIDE DEF body
  <1>7. Closed(g, addCode(body, <<Mark("METHOD_DEF_END")>>))
    BY <1>1, <1>6, QuadrupleThen
  <1>8. QED
    BY <1>7 DEF code_gen_4_MethodDefinition, body, parameters, name, types, first, Mark

------------------------------------------------------------------------------
JumpIfZeroBlock == \A a, l : Block(JumpIfZero(a, l), {}, {l})

(* The test of a condition.                                                *)
LEMMA TestsForZero == JumpIfZeroBlock
  BY TestBlock DEF JumpIfZeroBlock, JumpIfZero, Branches

(* A loop: its two labels before those of its parts.                       *)
LEMMA WhileCloses ==
  ASSUME NEW n, Generates(n.kids[1]), Generates(n.kids[2]), NEW g, IsGeneration(g)
  PROVE  Closed(g, code_gen_4_While_expression(n, g))
  <1> DEFINE entry == g.labels + 1
             exit  == g.labels + 2
             two   == NewLabels(g, 2)
             start == addCode(two, <<Jump("LABEL", entry)>>)
             test  == Generated(n.kids[1], start)
             leave == addCode(test, JumpIfZero(test.place, exit))
             body  == Generated(n.kids[2], leave)
             all   == addCode(body, <<Jump("JMP", entry), Jump("LABEL", exit)>>)
  <1>1. g.labels \in Nat
    BY DEF IsGeneration
  <1>2. Adds(g, two, {}, {}) /\ two.labels = g.labels + 2 /\ IsGeneration(two)
    BY NewLabelsAdds
  <1> HIDE DEF two
  <1>3. Adds(two, start, {entry}, {}) /\ start.labels = two.labels /\ IsGeneration(start)
    BY <1>2, LabelBlock, CodeAdds
  <1> HIDE DEF start
  <1>4. /\ Adds(start, test, Fresh(start, test), Fresh(start, test)) /\ IsGeneration(test)
        /\ test.labels \in Nat /\ start.labels <= test.labels
    BY <1>3 DEF Generates, Closed, Adds, IsGeneration
  <1> HIDE DEF test
  <1>5. Adds(test, leave, {}, {exit}) /\ leave.labels = test.labels /\ IsGeneration(leave)
    BY <1>4, TestsForZero, CodeAdds DEF JumpIfZeroBlock
  <1> HIDE DEF leave
  <1>6. /\ Adds(leave, body, Fresh(leave, body), Fresh(leave, body)) /\ IsGeneration(body)
        /\ body.labels \in Nat /\ leave.labels <= body.labels
    BY <1>5 DEF Generates, Closed, Adds, IsGeneration
  <1> HIDE DEF body
  <1>7. Adds(body, all, {exit}, {entry}) /\ all.labels = body.labels
    BY <1>6, JumpThenLabelBlock, CodeAdds
  <1> HIDE DEF all
  <1>8. Adds(g, start, {} \cup {entry}, {} \cup {})
    BY <1>2, <1>3, AddsCompose
  <1> DEFINE P1 == ({} \cup {entry}) \cup Fresh(start, test)
             J1 == ({} \cup {}) \cup Fresh(start, test)
  <1>9. Adds(g, test, P1, J1)
    <2>1. ({} \cup {entry}) \cap Fresh(start, test) = {}
      BY <1>1, <1>2, <1>3, <1>4 DEF Fresh
    <2>2. QED
      BY <1>4, <1>8, <2>1, AddsCompose
  <1>10. Adds(g, leave, P1 \cup {}, J1 \cup {exit})
    <2>1. P1 \cap {} = {}
      OBVIOUS
    <2> HIDE DEF P1, J1
    <2>2. QED
      BY <1>5, <1>9, <2>1, AddsCompose
  <1>11. Adds(g, body, (P1 \cup {}) \cup Fresh(leave, body), (J1 \cup {exit}) \cup Fresh(leave, body))
    <2>1. (P1 \cup {}) \cap Fresh(leave, body) = {}
      BY <1>1, <1>2, <1>3, <1>4, <1>5, <1>6 DEF Fresh
    <2> HIDE DEF P1, J1
    <2>2. QED
      BY <1>6, <1>10, <2>1, AddsCompose
  <1> DEFINE P == ((P1 \cup {}) \cup Fresh(leave, body)) \cup {exit}
             J == ((J1 \cup {exit}) \cup Fresh(leave, body)) \cup {entry}
  <1>12. Adds(g, all, P, J)
    <2>1. ((P1 \cup {}) \cup Fresh(leave, body)) \cap {exit} = {}
      BY <1>1, <1>2, <1>3, <1>4, <1>5, <1>6 DEF Fresh
    <2> HIDE DEF P1, J1
    <2>2. QED
      BY <1>7, <1>11, <2>1, AddsCompose
  <1>13. P = Fresh(g, all) /\ J = P
    <2>1. P = Fresh(g, all)
      BY SMTT(20), <1>1, <1>2, <1>3, <1>4, <1>5, <1>6, <1>7 DEF Fresh
    <2>2. J = P
      OBVIOUS
    <2>3. QED
      BY <2>1, <2>2
  <1> HIDE DEF P, J
  <1>14. Closed(g, all)
    BY <1>12, <1>13 DEF Closed
  <1>15. QED
    BY <1>14 DEF code_gen_4_While_expression, all, body, leave, test, start, two

(* An if: its label between those of its condition and of its block.       *)
LEMMA IfThenCloses ==
  ASSUME NEW n, Generates(n.kids[1]), Generates(n.kids[2]), NEW g, IsGeneration(g)
  PROVE  Closed(g, code_gen_4_IF_THEN_ENDIF_expression(n, g))
  <1> DEFINE test  == Generated(n.kids[1], g)
             exit  == test.labels + 1
             one   == NewLabels(test, 1)
             leave == addCode(one, JumpIfZero(test.place, exit))
             then  == Generated(n.kids[2], leave)
             all   == addCode(then, <<Jump("LABEL", exit)>>)
  <1>1. Closed(g, test) /\ IsGeneration(test)
    BY SameClosed, PartThen
  <1>2. test.labels \in Nat
    BY <1>1 DEF IsGeneration
  <1> HIDE DEF test
  <1>3. Adds(test, one, {}, {}) /\ one.labels = test.labels + 1 /\ IsGeneration(one)
    BY <1>1, NewLabelsAdds
  <1> HIDE DEF one
  <1>4. Adds(one, leave, {}, {exit}) /\ leave.labels = one.labels /\ IsGeneration(leave)
    <2>1. Block(JumpIfZero(test.place, exit), {}, {exit})
      BY TestsForZero DEF JumpIfZeroBlock
    <2>2. Adds(one, leave, {}, {exit}) /\ leave.labels = one.labels
      BY <1>3, <2>1, CodeAdds
    <2>3. QED
      BY <2>2 DEF Adds
  <1> HIDE DEF leave
  <1>5. /\ Adds(leave, then, Fresh(leave, then), Fresh(leave, then)) /\ IsGeneration(then)
        /\ then.labels \in Nat /\ leave.labels <= then.labels
    BY <1>4 DEF Generates, Closed, Adds, IsGeneration
  <1> HIDE DEF then
  <1>6. Adds(then, all, {exit}, {}) /\ all.labels = then.labels
    BY <1>5, LabelBlock, CodeAdds
  <1> HIDE DEF all
  <1>7. Adds(test, leave, {} \cup {}, {} \cup {exit})
    BY <1>3, <1>4, AddsCompose
  <1>8. Adds(test, then, ({} \cup {}) \cup Fresh(leave, then), ({} \cup {exit}) \cup Fresh(leave, then))
    <2>1. ({} \cup {}) \cap Fresh(leave, then) = {}
      OBVIOUS
    <2>2. QED
      BY <1>5, <1>7, <2>1, AddsCompose
  <1> DEFINE P == (({} \cup {}) \cup Fresh(leave, then)) \cup {exit}
             J == (({} \cup {exit}) \cup Fresh(leave, then)) \cup {}
  <1>9. Adds(test, all, P, J)
    <2>1. (({} \cup {}) \cup Fresh(leave, then)) \cap {exit} = {}
      BY <1>2, <1>3, <1>4, <1>5 DEF Fresh
    <2>2. QED
      BY <1>6, <1>8, <2>1, AddsCompose
  <1>10. P = Fresh(test, all) /\ J = P
    <2>1. P = Fresh(test, all)
      BY <1>2, <1>3, <1>4, <1>5, <1>6 DEF Fresh
    <2>2. J = P
      OBVIOUS
    <2>3. QED
      BY <2>1, <2>2
  <1> HIDE DEF P, J
  <1>11. Closed(g, all)
    BY <1>1, <1>9, <1>10, ClosedCompose DEF Closed
  <1>12. QED
    BY <1>11 DEF code_gen_4_IF_THEN_ENDIF_expression, all, then, leave, one, test

(* An if with an else: its two labels before those of its parts.           *)
LEMMA IfThenElseCloses ==
  ASSUME NEW n, Generates(n.kids[1]), Generates(n.kids[2]), Generates(n.kids[3]),
         NEW g, IsGeneration(g)
  PROVE  Closed(g, code_gen_4_IF_THEN_ELSE_ENDIF_expression(n, g))
  <1> DEFINE endif == g.labels + 1
             else  == g.labels + 2
             two   == NewLabels(g, 2)
             test  == Generated(n.kids[1], two)
             leave == addCode(test, JumpIfZero(test.place, else))
             then  == Generated(n.kids[2], leave)
             over  == addCode(then, <<Jump("JMP", endif), Jump("LABEL", else)>>)
             other == Generated(n.kids[3], over)
             all   == addCode(other, <<Jump("LABEL", endif)>>)
  <1>1. g.labels \in Nat
    BY DEF IsGeneration
  <1>2. Adds(g, two, {}, {}) /\ two.labels = g.labels + 2 /\ IsGeneration(two)
    BY NewLabelsAdds
  <1> HIDE DEF two
  <1>3. /\ Adds(two, test, Fresh(two, test), Fresh(two, test)) /\ IsGeneration(test)
        /\ test.labels \in Nat /\ two.labels <= test.labels
    BY <1>2 DEF Generates, Closed, Adds, IsGeneration
  <1> HIDE DEF test
  <1>4. Adds(test, leave, {}, {else}) /\ leave.labels = test.labels /\ IsGeneration(leave)
    BY <1>3, TestsForZero, CodeAdds DEF JumpIfZeroBlock
  <1> HIDE DEF leave
  <1>5. /\ Adds(leave, then, Fresh(leave, then), Fresh(leave, then)) /\ IsGeneration(then)
        /\ then.labels \in Nat /\ leave.labels <= then.labels
    BY <1>4 DEF Generates, Closed, Adds, IsGeneration
  <1> HIDE DEF then
  <1>6. Adds(then, over, {else}, {endif}) /\ over.labels = then.labels /\ IsGeneration(over)
    <2>1. Block(<<Jump("JMP", endif), Jump("LABEL", else)>>, {else}, {endif})
      BY JumpThenLabelBlock
    <2>2. Adds(then, over, {else}, {endif}) /\ over.labels = then.labels
      BY <1>5, <2>1, CodeAdds
    <2>3. QED
      BY <2>2 DEF Adds
  <1> HIDE DEF over
  <1>7. /\ Adds(over, other, Fresh(over, other), Fresh(over, other)) /\ IsGeneration(other)
        /\ other.labels \in Nat /\ over.labels <= other.labels
    BY <1>6 DEF Generates, Closed, Adds, IsGeneration
  <1> HIDE DEF other
  <1>8. Adds(other, all, {endif}, {}) /\ all.labels = other.labels
    BY <1>7, LabelBlock, CodeAdds
  <1> HIDE DEF all
  <1> DEFINE P1 == {} \cup Fresh(two, test)
  <1>9. Adds(g, test, P1, P1)
    BY <1>2, <1>3, AddsCompose
  <1> DEFINE P2 == P1 \cup {}
             J2 == P1 \cup {else}
  <1>10. Adds(g, leave, P2, J2)
    <2>1. P1 \cap {} = {}
      OBVIOUS
    <2> HIDE DEF P1
    <2>2. QED
      BY <1>4, <1>9, <2>1, AddsCompose
  <1> DEFINE P3 == P2 \cup Fresh(leave, then)
             J3 == J2 \cup Fresh(leave, then)
  <1>11. Adds(g, then, P3, J3)
    <2>1. P2 \cap Fresh(leave, then) = {}
      BY <1>1, <1>2, <1>3, <1>4, <1>5 DEF Fresh
    <2> HIDE DEF P2, J2
    <2>2. QED
      BY <1>5, <1>10, <2>1, AddsCompose
  <1> DEFINE P4 == P3 \cup {else}
             J4 == J3 \cup {endif}
  <1>12. Adds(g, over, P4, J4)
    <2>1. P3 \cap {else} = {}
      BY <1>1, <1>2, <1>3, <1>4, <1>5 DEF Fresh
    <2> HIDE DEF P3, J3
    <2>2. QED
      BY <1>6, <1>11, <2>1, AddsCompose
  <1> DEFINE P5 == P4 \cup Fresh(over, other)
             J5 == J4 \cup Fresh(over, other)
  <1>13. Adds(g, other, P5, J5)
    <2>1. P4 \cap Fresh(over, other) = {}
      BY <1>1, <1>2, <1>3, <1>4, <1>5, <1>6, <1>7 DEF Fresh
    <2> HIDE DEF P4, J4
    <2>2. QED
      BY <1>7, <1>12, <2>1, AddsCompose
  <1> DEFINE P6 == P5 \cup {endif}
             J6 == J5 \cup {}
  <1>14. Adds(g, all, P6, J6)
    <2>1. P5 \cap {endif} = {}
      BY SMTT(20), <1>1, <1>2, <1>3, <1>4, <1>5, <1>6, <1>7 DEF Fresh
    <2> HIDE DEF P5, J5
    <2>2. QED
      BY <1>8, <1>13, <2>1, AddsCompose
  <1>15. P6 = Fresh(g, all) /\ J6 = P6
    <2> DEFINE a == g.labels
               b == test.labels
               c == then.labels
               d == other.labels
    <2>1. /\ Fresh(two, test) = (a + 2) + 1 .. b /\ Fresh(leave, then) = b + 1 .. c
          /\ Fresh(over, other) = c + 1 .. d /\ Fresh(g, all) = a + 1 .. d
      BY <1>2, <1>4, <1>6, <1>8 DEF Fresh
    <2>2. P6 = ((((((a + 2) + 1 .. b) \cup (b + 1 .. c)) \cup {a + 2}) \cup (c + 1 .. d)) \cup {a + 1})
      BY <2>1
    <2>3. a \in Nat /\ b \in Nat /\ c \in Nat /\ d \in Nat /\ a + 2 <= b /\ b <= c /\ c <= d
      BY <1>1, <1>2, <1>3, <1>4, <1>5, <1>6, <1>7
    <2>4. J6 = P6
      OBVIOUS
    <2> HIDE DEF P6, J6, a, b, c, d
    <2>5. P6 = a + 1 .. d
      BY <2>2, <2>3
    <2>6. QED
      BY <2>1, <2>4, <2>5 DEF a, d
  <1> HIDE DEF P6, J6
  <1>16. Closed(g, all)
    BY <1>14, <1>15 DEF Closed
  <1>17. QED
    BY <1>16 DEF code_gen_4_IF_THEN_ELSE_ENDIF_expression, all, other, over, then, leave, test, two

(* A leaf.                                                                 *)
LEMMA TerminalCloses ==
  ASSUME NEW n, NEW g, IsGeneration(g)
  PROVE  Closed(g, Terminal(n, g))
  <1> DEFINE q == Unary3("METHOD_FORMAL_PARAM", OfLeaf(n))
  <1>1. q.op \in QuadrupleOps \ (Jumping \cup {"LABEL"})
    BY DEF Unary3, Quadruple, QuadrupleOps, Jumping, Branches
  <1> HIDE DEF q
  <1>2. Closed(g, g) /\ Closed(g, addCode(g, <<q>>))
    BY <1>1, SameClosed, QuadrupleThen
  <1>3. Closed(g, Leaving(g, OfLeaf(n))) /\ Closed(g, Leaving(addCode(g, <<q>>), OfLeaf(n)))
    BY <1>2, LeavingThen
  <1>4. QED
    BY <1>3 DEF Terminal, q

(* The operators that join the parts of a list.                            *)
Lists == {"program", "class-definitions", "class-body", "method-definitions", "param-list",
          "statements"}

(* What an operator generates before it is told where its result is.       *)
Dispatched(n, g) ==
    CASE n.op \in {"program", "class-definitions", "class-body", "method-definitions",
                   "param-list", "statements"} -> InTurn(n, g)
      [] n.op = "var-declarations"   -> Generated(n.kids[1], g)
      [] n.op = "var-declaration"    ->
           addCode(g, <<Unary3("VAR_DECLARATION", OfLeaf(n.kids[1]))>>)
      [] n.op = "class-definition"   -> code_gen_4_ClassDefinition(n, g)
      [] n.op = "method-definition"  -> code_gen_4_MethodDefinition(n, g)
      [] n.op = ":="                 -> code_gen_4_ASSIGNMENT_STATEMENT(n, g)
      [] n.op \in Additive \cup {"%"} -> code_gen_4_arithmetic_expression(n, g)
      [] n.op = "||"                 -> code_gen_4_Logic_expression(n, g, IntLit, ZeroLit)
      [] n.op = "&&"                 -> code_gen_4_Logic_expression(n, g, ZeroLit, IntLit)
      [] n.op \in Relations \cup Equalities -> code_gen_4_Relational_expression(n, g)
      [] n.op = "while"              -> code_gen_4_While_expression(n, g)
      [] n.op = "if-then-endif"      -> code_gen_4_IF_THEN_ENDIF_expression(n, g)
      [] n.op = "if-then-else-endif" -> code_gen_4_IF_THEN_ELSE_ENDIF_expression(n, g)
      [] n.op = "console.readline"   -> addCode(g, <<Unary3("READCONSOLE", OfLeaf(n.kids[1]))>>)
      [] n.op = "console.writeline"  -> code_gen_4_print(n, g)
      [] OTHER                       -> g

(* Whatever the operator, its rule has as many operands as its code        *)
(* uses.                                                                   *)
LEMMA DispatchCloses ==
  ASSUME NEW n, IsSeq(n.kids), Len(n.kids) = Arity(n.op),
         \A i \in DOMAIN n.kids : Generates(n.kids[i]), NEW g, IsGeneration(g)
  PROVE  Closed(g, Dispatched(n, g))
  <1>1. \A i \in 1 .. Arity(n.op) : Generates(n.kids[i])
    BY DEF IsSeq
  <1>2. Generates(n.kids[1])
    BY <1>1, Arities
  <1>3. n.op \notin {"console.writeline", "console.readline", "var-declaration"}
          => Generates(n.kids[2])
    <2>1. n.op \notin {"console.writeline", "console.readline", "var-declaration"}
            => Arity(n.op) \in {2, 3, 5}
      BY DEF Arity
    <2>2. QED
      BY <1>1, <2>1
  <1>4. n.op \in {"if-then-else-endif", "class-definition", "method-definition"}
          => Generates(n.kids[3])
    <2>1. n.op \in {"if-then-else-endif", "class-definition", "method-definition"}
            => Arity(n.op) \in {3, 5}
      BY DEF Arity
    <2>2. QED
      BY <1>1, <2>1
  <1>5. n.op = "method-definition" => Generates(n.kids[4]) /\ Generates(n.kids[5])
    <2>1. n.op = "method-definition" => Arity(n.op) = 5
      BY DEF Arity
    <2>2. QED
      BY <1>1, <2>1
  <1>6. CASE n.op \in Lists
    <2>1. Dispatched(n, g) = InTurn(n, g)
      BY <1>6 DEF Dispatched, Lists, Additive, Relations, Equalities
    <2>2. QED
      BY <1>6, <1>2, <1>3, <2>1, SameClosed, InTurnCloses DEF Lists
  <1>7. CASE n.op = "var-declarations"
    <2>1. Dispatched(n, g) = Generated(n.kids[1], g)
      BY <1>7 DEF Dispatched, Additive, Relations, Equalities
    <2>2. QED
      BY <1>7, <1>2, <2>1, SameClosed, PartThen
  <1>8. CASE n.op = "var-declaration"
    <2>1. Dispatched(n, g) = addCode(g, <<Unary3("VAR_DECLARATION", OfLeaf(n.kids[1]))>>)
      BY <1>8 DEF Dispatched, Additive, Relations, Equalities
    <2> DEFINE q == Unary3("VAR_DECLARATION", OfLeaf(n.kids[1]))
    <2>2. q.op \in QuadrupleOps \ (Jumping \cup {"LABEL"})
      BY DEF Unary3, Quadruple, QuadrupleOps, Jumping, Branches
    <2> HIDE DEF q
    <2>3. Closed(g, addCode(g, <<q>>))
      BY <2>2, SameClosed, QuadrupleThen
    <2>4. QED
      BY <2>1, <2>3 DEF q
  <1>9. CASE n.op = "class-definition"
    <2>1. Dispatched(n, g) = code_gen_4_ClassDefinition(n, g)
      BY <1>9 DEF Dispatched, Additive, Relations, Equalities
    <2>2. QED
      BY <1>9, <1>2, <1>3, <1>4, <2>1, ClassCloses
  <1>10. CASE n.op = "method-definition"
    <2>1. Dispatched(n, g) = code_gen_4_MethodDefinition(n, g)
      BY <1>10 DEF Dispatched, Additive, Relations, Equalities
    <2>2. QED
      BY <1>10, <1>2, <1>3, <1>4, <1>5, <2>1, MethodCloses
  <1>11. CASE n.op = ":="
    <2>1. Dispatched(n, g) = code_gen_4_ASSIGNMENT_STATEMENT(n, g)
      BY <1>11 DEF Dispatched, Additive, Relations, Equalities
    <2>2. QED
      BY <1>11, <1>2, <1>3, <2>1, AssignmentCloses
  <1>12. CASE n.op \in Additive \cup {"%"}
    <2>1. Dispatched(n, g) = code_gen_4_arithmetic_expression(n, g)
      BY <1>12 DEF Dispatched, Additive, Relations, Equalities
    <2>2. QED
      BY <1>12, <1>2, <1>3, <2>1, ArithmeticCloses DEF Additive
  <1>13. CASE n.op = "||"
    <2>1. Dispatched(n, g) = code_gen_4_Logic_expression(n, g, IntLit, ZeroLit)
      BY <1>13 DEF Dispatched, Additive, Relations, Equalities
    <2>2. QED
      BY <1>13, <1>2, <1>3, <2>1, LogicCloses
  <1>14. CASE n.op = "&&"
    <2>1. Dispatched(n, g) = code_gen_4_Logic_expression(n, g, ZeroLit, IntLit)
      BY <1>14 DEF Dispatched, Additive, Relations, Equalities
    <2>2. QED
      BY <1>14, <1>2, <1>3, <2>1, LogicCloses
  <1>15. CASE n.op \in Relations \cup Equalities
    <2>1. Dispatched(n, g) = code_gen_4_Relational_expression(n, g)
      BY <1>15 DEF Dispatched, Additive, Relations, Equalities
    <2>2. QED
      BY <1>15, <1>2, <1>3, <2>1, RelationalCloses DEF Relations, Equalities
  <1>16. CASE n.op = "while"
    <2>1. Dispatched(n, g) = code_gen_4_While_expression(n, g)
      BY <1>16 DEF Dispatched, Additive, Relations, Equalities
    <2>2. QED
      BY <1>16, <1>2, <1>3, <2>1, WhileCloses
  <1>17. CASE n.op = "if-then-endif"
    <2>1. Dispatched(n, g) = code_gen_4_IF_THEN_ENDIF_expression(n, g)
      BY <1>17 DEF Dispatched, Additive, Relations, Equalities
    <2>2. QED
      BY <1>17, <1>2, <1>3, <2>1, IfThenCloses
  <1>18. CASE n.op = "if-then-else-endif"
    <2>1. Dispatched(n, g) = code_gen_4_IF_THEN_ELSE_ENDIF_expression(n, g)
      BY <1>18 DEF Dispatched, Additive, Relations, Equalities
    <2>2. QED
      BY <1>18, <1>2, <1>3, <1>4, <2>1, IfThenElseCloses
  <1>19. CASE n.op = "console.readline"
    <2>1. Dispatched(n, g) = addCode(g, <<Unary3("READCONSOLE", OfLeaf(n.kids[1]))>>)
      BY <1>19 DEF Dispatched, Additive, Relations, Equalities
    <2> DEFINE q == Unary3("READCONSOLE", OfLeaf(n.kids[1]))
    <2>2. q.op \in QuadrupleOps \ (Jumping \cup {"LABEL"})
      BY DEF Unary3, Quadruple, QuadrupleOps, Jumping, Branches
    <2> HIDE DEF q
    <2>3. Closed(g, addCode(g, <<q>>))
      BY <2>2, SameClosed, QuadrupleThen
    <2>4. QED
      BY <2>1, <2>3 DEF q
  <1>20. CASE n.op = "console.writeline"
    <2>1. Dispatched(n, g) = code_gen_4_print(n, g)
      BY <1>20 DEF Dispatched, Additive, Relations, Equalities
    <2>2. QED
      BY <1>20, <1>2, <2>1, PrintCloses
  <1>21. CASE /\ ~(n.op \in Lists)
             /\ ~(n.op = "var-declarations")
             /\ ~(n.op = "var-declaration")
             /\ ~(n.op = "class-definition")
             /\ ~(n.op = "method-definition")
             /\ ~(n.op = ":=")
             /\ ~(n.op \in Additive \cup {"%"})
             /\ ~(n.op = "||")
             /\ ~(n.op = "&&")
             /\ ~(n.op \in Relations \cup Equalities)
             /\ ~(n.op = "while")
             /\ ~(n.op = "if-then-endif")
             /\ ~(n.op = "if-then-else-endif")
             /\ ~(n.op = "console.readline")
             /\ ~(n.op = "console.writeline")
    <2>1. Dispatched(n, g) = g
      BY <1>21 DEF Dispatched, Lists
    <2>2. QED
      BY <2>1, SameClosed
  <1>22. QED
    BY <1>6, <1>7, <1>8, <1>9, <1>10, <1>11, <1>12, <1>13, <1>14, <1>15, <1>16, <1>17, <1>18, <1>19, <1>20, <1>21

(* The code of an operand is closed when the code of each of its own is.   *)
LEMMA CodeGenCloses ==
  ASSUME NEW n, IsSeq(n.kids), n.kids # <<>> => Len(n.kids) = Arity(n.op),
         \A i \in DOMAIN n.kids : Generates(n.kids[i]), NEW g, IsGeneration(g)
  PROVE  Closed(g, code_gen(n, g))
  <1>1. CASE n.kids = <<>>
    <2>1. code_gen(n, g) = Terminal(n, g)
      BY <1>1 DEF code_gen
    <2>2. QED
      BY <2>1, TerminalCloses
  <1>2. CASE n.kids # <<>>
    <2> DEFINE o == IF n.op \in ExpressiveOperators \cup {"%"} THEN OfOperator(n) ELSE NoOperand
               d == Dispatched(n, g)
    <2>1. code_gen(n, g) = Leaving(d, o)
      BY <1>2 DEF code_gen, Dispatched
    <2>2. Closed(g, d)
      BY <1>2, DispatchCloses
    <2> HIDE DEF d, o
    <2>3. Closed(g, Leaving(d, o))
      BY <2>2, LeavingThen
    <2>4. QED
      BY <2>1, <2>3
  <1>3. QED
    BY <1>1, <1>2

(* The recursion of the generator is closed: what is generated for an      *)
(* operand is what code_gen generates for it.                              *)
ClosedRecursion ==
  \A n, g : Planted({n}) /\ IsGeneration(g) => Generated(n, g) = code_gen(n, g)

(* By the height of the operand: a least one that fails has operands       *)
(* that do not.                                                            *)
LEMMA ForestGenerates ==
  ASSUME ClosedRecursion, NEW D, NEW height, Forest(D, height)
  PROVE  \A n \in D : Generates(n)
  <1> DEFINE Bad     == {n \in D : ~Generates(n)}
             heights == {height[n] : n \in Bad}
  <1> SUFFICES ASSUME Bad # {} PROVE FALSE
    OBVIOUS
  <1>1. heights \in SUBSET Nat /\ heights # {}
    BY DEF Forest
  <1>2. PICK i \in heights : \A j \in heights : i <= j
    BY <1>1, LeastOf
  <1>3. PICK n \in Bad : i = height[n]
    BY <1>2
  <1>4. n \in D /\ ~Generates(n)
    BY <1>3
  <1>5. \A m \in D : height[m] < height[n] => Generates(m)
    <2> SUFFICES ASSUME NEW m \in D, height[m] < height[n], ~Generates(m) PROVE FALSE
      OBVIOUS
    <2>1. height[m] \in heights
      OBVIOUS
    <2>2. height[m] \in Nat /\ height[n] \in Nat
      BY <1>4 DEF Forest
    <2>3. QED
      BY <1>2, <1>3, <2>1, <2>2
  <1>6. /\ IsSeq(n.kids) /\ (n.kids # <<>> => Len(n.kids) = Arity(n.op))
        /\ \A k \in DOMAIN n.kids : n.kids[k] \in D /\ height[n.kids[k]] < height[n]
    BY <1>4 DEF Forest
  <1>7. \A k \in DOMAIN n.kids : Generates(n.kids[k])
    BY <1>5, <1>6
  <1>8. \A g : IsGeneration(g) => Closed(g, Generated(n, g))
    <2> SUFFICES ASSUME NEW g, IsGeneration(g) PROVE Closed(g, Generated(n, g))
      OBVIOUS
    <2>1. Closed(g, code_gen(n, g))
      BY <1>6, <1>7, CodeGenCloses
    <2>2. Generated(n, g) = code_gen(n, g)
      <3>1. Planted({n})
        BY <1>4 DEF Planted
      <3>2. QED
        BY <3>1 DEF ClosedRecursion
    <2>3. QED
      BY <2>1, <2>2
  <1>9. QED
    BY <1>4, <1>8 DEF Generates

(* The three-address code of a whole tree places each of the labels handed *)
(* out for it exactly once, places no other, and jumps only to these:      *)
(* whatever its conditions, loops and connectives are nested in, and       *)
(* whatever the counter stood at (Three_Address_Program.code_gen, the      *)
(* static iIndexOfLabelGenerated).                                         *)
THEOREM LabelsPlacedOnce ==
  ASSUME ClosedRecursion, NEW nodes, Planted(nodes), NEW root \in nodes, NEW l \in Nat
  PROVE  LET h == GenerateCode(root, l)
         IN  /\ IsGeneration(h) /\ l <= h.labels
             /\ Block(h.code, l + 1 .. h.labels, l + 1 .. h.labels)
  <1> DEFINE g == [code |-> <<>>, labels |-> l, place |-> NoOperand]
             h == GenerateCode(root, l)
  <1>1. IsGeneration(g) /\ g.labels = l /\ g.code = <<>>
    <2>1. IsCode(<<>>)
      BY EmptyBlock DEF Block
    <2>2. QED
      BY <2>1 DEF IsGeneration
  <1>2. PICK D, height : Forest(D, height) /\ nodes \subseteq D
    BY DEF Planted
  <1>3. Generates(root)
    BY <1>2, ForestGenerates
  <1>4. Planted({root})
    BY <1>2 DEF Planted
  <1>5. h = code_gen(root, g)
    BY DEF GenerateCode
  <1> HIDE DEF g, h
  <1>6. h = Generated(root, g)
    BY <1>1, <1>4, <1>5 DEF ClosedRecursion
  <1>7. Adds(g, h, l + 1 .. h.labels, l + 1 .. h.labels)
    BY <1>1, <1>3, <1>6 DEF Generates, Closed, Fresh
  <1>8. PICK s : Block(s, l + 1 .. h.labels, l + 1 .. h.labels) /\ h.code = <<>> \o s
    BY <1>1, <1>7 DEF Adds
  <1>9. <<>> \o s = s
    <2>1. s \in Seq({s[i] : i \in DOMAIN s})
      BY <1>8 DEF Block, IsCode, IsSeq
    <2>2. QED
      BY <2>1, ConcatEmptySeq
  <1>10. QED
    BY <1>1, <1>7, <1>8, <1>9 DEF Adds, h

(* The statements of a file, and the label one of them is.                 *)
StatementKinds ==
  {"function", "return", "declare", "set", "goto", "label", "compare", "branch", "print", "read"}

IsText(text) == IsSeq(text) /\ \A i \in DOMAIN text : text[i].stmt \in StatementKinds

Stands(text, i, l) == text[i].stmt = "label" /\ text[i].name = l

(* Of a text, what Block says of a code.                                   *)
TextBlock(s, P, J) ==
  /\ IsText(s)
  /\ \A i \in DOMAIN s : s[i].stmt = "label" => s[i].name \in P
  /\ \A l \in P : \E i \in DOMAIN s : Stands(s, i, l)
  /\ \A l \in P : \A i, j \in DOMAIN s : Stands(s, i, l) /\ Stands(s, j, l) => i = j
  /\ \A i \in DOMAIN s : s[i].stmt \in {"goto", "branch"} => s[i].name \in J

(* Texts that place different labels make one text.                        *)
LEMMA TextsCompose ==
  ASSUME NEW s, NEW P, NEW J, TextBlock(s, P, J), NEW t, NEW Q, NEW K, TextBlock(t, Q, K),
         P \cap Q = {}
  PROVE  TextBlock(s \o t, P \cup Q, J \cup K)
  <1> DEFINE c == s \o t
  <1>1. IsSeq(s) /\ IsSeq(t)
    BY DEF TextBlock, IsText
  <1>2. /\ IsSeq(c) /\ DOMAIN c = 1 .. Len(s) + Len(t)
        /\ Len(s) \in Nat /\ DOMAIN s = 1 .. Len(s) /\ Len(t) \in Nat /\ DOMAIN t = 1 .. Len(t)
        /\ \A i \in DOMAIN s : c[i] = s[i]
        /\ \A i \in DOMAIN t : c[Len(s) + i] = t[i]
    <2>1. /\ IsSeq(c) /\ DOMAIN c = 1 .. Len(s) + Len(t)
          /\ Len(s) \in Nat /\ DOMAIN s = 1 .. Len(s) /\ Len(t) \in Nat /\ DOMAIN t = 1 .. Len(t)
          /\ \A i \in 1 .. Len(s) : c[i] = s[i]
          /\ \A i \in 1 .. Len(t) : c[Len(s) + i] = t[i]
      BY ZenonT(30), <1>1, ConcatIsSeq
    <2> HIDE DEF c
    <2>2. QED
      BY <2>1
  <1>3. \A i \in DOMAIN c :
          \/ i \in DOMAIN s /\ c[i] = s[i]
          \/ \E j \in DOMAIN t : i = Len(s) + j /\ c[i] = t[j]
    BY <1>1, ConcatParts
  <1> HIDE DEF c
  <1>4. \A i \in DOMAIN s : i \in DOMAIN c
    BY <1>2
  <1>5. \A i \in DOMAIN t : Len(s) + i \in DOMAIN c
    BY <1>2
  <1>6. IsText(c)
    BY <1>2, <1>3 DEF TextBlock, IsText
  <1>7. \A i \in DOMAIN c : c[i].stmt = "label" => c[i].name \in P \cup Q
    BY <1>3 DEF TextBlock
  <1>8. \A i \in DOMAIN c : c[i].stmt \in {"goto", "branch"} => c[i].name \in J \cup K
    BY <1>3 DEF TextBlock
  <1>9. \A l \in P \cup Q : \E i \in DOMAIN c : Stands(c, i, l)
    <2> SUFFICES ASSUME NEW l \in P \cup Q PROVE \E i \in DOMAIN c : Stands(c, i, l)
      OBVIOUS
    <2>1. CASE l \in P
      <3>1. PICK i \in DOMAIN s : Stands(s, i, l)
        BY <2>1 DEF TextBlock
      <3>2. Stands(c, i, l) /\ i \in DOMAIN c
        BY <1>2, <1>4, <3>1 DEF Stands
      <3>3. QED
        BY <3>2
    <2>2. CASE l \in Q
      <3>1. PICK i \in DOMAIN t : Stands(t, i, l)
        BY <2>2 DEF TextBlock
      <3>2. Stands(c, Len(s) + i, l) /\ Len(s) + i \in DOMAIN c
        BY <1>2, <1>5, <3>1 DEF Stands
      <3>3. QED
        BY <3>2
    <2>3. QED
      BY <2>1, <2>2
  <1>10. \A l \in P \cup Q : \A i, j \in DOMAIN c : Stands(c, i, l) /\ Stands(c, j, l) => i = j
    <2> SUFFICES ASSUME NEW l \in P \cup Q, NEW i \in DOMAIN c, NEW j \in DOMAIN c,
                        Stands(c, i, l), Stands(c, j, l)
                 PROVE  i = j
      OBVIOUS
    <2>1. \A k \in DOMAIN c : Stands(c, k, l) =>
             \/ l \in P /\ k \in DOMAIN s /\ Stands(s, k, l)
             \/ l \in Q /\ \E n \in DOMAIN t : k = Len(s) + n /\ Stands(t, n, l)
      BY <1>3 DEF Stands, TextBlock
    <2>2. CASE l \in P
      <3>1. i \in DOMAIN s /\ Stands(s, i, l) /\ j \in DOMAIN s /\ Stands(s, j, l)
        BY <2>1, <2>2
      <3>2. QED
        BY <2>2, <3>1 DEF TextBlock
    <2>3. CASE l \in Q
      <3>1. PICK m \in DOMAIN t : i = Len(s) + m /\ Stands(t, m, l)
        BY <2>1, <2>3
      <3>2. PICK n \in DOMAIN t : j = Len(s) + n /\ Stands(t, n, l)
        BY <2>1, <2>3
      <3>3. m = n
        BY <2>3, <3>1, <3>2 DEF TextBlock
      <3>4. QED
        BY <3>1, <3>2, <3>3
    <2>4. QED
      BY <2>2, <2>3
  <1>11. QED
    BY <1>6, <1>7, <1>8, <1>9, <1>10 DEF TextBlock, c

(* One statement.                                                          *)
LEMMA StatementText ==
  ASSUME NEW q, q.stmt \in StatementKinds
  PROVE  TextBlock(<<q>>, IF q.stmt = "label" THEN {q.name} ELSE {},
                   IF q.stmt \in {"goto", "branch"} THEN {q.name} ELSE {})
  <1> DEFINE s == <<q>>
  <1>1. IsSeq(s) /\ DOMAIN s = {1} /\ s[1] = q
    BY DEF IsSeq
  <1> HIDE DEF s
  <1>2. TextBlock(s, IF q.stmt = "label" THEN {q.name} ELSE {},
                   IF q.stmt \in {"goto", "branch"} THEN {q.name} ELSE {})
    BY <1>1 DEF TextBlock, IsText, Stands
  <1>3. QED
    BY <1>2 DEF s

(* Where a method begins, only declarations follow.                        *)
LEMMA TemporariesText ==
  ASSUME NEW t, Len(t.symbols) \in Nat, DOMAIN t.symbols = 1 .. Len(t.symbols),
         NEW class, NEW method
  PROVE  TextBlock(addCode_4_temporaries(t, class, method), {}, {})
  <1> DEFINE here == {i \in DOMAIN t.symbols : TemporaryInScope(t.symbols[i], class, method)}
             n    == Cardinality(here)
             Nth(k) == CHOOSE i \in here : Cardinality({j \in here : j <= i}) = k
             s    == [k \in 1 .. n |-> DeclareSymbol(t.symbols[Nth(k)])]
  <1>1. n \in Nat
    <2>1. IsFiniteSet(DOMAIN t.symbols)
      BY FS_Interval
    <2>2. IsFiniteSet(here)
      BY <2>1, FS_Subset
    <2>3. QED
      BY <2>2, FS_CardinalityType
  <1> HIDE DEF n
  <1>2. DOMAIN s = 1 .. n /\ \A k \in DOMAIN s : s[k].stmt = "declare"
    BY DEF DeclareSymbol, Statement
  <1>3. IsSeq(s)
    <2> DEFINE T == {s[k] : k \in 1 .. n}
    <2>1. s \in [1 .. n -> T]
      OBVIOUS
    <2>2. s \in Seq(T)
      <3> HIDE DEF s, T
      <3>1. QED
        BY <1>1, <2>1, SeqDef
    <2>3. T = {s[k] : k \in DOMAIN s}
      BY <1>2
    <2>4. QED
      BY <2>2, <2>3 DEF IsSeq
  <1>4. s = addCode_4_temporaries(t, class, method)
    BY DEF addCode_4_temporaries, n
  <1> HIDE DEF s
  <1>5. TextBlock(s, {}, {})
    BY <1>2, <1>3 DEF TextBlock, IsText, StatementKinds
  <1>6. QED
    BY <1>4, <1>5

(* What the writer carries from quadruple to quadruple.                    *)
IsWriter(w) == w = [text |-> w.text, activeClass |-> w.activeClass]

(* The writer keeps its form.                                              *)
LEMMA MoreText ==
  ASSUME NEW w, IsWriter(w), NEW c
  PROVE  /\ [w EXCEPT !.text = c] = [text |-> c, activeClass |-> w.activeClass]
         /\ [w EXCEPT !.activeClass = c] = [text |-> w.text, activeClass |-> c]
  BY DEF IsWriter

(* The label a quadruple places, and the one it jumps to.                  *)
PlacedBy(q) == IF q.op = "LABEL" THEN {q.arg1.id} ELSE {}
JumpedTo(q) == IF q.op \in Jumping THEN {q.arg1.id} ELSE {}

(* What one quadruple adds to the text.                                    *)
LEMMA QuadrupleText ==
  ASSUME NEW t, Len(t.symbols) \in Nat, DOMAIN t.symbols = 1 .. Len(t.symbols),
         NEW w, IsWriter(w), IsSeq(w.text), NEW q, q.op \in QuadrupleOps
  PROVE  LET v == add_a_C_Code2File(t, w, q)
         IN  IsWriter(v) /\ \E s : TextBlock(s, PlacedBy(q), JumpedTo(q)) /\ v.text = w.text \o s
  <1> DEFINE v == add_a_C_Code2File(t, w, q)
             Side(o) == symbolMatching3AddressOperand(t, o)
             Done(r) == IsWriter(r) /\ \E s : TextBlock(s, PlacedBy(q), JumpedTo(q)) /\ r.text = w.text \o s
  <1>1. ASSUME NEW s, TextBlock(s, PlacedBy(q), JumpedTo(q))
        PROVE  Done([w EXCEPT !.text = w.text \o s])
    <2> DEFINE c == w.text \o s
    <2>1. c = w.text \o s
      OBVIOUS
    <2> HIDE DEF c
    <2>2. [w EXCEPT !.text = c] = [text |-> c, activeClass |-> w.activeClass]
      BY MoreText
    <2>3. QED
      BY <1>1, <2>1, <2>2 DEF IsWriter
  <1>2. ASSUME NEW x, x.stmt \in StatementKinds,
               PlacedBy(q) = (IF x.stmt = "label" THEN {x.name} ELSE {}),
               JumpedTo(q) = (IF x.stmt \in {"goto", "branch"} THEN {x.name} ELSE {})
        PROVE  Done([w EXCEPT !.text = w.text \o <<x>>])
    <2>1. TextBlock(<<x>>, PlacedBy(q), JumpedTo(q))
      BY <1>2, StatementText
    <2> HIDE DEF Done
    <2>2. QED
      BY <1>1, <2>1
  <1>3. ASSUME PlacedBy(q) = {}, JumpedTo(q) = {}
        PROVE  \A r : IsWriter(r) /\ r.text = w.text => Done(r)
    <2>1. TextBlock(<<>>, {}, {})
      BY DEF TextBlock, IsText, IsSeq
    <2>2. w.text \o <<>> = w.text
      <3>1. w.text \in Seq({w.text[i] : i \in DOMAIN w.text})
        BY DEF IsSeq
      <3>2. QED
        BY <3>1, ConcatEmptySeq
    <2>3. QED
      BY <1>3, <2>1, <2>2
  <1> SUFFICES Done(v)
    OBVIOUS
  <1> HIDE DEF Done, v, Side
  <1>4. CASE q.op \in {"CLASS_DEF_BEGIN", "CLASS_DEF_END"}
    <2>1. PICK c : v = [w EXCEPT !.activeClass = c]
      <3>1. CASE q.op = "CLASS_DEF_BEGIN"
        BY <3>1 DEF v, add_a_C_Code2File, Arithmetic3, Additive, Branches
      <3>2. CASE q.op = "CLASS_DEF_END"
        BY <3>2 DEF v, add_a_C_Code2File, Arithmetic3, Additive, Branches
      <3>3. QED
        BY <1>4, <3>1, <3>2
    <2>2. v = [text |-> w.text, activeClass |-> c]
      BY <2>1, MoreText
    <2>3. IsWriter(v) /\ v.text = w.text
      BY <2>2 DEF IsWriter
    <2>4. PlacedBy(q) = {} /\ JumpedTo(q) = {}
      BY <1>4 DEF PlacedBy, JumpedTo, Jumping, Branches
    <2>5. QED
      BY <1>3, <2>3, <2>4
  <1>5. CASE q.op = "METHOD_DEF_BEGIN"
    <2> DEFINE f == Statement("function", NameOf(t, q.arg2), "int", <<>>)
               r == addCode_4_temporaries(t, w.activeClass, NameOf(t, q.arg2))
    <2>1. v = [w EXCEPT !.text = w.text \o (<<f>> \o r)]
      BY <1>5 DEF v, add_a_C_Code2File, Arithmetic3, Additive, Branches
    <2>2. TextBlock(r, {}, {})
      BY TemporariesText
    <2>3. TextBlock(<<f>>, {}, {})
      <3>1. f.stmt = "function"
        BY DEF Statement
      <3> HIDE DEF f
      <3>2. f.stmt \in StatementKinds
        BY <3>1 DEF StatementKinds
      <3>3. TextBlock(<<f>>, IF f.stmt = "label" THEN {f.name} ELSE {},
                      IF f.stmt \in {"goto", "branch"} THEN {f.name} ELSE {})
        BY <3>2, StatementText
      <3>4. /\ (IF f.stmt = "label" THEN {f.name} ELSE {}) = {}
            /\ (IF f.stmt \in {"goto", "branch"} THEN {f.name} ELSE {}) = {}
        BY <3>1
      <3>5. QED
        BY <3>3, <3>4
    <2> HIDE DEF f, r
    <2>4. {} \cap {} = {} /\ {} \cup {} = {}
      OBVIOUS
    <2>5. TextBlock(<<f>> \o r, {} \cup {}, {} \cup {})
      BY <2>2, <2>3, <2>4, TextsCompose
    <2>6. PlacedBy(q) = {} /\ JumpedTo(q) = {}
      BY <1>5 DEF PlacedBy, JumpedTo, Jumping, Branches
    <2>7. TextBlock(<<f>> \o r, PlacedBy(q), JumpedTo(q))
      BY <2>4, <2>5, <2>6
    <2>8. QED
      BY <1>1, <2>1, <2>7
  <1>6. CASE q.op = "VAR_DECLARATION" /\ t.symbols[q.arg1.id].method_block = NoName
    <2>1. v = w
      BY <1>6 DEF v, add_a_C_Code2File, Arithmetic3, Additive, Branches
    <2>2. PlacedBy(q) = {} /\ JumpedTo(q) = {}
      BY <1>6 DEF PlacedBy, JumpedTo, Jumping, Branches
    <2>3. QED
      BY <1>3, <2>1, <2>2
  <1>7. CASE q.op = "METHOD_DEF_END"
    <2> DEFINE x == Statement("return", NameOf(t, q.arg2), None, <<>>)
    <2>1. v = [w EXCEPT !.text = w.text \o <<x>>]
      BY <1>7 DEF v, add_a_C_Code2File, Side, Arithmetic3, Additive, Branches
    <2>2. /\ x.stmt \in StatementKinds
          /\ PlacedBy(q) = (IF x.stmt = "label" THEN {x.name} ELSE {})
          /\ JumpedTo(q) = (IF x.stmt \in {"goto", "branch"} THEN {x.name} ELSE {})
      BY <1>7 DEF PlacedBy, JumpedTo, Jumping, Branches, Arithmetic3, Additive, StatementKinds,
         Statement, DeclareSymbol
    <2> HIDE DEF x
    <2>3. QED
      BY <1>2, <2>1, <2>2
  <1>8. CASE q.op = "METHOD_FORMAL_PARAM"
    <2> DEFINE x == DeclareSymbol(t.symbols[q.arg1.id])
    <2>1. v = [w EXCEPT !.text = w.text \o <<x>>]
      BY <1>8 DEF v, add_a_C_Code2File, Side, Arithmetic3, Additive, Branches
    <2>2. /\ x.stmt \in StatementKinds
          /\ PlacedBy(q) = (IF x.stmt = "label" THEN {x.name} ELSE {})
          /\ JumpedTo(q) = (IF x.stmt \in {"goto", "branch"} THEN {x.name} ELSE {})
      BY <1>8 DEF PlacedBy, JumpedTo, Jumping, Branches, Arithmetic3, Additive, StatementKinds,
         Statement, DeclareSymbol
    <2> HIDE DEF x
    <2>3. QED
      BY <1>2, <2>1, <2>2
  <1>9. CASE q.op = "VAR_DECLARATION" /\ ~(t.symbols[q.arg1.id].method_block = NoName)
    <2> DEFINE x == DeclareSymbol(t.symbols[q.arg1.id])
    <2>1. v = [w EXCEPT !.text = w.text \o <<x>>]
      BY <1>9 DEF v, add_a_C_Code2File, Side, Arithmetic3, Additive, Branches
    <2>2. /\ x.stmt \in StatementKinds
          /\ PlacedBy(q) = (IF x.stmt = "label" THEN {x.name} ELSE {})
          /\ JumpedTo(q) = (IF x.stmt \in {"goto", "branch"} THEN {x.name} ELSE {})
      BY <1>9 DEF PlacedBy, JumpedTo, Jumping, Branches, Arithmetic3, Additive, StatementKinds,
         Statement, DeclareSymbol
    <2> HIDE DEF x
    <2>3. QED
      BY <1>2, <2>1, <2>2
  <1>10. CASE q.op \in Arithmetic3
    <2> DEFINE x == Statement("set", t.symbols[q.sym].symbol, q.op, <<Side(q.arg1), Side(q.arg2)>>)
    <2>1. v = [w EXCEPT !.text = w.text \o <<x>>]
      BY <1>10 DEF v, add_a_C_Code2File, Side, Arithmetic3, Additive, Branches
    <2>2. /\ x.stmt \in StatementKinds
          /\ PlacedBy(q) = (IF x.stmt = "label" THEN {x.name} ELSE {})
          /\ JumpedTo(q) = (IF x.stmt \in {"goto", "branch"} THEN {x.name} ELSE {})
      BY <1>10 DEF PlacedBy, JumpedTo, Jumping, Branches, Arithmetic3, Additive, StatementKinds,
         Statement, DeclareSymbol
    <2> HIDE DEF x
    <2>3. QED
      BY <1>2, <2>1, <2>2
  <1>11. CASE q.op \in {"ASSIGN", "MOV"}
    <2> DEFINE x == Statement("set", NameOf(t, q.arg1), None, <<Side(q.arg2)>>)
    <2>1. v = [w EXCEPT !.text = w.text \o <<x>>]
      BY <1>11 DEF v, add_a_C_Code2File, Side, Arithmetic3, Additive, Branches
    <2>2. /\ x.stmt \in StatementKinds
          /\ PlacedBy(q) = (IF x.stmt = "label" THEN {x.name} ELSE {})
          /\ JumpedTo(q) = (IF x.stmt \in {"goto", "branch"} THEN {x.name} ELSE {})
      BY <1>11 DEF PlacedBy, JumpedTo, Jumping, Branches, Arithmetic3, Additive, StatementKinds,
         Statement, DeclareSymbol
    <2> HIDE DEF x
    <2>3. QED
      BY <1>2, <2>1, <2>2
  <1>12. CASE q.op = "JMP"
    <2> DEFINE x == Statement("goto", q.arg1.id, None, <<>>)
    <2>1. v = [w EXCEPT !.text = w.text \o <<x>>]
      BY <1>12 DEF v, add_a_C_Code2File, Side, Arithmetic3, Additive, Branches
    <2>2. /\ x.stmt \in StatementKinds
          /\ PlacedBy(q) = (IF x.stmt = "label" THEN {x.name} ELSE {})
          /\ JumpedTo(q) = (IF x.stmt \in {"goto", "branch"} THEN {x.name} ELSE {})
      BY <1>12 DEF PlacedBy, JumpedTo, Jumping, Branches, Arithmetic3, Additive, StatementKinds,
         Statement, DeclareSymbol
    <2> HIDE DEF x
    <2>3. QED
      BY <1>2, <2>1, <2>2
  <1>13. CASE q.op = "LABEL"
    <2> DEFINE x == Statement("label", q.arg1.id, None, <<>>)
    <2>1. v = [w EXCEPT !.text = w.text \o <<x>>]
      BY <1>13 DEF v, add_a_C_Code2File, Side, Arithmetic3, Additive, Branches
    <2>2. /\ x.stmt \in StatementKinds
          /\ PlacedBy(q) = (IF x.stmt = "label" THEN {x.name} ELSE {})
          /\ JumpedTo(q) = (IF x.stmt \in {"goto", "branch"} THEN {x.name} ELSE {})
      BY <1>13 DEF PlacedBy, JumpedTo, Jumping, Branches, Arithmetic3, Additive, StatementKinds,
         Statement, DeclareSymbol
    <2> HIDE DEF x
    <2>3. QED
      BY <1>2, <2>1, <2>2
  <1>14. CASE q.op = "CMP"
    <2> DEFINE x == Statement("compare", 0, None, <<Side(q.arg1), Side(q.arg2)>>)
    <2>1. v = [w EXCEPT !.text = w.text \o <<x>>]
      BY <1>14 DEF v, add_a_C_Code2File, Side, Arithmetic3, Additive, Branches
    <2>2. /\ x.stmt \in StatementKinds
          /\ PlacedBy(q) = (IF x.stmt = "label" THEN {x.name} ELSE {})
          /\ JumpedTo(q) = (IF x.stmt \in {"goto", "branch"} THEN {x.name} ELSE {})
      BY <1>14 DEF PlacedBy, JumpedTo, Jumping, Branches, Arithmetic3, Additive, StatementKinds,
         Statement, DeclareSymbol
    <2> HIDE DEF x
    <2>3. QED
      BY <1>2, <2>1, <2>2
  <1>15. CASE q.op \in Branches
    <2> DEFINE x == Statement("branch", q.arg1.id, q.op, <<>>)
    <2>1. v = [w EXCEPT !.text = w.text \o <<x>>]
      BY <1>15 DEF v, add_a_C_Code2File, Side, Arithmetic3, Additive, Branches
    <2>2. /\ x.stmt \in StatementKinds
          /\ PlacedBy(q) = (IF x.stmt = "label" THEN {x.name} ELSE {})
          /\ JumpedTo(q) = (IF x.stmt \in {"goto", "branch"} THEN {x.name} ELSE {})
      BY <1>15 DEF PlacedBy, JumpedTo, Jumping, Branches, Arithmetic3, Additive, StatementKinds,
         Statement, DeclareSymbol
    <2> HIDE DEF x
    <2>3. QED
      BY <1>2, <2>1, <2>2
  <1>16. CASE q.op = "PRINTCONSOLE"
    <2> DEFINE x == Statement("print", 0, None, <<Side(q.arg1)>>)
    <2>1. v = [w EXCEPT !.text = w.text \o <<x>>]
      BY <1>16 DEF v, add_a_C_Code2File, Side, Arithmetic3, Additive, Branches
    <2>2. /\ x.stmt \in StatementKinds
          /\ PlacedBy(q) = (IF x.stmt = "label" THEN {x.name} ELSE {})
          /\ JumpedTo(q) = (IF x.stmt \in {"goto", "branch"} THEN {x.name} ELSE {})
      BY <1>16 DEF PlacedBy, JumpedTo, Jumping, Branches, Arithmetic3, Additive, StatementKinds,
         Statement, DeclareSymbol
    <2> HIDE DEF x
    <2>3. QED
      BY <1>2, <2>1, <2>2
  <1>17. CASE q.op = "READCONSOLE"
    <2> DEFINE x == Statement("read", NameOf(t, q.arg1), None, <<>>)
    <2>1. v = [w EXCEPT !.text = w.text \o <<x>>]
      BY <1>17 DEF v, add_a_C_Code2File, Side, Arithmetic3, Additive, Branches
    <2>2. /\ x.stmt \in StatementKinds
          /\ PlacedBy(q) = (IF x.stmt = "label" THEN {x.name} ELSE {})
          /\ JumpedTo(q) = (IF x.stmt \in {"goto", "branch"} THEN {x.name} ELSE {})
      BY <1>17 DEF PlacedBy, JumpedTo, Jumping, Branches, Arithmetic3, Additive, StatementKinds,
         Statement, DeclareSymbol
    <2> HIDE DEF x
    <2>3. QED
      BY <1>2, <2>1, <2>2
  <1>18. QED
    BY <1>4, <1>5, <1>6, <1>7, <1>8, <1>9, <1>10, <1>11, <1>12, <1>13, <1>14, <1>15, <1>16, <1>17 DEF QuadrupleOps, Jumping

(* The recursion of Written over the quadruples has a solution.            *)
LEMMA WrittenSteps ==
  ASSUME NEW t, NEW code, Len(code) \in Nat
  PROVE  LET W == Written(t, code)
         IN  /\ W[0] = [text |-> <<>>, activeClass |-> NoName]
             /\ \A i \in 1 .. Len(code) : W[i] = add_a_C_Code2File(t, W[i - 1], code[i])
  <1> DEFINE base == [text |-> <<>>, activeClass |-> NoName]
             step(w, i) == add_a_C_Code2File(t, w, code[i])
             Is(f, n) == f = [i \in 0 .. n |-> IF i = 0 THEN base ELSE step(f[i - 1], i)]
             Bad == {n \in Nat : ~\E f : Is(f, n)}
             len == Len(code)
             W   == Written(t, code)
  <1>1. W = CHOOSE f : Is(f, len)
    BY DEF Written
  <1> HIDE DEF step, base, len
  <1>2. Bad = {}
    <2> SUFFICES ASSUME Bad # {} PROVE FALSE
      OBVIOUS
    <2>1. PICK n \in Bad : \A m \in Bad : n <= m
      <3>1. Bad \in SUBSET Nat
        OBVIOUS
      <3> HIDE DEF Bad
      <3>2. QED
        BY <3>1, LeastOf
    <2>2. n \in Nat /\ ~\E f : Is(f, n)
      OBVIOUS
    <2>3. n # 0
      <3> DEFINE f == [i \in 0 .. 0 |-> base]
      <3>1. Is(f, 0)
        OBVIOUS
      <3> HIDE DEF Is, f
      <3>2. QED
        BY <2>2, <3>1
    <2>4. n - 1 \in Nat /\ n - 1 \notin Bad
      <3> HIDE DEF Bad, Is
      <3>1. n - 1 \in Nat /\ ~(n <= n - 1)
        BY <2>2, <2>3
      <3>2. QED
        BY <2>1, <3>1
    <2>5. PICK f : Is(f, n - 1)
      BY <2>4
    <2>6. f = [i \in 0 .. n - 1 |-> IF i = 0 THEN base ELSE step(f[i - 1], i)]
      BY <2>5
    <2> DEFINE g == [i \in 0 .. n |-> IF i = n THEN step(f[n - 1], n) ELSE f[i]]
    <2>7. g[0] = base
      BY <2>2, <2>3, <2>6
    <2>8. \A i \in 1 .. n : g[i] = step(g[i - 1], i)
      BY <2>2, <2>3, <2>6
    <2>9. g = [i \in 0 .. n |-> g[i]]
      OBVIOUS
    <2> HIDE DEF g
    <2>10. \A i \in 0 .. n : g[i] = IF i = 0 THEN base ELSE step(g[i - 1], i)
      BY <2>2, <2>7, <2>8
    <2>11. Is(g, n)
      BY <2>9, <2>10
    <2> HIDE DEF Is, Bad
    <2>12. QED
      BY <2>2, <2>11
  <1>3. len \in Nat
    BY DEF len
  <1>4. \E f : Is(f, len)
    BY <1>2, <1>3
  <1>5. Is(W, len)
    <2> HIDE DEF Is, Bad, W
    <2>1. QED
      BY <1>1, <1>4
  <1> HIDE DEF W
  <1>6. W[0] = base /\ \A i \in 1 .. len : W[i] = step(W[i - 1], i)
    BY <1>3, <1>5
  <1>7. QED
    BY <1>6 DEF base, step, len, W

(* The text of a code whose labels are all placed once, and whose jumps    *)
(* lead to them, has each label once and jumps to those only.              *)
LEMMA WrittenText ==
  ASSUME NEW t, Len(t.symbols) \in Nat, DOMAIN t.symbols = 1 .. Len(t.symbols),
         NEW code, NEW P, Block(code, P, P)
  PROVE  TextBlock(add_C_Codes2File(t, code), P, P)
  <1> DEFINE W == Written(t, code)
             n == Len(code)
             Placed(i) == {l \in P : \E k \in 1 .. i : Places(code, k, l)}
             OK(i) == IsWriter(W[i]) /\ TextBlock(W[i].text, Placed(i), P)
             Bad == {i \in 0 .. n : ~OK(i)}
  <1>1. n \in Nat /\ DOMAIN code = 1 .. n
    BY AppendIsSeq DEF Block, IsCode
  <1>2. /\ W[0] = [text |-> <<>>, activeClass |-> NoName]
        /\ \A i \in 1 .. n : W[i] = add_a_C_Code2File(t, W[i - 1], code[i])
    BY <1>1, WrittenSteps
  <1> HIDE DEF W, n
  <1>3. OK(0)
    <2>1. Placed(0) = {}
      OBVIOUS
    <2>2. W[0].text = <<>> /\ IsWriter(W[0])
      BY <1>2 DEF IsWriter
    <2>3. TextBlock(<<>>, {}, P)
      BY DEF TextBlock, IsText, IsSeq
    <2>4. QED
      BY <2>1, <2>2, <2>3
  <1>4. ASSUME NEW i \in 1 .. n, OK(i - 1)
        PROVE  OK(i)
    <2> DEFINE q == code[i]
    <2>1. q.op \in QuadrupleOps
      BY <1>1 DEF Block, IsCode
    <2>2. IsWriter(W[i - 1]) /\ TextBlock(W[i - 1].text, Placed(i - 1), P)
      BY <1>4
    <2>3. W[i] = add_a_C_Code2File(t, W[i - 1], q)
      BY <1>2
    <2> HIDE DEF q
    <2>4. PICK s : /\ IsWriter(W[i]) /\ TextBlock(s, PlacedBy(q), JumpedTo(q))
                   /\ W[i].text = W[i - 1].text \o s
      <3>1. IsSeq(W[i - 1].text)
        BY <2>2 DEF TextBlock, IsText
      <3> DEFINE u == W[i - 1]
                 v == add_a_C_Code2File(t, u, q)
      <3>2. IsWriter(u) /\ IsSeq(u.text)
        BY <2>2, <3>1
      <3> HIDE DEF u
      <3>3. IsWriter(v) /\ \E s : TextBlock(s, PlacedBy(q), JumpedTo(q)) /\ v.text = u.text \o s
        BY SMTT(20), <2>1, <3>2, QuadrupleText
      <3> HIDE DEF v
      <3>4. W[i] = v
        BY <2>3 DEF u, v
      <3>5. QED
        BY <3>3, <3>4 DEF u
    <2>5. Placed(i - 1) \cap PlacedBy(q) = {}
      <3> SUFFICES ASSUME NEW l \in Placed(i - 1), l \in PlacedBy(q) PROVE FALSE
        OBVIOUS
      <3>1. PICK k \in 1 .. i - 1 : Places(code, k, l)
        OBVIOUS
      <3>2. Places(code, i, l)
        BY DEF PlacedBy, Places, q
      <3>3. l \in P /\ k \in DOMAIN code /\ i \in DOMAIN code /\ k # i
        BY <1>1
      <3>4. QED
        BY <3>1, <3>2, <3>3 DEF Block
    <2>6. Placed(i - 1) \cup PlacedBy(q) = Placed(i)
      <3>1. \A l : l \in PlacedBy(q) <=> Places(code, i, l)
        BY DEF PlacedBy, Places, q
      <3>2. \A l : Places(code, i, l) => l \in P
        BY <1>1 DEF Places, Block
      <3>3. \A k : k \in 1 .. i <=> k \in 1 .. i - 1 \/ k = i
        BY <1>1
      <3>4. QED
        BY <3>1, <3>2, <3>3
    <2>7. P \cup JumpedTo(q) = P
      BY <1>1 DEF JumpedTo, Block, q
    <2>8. TextBlock(W[i - 1].text \o s, Placed(i - 1) \cup PlacedBy(q), P \cup JumpedTo(q))
      <3> HIDE DEF Placed
      <3>1. QED
        BY <2>2, <2>4, <2>5, TextsCompose
    <2>9. QED
      <3> HIDE DEF Placed
      <3>1. QED
        BY <2>4, <2>6, <2>7, <2>8
  <1>5. Bad = {}
    <2> HIDE DEF OK
    <2> SUFFICES ASSUME Bad # {} PROVE FALSE
      OBVIOUS
    <2>1. Bad \in SUBSET Nat
      BY <1>1
    <2>2. PICK i \in Bad : \A j \in Bad : i <= j
      <3> HIDE DEF Bad
      <3>1. QED
        BY <2>1, LeastOf
    <2>3. i \in 0 .. n /\ ~OK(i)
      OBVIOUS
    <2>4. i \in 1 .. n
      BY <1>1, <1>3, <2>3
    <2>5. i - 1 \in 0 .. n /\ i - 1 \notin Bad
      BY <1>1, <2>2, <2>4
    <2>6. QED
      BY <1>4, <2>3, <2>4, <2>5
  <1>6. OK(n)
    <2> HIDE DEF OK
    <2>1. n \in 0 .. n
      BY <1>1
    <2>2. QED
      BY <1>5, <2>1
  <1>7. Placed(n) = P
    BY <1>1 DEF Block
  <1>8. add_C_Codes2File(t, code) = W[n].text
    BY DEF add_C_Codes2File, W, n
  <1>9. QED
    BY <1>6, <1>7, <1>8

------------------------------------------------------------------------------
(* The program that runs.                                                  *)
(* The variables the program that runs has.                                *)
DeclaredIn(text, f) == {text[d].name : d \in Declarations(text, f)}

(* The machine runs the function it was started in: it stands within that  *)
(* function, has every variable declared there, and keeps their types.     *)
MachineOK(text, m) ==
  LET f == EntryFunction(text)
  IN  /\ m = [pc |-> m.pc, memory |-> m.memory, flags |-> m.flags, reads |-> m.reads,
              trace |-> m.trace]
      /\ m.pc \in Body(text, f)
      /\ m.memory = [x \in DOMAIN m.memory |-> m.memory[x]]
      /\ DOMAIN m.memory = DeclaredIn(text, f)
      /\ \A x \in DOMAIN m.memory : m.memory[x].type \in Declarable
      /\ m.flags \subseteq Branches
      /\ IsSeq(m.trace)
      /\ Len(m.trace) <= MaxHappenings

(* The function that is entered extends to its first return, and has no    *)
(* other function in it.                                                   *)
LEMMA EntryExtends ==
  ASSUME NEW text, IsText(text), Accepted(text), Entry(text) # {}
  PROVE  LET f == EntryFunction(text)
         IN  /\ f \in Beginnings(text) /\ f \in Nat
             /\ Ending(text, f) \in DOMAIN text /\ Ending(text, f) > f
             /\ DOMAIN text \subseteq Nat
             /\ Body(text, f) \subseteq DOMAIN text
             /\ text[Ending(text, f)].stmt = "return"
             /\ \A i \in Body(text, f) : text[i].stmt # "function"
             /\ \A i \in Body(text, f) : text[i].stmt = "return" => i = Ending(text, f)
  <1> DEFINE f == EntryFunction(text)
             e == Ending(text, f)
             Ends(i) == /\ i > f /\ text[i].stmt = "return"
                        /\ \A j \in f + 1 .. i - 1 : text[j].stmt # "return"
  <1>1. f \in Entry(text)
    BY DEF EntryFunction
  <1>2. f \in Beginnings(text)
    BY <1>1 DEF Entry
  <1>3. Len(text) \in Nat /\ DOMAIN text = 1 .. Len(text)
    BY DEF IsText, IsSeq
  <1>4. f \in DOMAIN text /\ text[f].stmt = "function"
    BY <1>2 DEF Beginnings
  <1>5. PICK i \in DOMAIN text :
          /\ i > f /\ text[i].stmt = "return"
          /\ \A j \in f + 1 .. i - 1 : text[j].stmt \notin {"function", "return"}
    BY <1>2 DEF Accepted, FunctionsEnd
  <1>6. Ends(i)
    BY <1>5
  <1>7. e = CHOOSE k \in DOMAIN text : Ends(k)
    BY DEF Ending
  <1>8. e \in DOMAIN text /\ Ends(e)
    BY <1>6, <1>7
  <1> HIDE DEF e, f
  <1>9. e = i
    <2>1. ~(e < i)
      BY <1>3, <1>4, <1>5, <1>8
    <2>2. ~(i < e)
      BY <1>3, <1>4, <1>5, <1>8
    <2>3. QED
      BY <2>1, <2>2, <1>3, <1>8
  <1>10. Body(text, f) = f + 1 .. e
    BY DEF Body, e
  <1>11. f + 1 .. e \subseteq DOMAIN text
    BY <1>3, <1>4, <1>8
  <1>12. \A j \in f + 1 .. e : j = e \/ j \in f + 1 .. i - 1
    BY <1>3, <1>4, <1>8, <1>9
  <1>13. \A j \in Body(text, f) : text[j].stmt # "function"
    BY <1>5, <1>8, <1>10, <1>12
  <1>14. \A j \in Body(text, f) : text[j].stmt = "return" => j = e
    BY <1>5, <1>8, <1>10, <1>12
  <1>15. f \in Nat
    BY <1>3, <1>4
  <1>16. e > f /\ text[e].stmt = "return"
    BY <1>8
  <1>17. DOMAIN text \subseteq Nat
    BY <1>3
  <1>18. QED
    BY <1>2, <1>8, <1>10, <1>11, <1>13, <1>14, <1>15, <1>16, <1>17 DEF e, f

(* A program is started at the first statement of its entry, with every    *)
(* variable there.                                                         *)
LEMMA StartedOK ==
  ASSUME NEW text, IsText(text), Accepted(text), Entry(text) # {}
  PROVE  MachineOK(text, Started(text)) /\ Started(text).pc # 0
  <1> DEFINE f     == EntryFunction(text)
             types == [i \in Declarations(text, f) |-> text[i].word]
             place == [x \in {text[i].name : i \in DOMAIN types} |->
                         CHOOSE i \in DOMAIN types : text[i].name = x]
             mem   == [x \in DOMAIN place |-> Uninitialised(types[place[x]], x)]
             m     == Started(text)
  <1>1. m = [pc |-> f + 1, memory |-> mem, flags |-> {}, reads |-> 0, trace |-> <<>>]
    <2>1. m = [Idle EXCEPT !.pc = f + 1, !.memory = mem]
      BY DEF Started
    <2> HIDE DEF mem, m, f
    <2>2. QED
      BY <2>1 DEF Idle
  <1>2. DOMAIN mem = DeclaredIn(text, f)
    BY DEF DeclaredIn
  <1>3. \A x \in DOMAIN mem : mem[x].type \in Declarable
    <2> SUFFICES ASSUME NEW x \in DOMAIN mem PROVE mem[x].type \in Declarable
      OBVIOUS
    <2>1. x \in {text[i].name : i \in DOMAIN types}
      OBVIOUS
    <2>2. \E i \in DOMAIN types : text[i].name = x
      BY <2>1
    <2>3. place[x] \in DOMAIN types
      BY <2>1, <2>2
    <2>4. mem[x].type = types[place[x]]
      BY DEF Uninitialised, Value
    <2>5. types[place[x]] = text[place[x]].word /\ place[x] \in Declarations(text, f)
      BY <2>3
    <2> HIDE DEF place, mem, types
    <2>6. f \in Beginnings(text)
      BY EntryExtends DEF f
    <2>7. StatementTyped(text, f, text[place[x]])
      BY <2>5, <2>6 DEF Accepted, WellTyped, Declarations
    <2>8. text[place[x]].stmt = "declare"
      BY <2>5 DEF Declarations
    <2>9. text[place[x]].word \in Declarable
      BY <2>7, <2>8 DEF StatementTyped
    <2>10. QED
      BY <2>4, <2>5, <2>9
  <1> HIDE DEF types, place
  <1>4. mem = [x \in DOMAIN mem |-> mem[x]]
    OBVIOUS
  <1> HIDE DEF mem
  <1>5. f + 1 \in Body(text, f) /\ f + 1 # 0
    BY EntryExtends DEF Body, f
  <1> HIDE DEF f
  <1>6. IsSeq(<<>>) /\ Len(<<>>) <= MaxHappenings
    BY DEF IsSeq
  <1>7. /\ m.pc = f + 1 /\ m.memory = mem /\ m.flags = {} /\ m.reads = 0 /\ m.trace = <<>>
        /\ m = [pc |-> m.pc, memory |-> m.memory, flags |-> m.flags, reads |-> m.reads,
                trace |-> m.trace]
    BY <1>1
  <1> HIDE DEF m
  <1>8. MachineOK(text, m)
    BY <1>2, <1>3, <1>4, <1>5, <1>6, <1>7 DEF MachineOK, f
  <1>9. QED
    BY <1>5, <1>7, <1>8 DEF m

(* A file that can be run.                                                 *)
Runnable(text) == IsText(text) /\ Accepted(text) /\ Entry(text) # {}

(* Before the return there is a next statement.                            *)
LEMMA AdvanceOK ==
  ASSUME NEW text, Runnable(text), NEW m, MachineOK(text, m), text[m.pc].stmt # "return"
  PROVE  /\ MachineOK(text, Advance(m))
         /\ Advance(m).memory = m.memory /\ Advance(m).trace = m.trace
         /\ Advance(m).reads = m.reads /\ Advance(m).flags = m.flags
  <1> DEFINE f == EntryFunction(text)
             e == Ending(text, f)
             n == Advance(m)
  <1>1. /\ f \in Nat /\ e \in Nat /\ e > f /\ text[e].stmt = "return"
        /\ m.pc \in f + 1 .. e
    BY EntryExtends DEF Runnable, MachineOK, Body
  <1>2. m.pc # e
    BY <1>1
  <1>3. m.pc + 1 \in f + 1 .. e
    <2> HIDE DEF f, e
    <2>1. QED
      BY <1>1, <1>2
  <1>4. /\ m = [pc |-> m.pc, memory |-> m.memory, flags |-> m.flags, reads |-> m.reads,
                trace |-> m.trace]
    BY DEF MachineOK
  <1>5. n = [pc |-> m.pc + 1, memory |-> m.memory, flags |-> m.flags, reads |-> m.reads,
             trace |-> m.trace]
    BY <1>4 DEF Advance
  <1>6. n.pc \in Body(text, f)
    BY <1>3, <1>5 DEF Body
  <1> HIDE DEF n, e
  <1>7. QED
    BY <1>5, <1>6 DEF MachineOK, n

(* A jump leads to a label of the function that runs.                      *)
LEMMA GoToOK ==
  ASSUME NEW text, Runnable(text), NEW m, MachineOK(text, m),
         text[m.pc].stmt \in {"goto", "branch"}
  PROVE  LET n == GoTo(text, m, text[m.pc].name)
         IN  MachineOK(text, n) /\ n.trace = m.trace
  <1> DEFINE f == EntryFunction(text)
             l == text[m.pc].name
             n == GoTo(text, m, l)
             k == CHOOSE i \in Targets(text, f, l) : TRUE
  <1>1. f \in Beginnings(text)
    BY EntryExtends DEF Runnable
  <1>2. m.pc \in Jumps(text, f)
    BY DEF MachineOK, Jumps
  <1>3. \E i \in Targets(text, f, l) : TRUE
    BY <1>1, <1>2 DEF Runnable, Accepted, LabelsDefined
  <1>4. k \in Body(text, f)
    BY <1>3 DEF Targets
  <1>5. /\ m = [pc |-> m.pc, memory |-> m.memory, flags |-> m.flags, reads |-> m.reads,
                trace |-> m.trace]
    BY DEF MachineOK
  <1>6. n = [m EXCEPT !.pc = k]
    BY DEF GoTo
  <1> HIDE DEF n, k
  <1>7. n = [pc |-> k, memory |-> m.memory, flags |-> m.flags, reads |-> m.reads,
             trace |-> m.trace]
    BY <1>5, <1>6
  <1>8. MachineOK(text, n) /\ n.trace = m.trace
    BY <1>4, <1>7 DEF MachineOK
  <1>9. QED
    BY <1>8 DEF n

(* There is room for one thing more to be seen.                            *)
LEMMA SeeOK ==
  ASSUME NEW text, NEW m, MachineOK(text, m), Len(m.trace) < MaxHappenings, NEW e
  PROVE  MachineOK(text, See(m, e)) /\ See(m, e).reads = m.reads
  <1> DEFINE t == Append(m.trace, e)
             n == See(m, e)
  <1>1. IsSeq(t) /\ Len(t) = Len(m.trace) + 1 /\ Len(m.trace) \in Nat
    BY AppendIsSeq DEF MachineOK
  <1>2. Len(t) <= MaxHappenings
    BY <1>1
  <1>3. /\ m = [pc |-> m.pc, memory |-> m.memory, flags |-> m.flags, reads |-> m.reads,
                trace |-> m.trace]
    BY DEF MachineOK
  <1>4. n = [m EXCEPT !.trace = t]
    BY DEF See
  <1> HIDE DEF t, n
  <1>5. n = [pc |-> m.pc, memory |-> m.memory, flags |-> m.flags, reads |-> m.reads, trace |-> t]
    BY <1>3, <1>4
  <1>6. MachineOK(text, n) /\ n.reads = m.reads
    BY <1>1, <1>2, <1>5 DEF MachineOK
  <1>7. QED
    BY <1>6 DEF n

(* A variable is given a value and keeps its type.                         *)
Given(m, x, v) == [m EXCEPT !.memory[x] = v]

LEMMA MemoryOK ==
  ASSUME NEW text, NEW m, MachineOK(text, m), NEW x, NEW v, v.type \in Declarable
  PROVE  LET n == Given(m, x, v)
         IN  MachineOK(text, n) /\ n.trace = m.trace /\ n.reads = m.reads
  <1> DEFINE mem == [m.memory EXCEPT ![x] = v]
             n   == Given(m, x, v)
  <1>1. /\ m = [pc |-> m.pc, memory |-> m.memory, flags |-> m.flags, reads |-> m.reads,
                trace |-> m.trace]
        /\ m.memory = [y \in DOMAIN m.memory |-> m.memory[y]]
        /\ \A y \in DOMAIN m.memory : m.memory[y].type \in Declarable
    BY DEF MachineOK
  <1>2. n = [m EXCEPT !.memory = mem]
    BY <1>1 DEF Given
  <1>3. DOMAIN mem = DOMAIN m.memory /\ mem = [y \in DOMAIN mem |-> mem[y]]
    BY <1>1
  <1>4. \A y \in DOMAIN mem : mem[y] = v \/ mem[y] = m.memory[y]
    BY <1>1
  <1> HIDE DEF mem, n
  <1>5. \A y \in DOMAIN mem : mem[y].type \in Declarable
    BY <1>1, <1>3, <1>4
  <1>6. n = [pc |-> m.pc, memory |-> mem, flags |-> m.flags, reads |-> m.reads, trace |-> m.trace]
    BY <1>1, <1>2
  <1>7. MachineOK(text, n) /\ n.trace = m.trace /\ n.reads = m.reads
    BY <1>3, <1>5, <1>6 DEF MachineOK
  <1>8. QED
    BY <1>7 DEF n

(* A variable is given a value of its type.                                *)
LEMMA StoredOK ==
  ASSUME NEW text, NEW m, MachineOK(text, m), NEW x, NEW v, v.type \in Declarable, NEW what,
         x \notin FreeStoreNames => Len(m.trace) < MaxHappenings
  PROVE  MachineOK(text, Stored(m, x, v, what)) /\ Stored(m, x, v, what).reads = m.reads
  <1> DEFINE n == Given(m, x, v)
  <1>1. MachineOK(text, n) /\ n.trace = m.trace /\ n.reads = m.reads
    BY MemoryOK
  <1>2. Stored(m, x, v, what) = IF x \in FreeStoreNames THEN n ELSE See(n, what)
    BY DEF Stored, Given
  <1> HIDE DEF n
  <1>3. QED
    BY <1>1, <1>2, SeeOK

(* A variable a statement is about has its place in memory.                *)
LEMMA UsedIsDeclared ==
  ASSUME NEW text, Runnable(text), NEW m, MachineOK(text, m), NEW x \in VariablesOf(text[m.pc])
  PROVE  x \in DOMAIN m.memory /\ m.memory[x].type \in Declarable
  <1> DEFINE f == EntryFunction(text)
  <1>1. f \in Beginnings(text)
    BY EntryExtends DEF Runnable
  <1>2. m.pc \in Body(text, f)
    BY DEF MachineOK
  <1>3. \E d \in Declarations(text, f) : text[d].name = x
    BY <1>1, <1>2 DEF Runnable, Accepted, DeclaredBeforeUse
  <1> HIDE DEF f
  <1>4. x \in DeclaredIn(text, f)
    BY <1>3 DEF DeclaredIn
  <1>5. QED
    BY <1>4 DEF MachineOK, f

(* A converted value has the type it was converted to.                     *)
LEMMA ConvertedType ==
  ASSUME NEW type, NEW v
  PROVE  Converted(type, v).type = type
  BY DEF Converted, Value

(* One statement keeps the machine in order.                               *)
LEMMA ObeyedOK ==
  ASSUME NEW text, Runnable(text), NEW m, MachineOK(text, m), text[m.pc].stmt # "return",
         Seen(text[m.pc]) => Len(m.trace) < MaxHappenings, NEW answer
  PROVE  MachineOK(text, Obeyed(text, m, answer))
  <1> DEFINE s == text[m.pc]
             n == Advance(m)
             v == [i \in DOMAIN s.args |-> ValueOf(m, s.args[i])]
             o == Obeyed(text, m, answer)
  <1>1. /\ MachineOK(text, n)
        /\ n.memory = m.memory /\ n.trace = m.trace /\ n.reads = m.reads /\ n.flags = m.flags
    BY AdvanceOK
  <1>2. s.stmt \in StatementKinds \ {"function", "return"}
    BY EntryExtends DEF MachineOK, Runnable, IsText
  <1>3. m.pc \in Body(text, EntryFunction(text)) /\ EntryFunction(text) \in Beginnings(text)
    BY EntryExtends DEF MachineOK, Runnable
  <1>4. StatementTyped(text, EntryFunction(text), s)
    BY <1>3 DEF Runnable, Accepted, WellTyped
  <1> HIDE DEF n, v, s
  <1>5. CASE s.stmt = "declare"
    <2> DEFINE value == Uninitialised(s.word, s.name)
    <2>1. o = Given(n, s.name, value)
      BY <1>5 DEF Obeyed, Given, s, n, v
    <2>2. s.word \in Declarable
      BY <1>4, <1>5 DEF StatementTyped
    <2>3. value.type \in Declarable
      BY <2>2 DEF Uninitialised, Value
    <2> HIDE DEF value, o
    <2>4. MachineOK(text, Given(n, s.name, value))
      BY <1>1, <2>3, MemoryOK
    <2>5. QED
      BY <2>1, <2>4 DEF o
  <1>6. CASE s.stmt = "set"
    <2> DEFINE result == Converted(m.memory[s.name].type,
                             IF s.word = None THEN v[1] ELSE Arithmetic(s.word, v[1], v[2]))
    <2>1. o = Stored(n, s.name, result, WasSet(s.name, result))
      BY <1>6 DEF Obeyed, s, n, v
    <2>2. s.name \in VariablesOf(s)
      BY <1>6 DEF VariablesOf
    <2>3. m.memory[s.name].type \in Declarable
      BY <2>2, UsedIsDeclared DEF s
    <2>4. result.type \in Declarable
      BY <2>3, ConvertedType
    <2>5. s.name \notin FreeStoreNames => Len(n.trace) < MaxHappenings
      BY <1>1, <1>6 DEF Seen, s
    <2> HIDE DEF result
    <2>6. QED
      BY <1>1, <2>1, <2>4, <2>5, StoredOK
  <1>7. CASE s.stmt = "compare"
    <2> DEFINE after == [n EXCEPT !.flags = FlagsAfter(Relation(v[1], v[2], answer))]
    <2>1. o = IF answer = "none" THEN after ELSE See(after, WasAsked(v[1], v[2], answer))
      BY <1>7 DEF Obeyed, s, n, v
    <2>2. FlagsAfter(Relation(v[1], v[2], answer)) \subseteq Branches
      BY DEF FlagsAfter, Branches
    <2>3. MachineOK(text, after) /\ after.trace = n.trace
      BY <1>1, <2>2 DEF MachineOK
    <2>4. Len(n.trace) < MaxHappenings
      BY <1>1, <1>7 DEF Seen, s
    <2> HIDE DEF after
    <2>5. QED
      BY <2>1, <2>3, <2>4, SeeOK
  <1>8. CASE s.stmt = "branch"
    <2>1. o = IF s.word \in m.flags THEN GoTo(text, m, s.name) ELSE n
      BY <1>8 DEF Obeyed, s, n, v
    <2>2. QED
      BY <1>1, <1>8, <2>1, GoToOK DEF s
  <1>9. CASE s.stmt = "goto"
    <2>1. o = GoTo(text, m, s.name)
      BY <1>9 DEF Obeyed, s, n, v
    <2>2. QED
      BY <1>9, <2>1, GoToOK DEF s
  <1>10. CASE s.stmt = "label"
    <2>1. o = n
      BY <1>10 DEF Obeyed, s, n, v
    <2>2. QED
      BY <1>1, <2>1
  <1>11. CASE s.stmt = "print"
    <2>1. o = See(n, Printed(v[1]))
      BY <1>11 DEF Obeyed, s, n, v
    <2>2. Len(n.trace) < MaxHappenings
      BY <1>1, <1>11 DEF Seen, s
    <2>3. QED
      BY <1>1, <2>1, <2>2, SeeOK
  <1>12. CASE s.stmt = "read"
    <2> DEFINE value == Input(m.memory[s.name].type, m.reads)
               after == Stored(n, s.name, value, WasRead(s.name))
    <2>1. o = [after EXCEPT !.reads = @ + 1]
      BY <1>12 DEF Obeyed, s, n, v
    <2>2. s.name \in VariablesOf(s)
      BY <1>12 DEF VariablesOf
    <2>3. m.memory[s.name].type \in Declarable
      BY <2>2, UsedIsDeclared DEF s
    <2>4. value.type \in Declarable
      BY <2>3 DEF Input, Value
    <2>5. Len(n.trace) < MaxHappenings
      BY <1>1, <1>12 DEF Seen, s
    <2> HIDE DEF value
    <2>6. MachineOK(text, after)
      BY <1>1, <2>4, <2>5, StoredOK
    <2> HIDE DEF after
    <2>7. QED
      BY <2>1, <2>6 DEF MachineOK
  <1>13. QED
    BY <1>2, <1>5, <1>6, <1>7, <1>8, <1>9, <1>10, <1>11, <1>12 DEF StatementKinds, o

------------------------------------------------------------------------------
(* The state of the back end: the file that is there has each of its       *)
(* labels once and jumps to those only, and a program that was started     *)
(* runs a file that g++ accepted, after the compilation that wrote it.     *)
IsFile(text) == \E P : TextBlock(text, P, P)

BackInv ==
  /\ labels \in Nat
  /\ IsFile(cpp)
  /\ generation \in {"none", "written", "failed"}
  /\ (generation # "none") <=> (outcome = "translated")
  /\ running \in {"none", "runs", "ended"}
  /\ running = "none" => machine = Idle
  /\ running # "none" => /\ phase = "idle" /\ generation = "written"
                         /\ Runnable(cpp) /\ MachineOK(cpp, machine)

(* Every step of the whole is a step of the front end, or none of it.      *)
LEMMA FrontEndSteps == [BackNext]_allVars => [Next]_vars
  <1>1. ASSUME NEW p \in DOMAIN Script, StartCompiling(p)
        PROVE  Next
    BY <1>1 DEF StartCompiling, Next
  <1>2. Parsing => Next
    BY DEF Parsing, Next
  <1>3. DecideAndGenerate => Next
    BY DEF DecideAndGenerate, Next
  <1>4. RunProgram \/ Return \/ (\E answer \in {"none", "<", "=", ">", "unordered"} : Obey(answer))
          => UNCHANGED vars
    BY DEF RunProgram, Return, Obey
  <1>5. UNCHANGED allVars => UNCHANGED vars
    BY DEF allVars
  <1>6. QED
    BY <1>1, <1>2, <1>3, <1>4, <1>5 DEF BackNext

(* What precedes the end of Compile translates nothing.                    *)
LEMMA ParsingDecidesNothing ==
  ASSUME FrontEndInv, Parsing
  PROVE  outcome = "none" /\ outcome' # "translated" /\ phase # "idle"
  <1>1. CASE Handled
    BY <1>1 DEF Handled, EndHandled, FrontEndInv, TypeOK
  <1>2. CASE ParserRejects
    BY <1>2 DEF ParserRejects, FrontEndInv, TypeOK
  <1>3. CASE Accept
    <2>1. phase = "parsing" /\ outcome = "none"
      BY <1>3 DEF Accept, FrontEndInv, TypeOK
    <2>2. outcome' = "crashed" \/ outcome' = outcome
      BY <1>3 DEF Accept, Crash
    <2>3. QED
      BY <2>1, <2>2
  <1>4. CASE ~ParserRejects /\ ~Accept
    <2>1. \A op \in Operators : Build(op) => Handled
      BY BuildHandled
    <2>2. Handled
      BY <1>4, <2>1, TokenReadHandled, NoParametersHandled, BasicTypesHandled,
         AccessModifierHandled, ReturnTypeHandled, VarDeclarationHandled, ParameterHandled,
         AssignmentHandled, ReadStatementHandled, ValueIdHandled, ValueLiteralHandled,
         ValueParenthesesHandled, ClassNameHandled, MethodNameHandled DEF Parsing
    <2>3. QED
      BY <1>1, <2>2
  <1>5. QED
    BY <1>1, <1>2, <1>3, <1>4

(* What is in the file is text.                                            *)
LEMMA TextOfFile ==
  ASSUME NEW text, IsFile(text)
  PROVE  IsText(text)
  BY DEF IsFile, TextBlock

(* The file that is generated.                                             *)
LEMMA GenerateKeeps ==
  ASSUME ClosedRecursion, FrontEndInv, BackInv, outcome' = "translated", TranslatedWhole',
         ast' = ast, Generate
  PROVE  labels' \in Nat /\ IsFile(cpp') /\ generation' \in {"written", "failed"}
  <1> DEFINE g == GenerateCode(Last(ast.stack), labels)
             P == labels + 1 .. g.labels
  <1>1. Planted(StackNodes(ast)) /\ ast.stack # <<>>
    BY DEF TranslatedWhole
  <1>2. Last(ast.stack) \in StackNodes(ast)
    <2>1. Len(ast.stack) \in Nat /\ DOMAIN ast.stack = 1 .. Len(ast.stack)
      BY AppendIsSeq DEF FrontEndInv, TreeOK
    <2>2. Len(ast.stack) # 0
      <3>1. ast.stack \in Seq({ast.stack[i] : i \in DOMAIN ast.stack})
        BY DEF FrontEndInv, TreeOK, IsSeq
      <3>2. QED
        BY <1>1, <3>1, EmptySeq
    <2>3. Len(ast.stack) \in DOMAIN ast.stack
      BY <2>1, <2>2
    <2>4. QED
      BY <2>3 DEF StackNodes, Last
  <1>3. labels \in Nat
    BY DEF BackInv
  <1>4. IsGeneration(g) /\ Block(g.code, P, P)
    BY <1>1, <1>2, <1>3, LabelsPlacedOnce
  <1>5. Len(symtab.symbols) \in Nat /\ DOMAIN symtab.symbols = 1 .. Len(symtab.symbols)
    <2>1. symtab.symbols \in Seq(Symbol)
      BY DEF FrontEndInv, TypeOK, Table
    <2>2. QED
      BY <2>1, LenProperties
  <1> HIDE DEF P
  <1>6. TextBlock(add_C_Codes2File(symtab, g.code), P, P)
    BY <1>4, <1>5, WrittenText
  <1> DEFINE text == add_C_Codes2File(symtab, g.code)
  <1>7. IsFile(text)
    BY <1>6 DEF IsFile
  <1>8. /\ labels' = g.labels
        /\ \/ generation' = "failed" /\ cpp' = cpp
           \/ generation' = "written" /\ cpp' = text
    BY DEF Generate
  <1> HIDE DEF text, g
  <1>9. QED
    BY <1>4, <1>7, <1>8 DEF IsGeneration, BackInv

(* Every step of the back end keeps its invariant.                         *)
LEMMA BackStep ==
  ASSUME ClosedRecursion, FrontEndInv, BackInv, TranslatedWhole', [BackNext]_allVars
  PROVE  BackInv'
  <1>1. ASSUME NEW p \in DOMAIN Script, StartCompiling(p)
        PROVE  BackInv'
    BY <1>1 DEF StartCompiling, StartCompile, BackInv
  <1>2. CASE Parsing
    <2>1. outcome = "none" /\ outcome' # "translated" /\ phase # "idle"
      BY <1>2, ParsingDecidesNothing
    <2>2. UNCHANGED <<generated, execution>>
      BY <1>2 DEF Parsing
    <2>3. generation = "none" /\ running = "none"
      BY <2>1 DEF BackInv
    <2>4. QED
      BY <2>1, <2>2, <2>3 DEF BackInv, generated, execution
  <1>3. CASE DecideAndGenerate
    <2>1. Decide /\ UNCHANGED execution /\ ast' = ast /\ phase = "stopped"
      BY <1>3 DEF DecideAndGenerate, Decide
    <2>2. outcome = "none" /\ generation = "none" /\ running = "none"
      BY <2>1 DEF FrontEndInv, TypeOK, BackInv
    <2>3. CASE outcome' = "translated"
      <3>1. Generate
        BY <1>3, <2>3 DEF DecideAndGenerate
      <3>2. labels' \in Nat /\ IsFile(cpp') /\ generation' \in {"written", "failed"}
        BY <2>1, <2>3, <3>1, GenerateKeeps
      <3>3. running' = "none" /\ machine' = Idle
        BY <2>1, <2>2 DEF execution, BackInv
      <3>4. QED
        BY <2>3, <3>2, <3>3 DEF BackInv
    <2>4. CASE outcome' # "translated"
      <3>1. UNCHANGED generated
        BY <1>3, <2>4 DEF DecideAndGenerate
      <3>2. QED
        BY <2>1, <2>2, <2>4, <3>1 DEF BackInv, generated, execution
    <2>5. QED
      BY <2>3, <2>4
  <1>4. CASE RunProgram
    <2>1. /\ phase = "idle" /\ generation = "written" /\ running' = "runs"
          /\ machine' = Started(cpp) /\ UNCHANGED <<vars, generated>>
          /\ Accepted(cpp) /\ Entry(cpp) # {}
      BY <1>4 DEF RunProgram
    <2>2. IsText(cpp)
      BY TextOfFile DEF BackInv
    <2>3. MachineOK(cpp, Started(cpp))
      BY <2>1, <2>2, StartedOK
    <2>4. cpp' = cpp /\ labels' = labels /\ generation' = generation
      BY <2>1 DEF generated
    <2>5. phase' = phase /\ outcome' = outcome
      BY <2>1 DEF vars, ending
    <2>6. Runnable(cpp') /\ MachineOK(cpp', machine')
      BY <2>1, <2>2, <2>3, <2>4 DEF Runnable
    <2>7. QED
      BY <2>1, <2>4, <2>5, <2>6 DEF BackInv
  <1>5. CASE Return
    <2>1. /\ running = "runs" /\ running' = "ended" /\ UNCHANGED <<vars, generated, machine>>
      BY <1>5 DEF Return
    <2>2. cpp' = cpp /\ labels' = labels /\ generation' = generation /\ machine' = machine
      BY <2>1 DEF generated
    <2>3. phase' = phase /\ outcome' = outcome
      BY <2>1 DEF vars, ending
    <2>4. QED
      BY <2>1, <2>2, <2>3 DEF BackInv
  <1>6. ASSUME NEW answer, Obey(answer)
        PROVE  BackInv'
    <2>1. /\ running = "runs" /\ cpp[machine.pc].stmt # "return"
          /\ Seen(cpp[machine.pc]) => Len(machine.trace) < MaxHappenings
          /\ machine' = Obeyed(cpp, machine, answer)
          /\ UNCHANGED <<vars, generated, running>>
      BY <1>6 DEF Obey
    <2>2. Runnable(cpp) /\ MachineOK(cpp, machine)
      BY <2>1 DEF BackInv
    <2>3. MachineOK(cpp, Obeyed(cpp, machine, answer))
      BY <2>1, <2>2, ObeyedOK
    <2>4. cpp' = cpp /\ labels' = labels /\ generation' = generation /\ running' = running
      BY <2>1 DEF generated
    <2>5. phase' = phase /\ outcome' = outcome
      BY <2>1 DEF vars, ending
    <2>6. MachineOK(cpp', machine')
      BY <2>1, <2>3, <2>4
    <2>7. QED
      BY <2>1, <2>2, <2>4, <2>5, <2>6 DEF BackInv
  <1>7. CASE UNCHANGED allVars
    <2>1. /\ cpp' = cpp /\ labels' = labels /\ generation' = generation
          /\ running' = running /\ machine' = machine /\ phase' = phase /\ outcome' = outcome
      BY <1>7 DEF allVars, generated, execution, vars, ending
    <2>2. QED
      BY <2>1 DEF BackInv
  <1>8. QED
    BY <1>1, <1>2, <1>3, <1>4, <1>5, <1>6, <1>7 DEF BackNext

(* The invariant of the back end holds for ever.                           *)
LEMMA BackInvariant ==
  ASSUME ClosedRecursion
  PROVE  BackSpec => []BackInv
  <1>1. BackInit => Init
    BY DEF BackInit
  <1>2. [BackNext]_allVars => [Next]_vars
    BY FrontEndSteps
  <1>3. BackSpec => Spec
    BY <1>1, <1>2, PTL DEF BackSpec, Spec
  <1>4. BackInit => BackInv
    <2>1. TextBlock(<<>>, {}, {})
      BY DEF TextBlock, IsText, IsSeq
    <2>2. IsFile(<<>>)
      BY <2>1 DEF IsFile
    <2>3. Init => outcome = "none"
      BY DEF Init
    <2>4. QED
      BY <2>2, <2>3 DEF BackInit, BackInv
  <1>5. FrontEndInv /\ BackInv /\ TranslatedWhole' /\ [BackNext]_allVars => BackInv'
    BY BackStep
  <1>6. QED
    BY <1>3, <1>4, <1>5, FrontEndInvariant, TranslatedTreeWhole, PTL DEF BackSpec

(* While the generated program runs it is always at a statement of its     *)
(* file, with the variables that were declared in the function it was      *)
(* started in, each of its type, and only the flags a comparison leaves:   *)
(* whatever the program, the answers to its comparisons and the length of  *)
(* the run.  A file is written exactly when Compile translates             *)
(* (compiler.java, the end of Compile; Target_Program).                    *)
THEOREM BackEndTypeCorrect == ClosedRecursion => (BackSpec => []BackTypeOK)
  <1> SUFFICES ASSUME ClosedRecursion PROVE BackSpec => []BackTypeOK
    OBVIOUS
  <1>1. BackInv => BackTypeOK
    <2> SUFFICES ASSUME BackInv PROVE BackTypeOK
      OBVIOUS
    <2>1. CASE running = "none"
      BY <2>1 DEF BackInv, BackTypeOK
    <2>2. CASE running # "none"
      <3>1. Runnable(cpp) /\ MachineOK(cpp, machine) /\ generation = "written"
        BY <2>2 DEF BackInv
      <3>2. machine.pc \in DOMAIN cpp /\ DOMAIN cpp = 1 .. Len(cpp) /\ Len(cpp) \in Nat
        <4>1. machine.pc \in DOMAIN cpp
          BY <3>1, EntryExtends DEF MachineOK, Runnable
        <4>2. QED
          BY <3>1, <4>1, AppendIsSeq DEF Runnable, IsText
      <3>3. machine.pc # 0
        BY <3>2
      <3>4. machine # Idle
        BY <3>3 DEF Idle
      <3>5. \A n \in DOMAIN machine.memory : machine.memory[n].type \in DataTypes \ {"void", "error"}
        BY <3>1 DEF MachineOK, Declarable, DataTypes
      <3>6. machine.flags \subseteq Branches /\ Len(machine.trace) <= MaxHappenings
        BY <3>1 DEF MachineOK
      <3>7. QED
        BY <2>2, <3>1, <3>2, <3>4, <3>5, <3>6 DEF BackInv, BackTypeOK
    <2>3. QED
      BY <2>1, <2>2
  <1>2. QED
    BY <1>1, BackInvariant, PTL

(* Of every file that is ever written, each jump leads to one label and    *)
(* only one, however the conditions, loops and connectives of the program  *)
(* are nested and however often something was compiled before: the labels  *)
(* of the three-address code come from a counter that is never reset, and  *)
(* each statement takes its own before or after its parts take theirs      *)
(* (Three_Address_Program.code_gen, Target_Program.add_a_C_Code2File).     *)
THEOREM EveryJumpLands == ClosedRecursion => (BackSpec => []JumpsLand)
  <1> SUFFICES ASSUME ClosedRecursion PROVE BackSpec => []JumpsLand
    OBVIOUS
  <1>1. BackInv => JumpsLand
    <2> SUFFICES ASSUME BackInv, NEW i \in DOMAIN cpp, cpp[i].stmt \in {"goto", "branch"}
                 PROVE  Cardinality(LabelsNamed(cpp[i].name)) = 1
      BY DEF JumpsLand
    <2>1. PICK P : TextBlock(cpp, P, P)
      BY DEF BackInv, IsFile
    <2>2. cpp[i].name \in P
      BY <2>1 DEF TextBlock
    <2>3. PICK k \in DOMAIN cpp : Stands(cpp, k, cpp[i].name)
      BY <2>1, <2>2 DEF TextBlock
    <2>4. \A j \in DOMAIN cpp : Stands(cpp, j, cpp[i].name) => j = k
      BY <2>1, <2>2, <2>3 DEF TextBlock
    <2>5. LabelsNamed(cpp[i].name) = {k}
      BY <2>3, <2>4 DEF LabelsNamed, Stands
    <2>6. QED
      BY <2>5, FS_Singleton
  <1>2. QED
    BY <1>1, BackInvariant, PTL
==============================================================================
