----------------------------- MODULE Compilation -----------------------------
(***************************************************************************)
(* What a compilation is to be: the C++ that is written and what it does   *)
(* when it runs, compared with the program and what it means.              *)
(***************************************************************************)
EXTENDS BackEnd, Translation, SourceMeaning

------------------------------------------------------------------------------
(* A program whose generated C++ there is something to say about: parsed   *)
(* to its end, without a mistake and without an identifier that is a name  *)
(* of the grammar.                                                         *)
Faultless == accepted /\ Plain /\ Mistakes[program] = {}

MembersOf(trees, op) == SelectSeq(trees, LAMBDA tree : tree.op = op)
Methods(tree) ==
  FoldLeft(LAMBDA acc, c : acc \o MembersOf(Members(c.kids[3]), "method-definition"),
           <<>>, MembersOf(Members(tree), "class-definition"))
MethodNames(tree) == LET ms == Methods(tree) IN [i \in DOMAIN ms |-> ms[i].kids[3].text]

InSingleQuotes(n) == n.op = "StringLiteral" /\ n.text \in SingleQuoted

(* What the C++ program does is what the source program means, in the      *)
(* order in which it happens and whatever the comparisons answer, and it   *)
(* ends where the source program does (code_gen with its jumps, labels and *)
(* temporaries).                                                           *)
AsTheSource ==
  LET method == CHOOSE n \in Range(Methods(Source[program])) : n.kids[3].text = EntryPoint
      more   == IF running = "ended" THEN 1 ELSE 0
  IN  Run(method, machine.trace, Len(machine.trace) + more).trace = machine.trace

MeaningPreserved ==
  /\ running # "none" /\ Faultless
  /\ ~\E n \in Nodes(Source[program]) : InSingleQuotes(n)
  => AsTheSource

(* Why g++ refuses the C++ of a program that has no mistake: classes are   *)
(* dropped, so their methods' names meet; a block's jump skips a string    *)
(* declared in it; a name means something in C++; a literal in single      *)
(* quotes is compared with a string.                                       *)
MethodsMeet(tree) ==
  \E i, j \in DOMAIN MethodNames(tree) : i # j /\ MethodNames(tree)[i] = MethodNames(tree)[j]
StringInBlock(m) ==
  \E n \in Nodes(m) : /\ n.op \in {"while", "if-then-endif", "if-then-else-endif"}
                      /\ \E d \in Nodes(n) : d.op = "var-declaration" /\ d.type = "string"
Reserved(m) ==
  \E n \in Nodes(m) : \/ n.op \in {"var-declaration", "method-definition"}
                          /\ DeclaredName(n) \in CppWords
                      \/ n.op = "FormalParameter" /\ n.text \in CppWords
CharacterCompared(m) ==
  \E n \in Nodes(m) : /\ n.op \in {"==", "!="}
                      /\ InSingleQuotes(n.kids[1]) # InSingleQuotes(n.kids[2])

(* g++ accepts the C++ of a program without mistakes exactly when none of  *)
(* four things is the matter with it: every function once, every local     *)
(* declared once and before it is used, every label there exactly once,    *)
(* every operand of a type its operator takes (Target_Program).            *)
CppAccepted ==
  generation = "written" /\ running = "none" /\ Faultless =>
    (Accepted(cpp) <=>
       /\ ~MethodsMeet(Source[program])
       /\ \A m \in Range(Methods(Source[program])) :
            ~StringInBlock(m) /\ ~Reserved(m) /\ ~CharacterCompared(m))

(* The C++ file is only ever replaced by a whole program: all the methods  *)
(* of the source, in order and each to its end (the limit on the           *)
(* three-address code).                                                    *)
Marks == SelectSeq(cpp', LAMBDA s : s.stmt \in {"function", "return"})
WholeFile ==
  (accepted /\ Plain)' =>
    LET names == MethodNames(Source[program'])
    IN  /\ Len(Marks) = 2 * Len(names)
        /\ \A i \in DOMAIN names : Marks[2 * i - 1].name = names[i] /\ Marks[2 * i].name = names[i]
OnlyWholeFiles == [][WholeFile]_cpp

(* A generated program that is run comes to its end, or does as many       *)
(* things as the model lets it: no jump of its code leads it round without *)
(* anything being done, and it is never stuck at a statement.              *)
Progress == running = "runs" ~> (running = "ended" \/ Len(machine.trace) = MaxHappenings)

(* What Compile calls a success is C++ that can be linked ("compilation    *)
(* works...proceed to link", MainWindow.java).                             *)
CompiledLinks == generation = "written" /\ Faultless => Accepted(cpp)
==============================================================================
