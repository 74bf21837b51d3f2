----------------------------- MODULE Translation -----------------------------
(***************************************************************************)
(* What a translation is to be: the front end's tree, its verdict and its  *)
(* messages, compared with the tree of the program and with the rules of   *)
(* the language.                                                           *)
(***************************************************************************)
EXTENDS FrontEnd, SourceRules

(* The tree of each program. *)
Source == [p \in DOMAIN Programs |-> Programs[p].trees[1]]

------------------------------------------------------------------------------
(* The tree a node stands for, names and declared types taken from the     *)
(* symbol table.                                                           *)
RECURSIVE Shape(_), Nodes(_)
Shape(n) ==
  [op   |-> n.op,
   text |-> IF n.op \in {"Identifier", "FormalParameter"} THEN symtab.symbols[n.sym].symbol
            ELSE IF n.op = "BooleanLiteral" THEN IF n.text = IntLit THEN True ELSE False
            ELSE n.text,
   type |-> IF n.op = "FormalParameter" THEN symtab.symbols[n.sym].datatype
            ELSE IF n.op = "var-declaration" THEN symtab.symbols[n.kids[1].sym].datatype
            ELSE None,
   kids |-> [i \in DOMAIN n.kids |-> Shape(n.kids[i])]]

(* A program that is accepted and translated is translated from its own    *)
(* tree: one root, every operand in its place, every name the one that was *)
(* written and of the type it was declared with.                           *)
TreeIsProgram ==
  outcome = "translated" /\ accepted /\ Plain =>
    /\ Len(ast.stack) = 1
    /\ Shape(ast.stack[1]) = Source[program]

Nodes(n) == {n} \cup UNION {Nodes(n.kids[i]) : i \in DOMAIN n.kids}

(* In a translated program every variable and every temporary of a method  *)
(* is a symbol of that method in that class, never one of another scope    *)
(* with the same name.                                                     *)
ResolvedInScope ==
  outcome = "translated" /\ accepted =>
    \A c \in Nodes(ast.stack[1]) : c.op = "class-definition" =>
      \A m \in Nodes(c.kids[3]) : m.op = "method-definition" =>
        \A n \in Nodes(m.kids[4]) \cup Nodes(m.kids[5]) :
          n.sym # 0 => InScope(symtab.symbols[n.sym], symtab.symbols[c.kids[2].sym].symbol,
                                                      symtab.symbols[m.kids[3].sym].symbol)

Mistakes == [p \in DOMAIN Programs |-> Errors(Source[p])]

(* What is parsed to its end and translated has no mistake but wrongly     *)
(* typed comparisons, of which the user is told, and nothing else is       *)
(* refused.                                                                *)
Judged(errors) ==
  /\ outcome = "translated" /\ accepted =>
       errors \subseteq {"condition"} /\ said = ("condition" \in errors)
  /\ outcome = "rejected" => ~(errors \subseteq {"condition"})

(* The verdict on a program is the one the rules of the language give.     *)
VerdictIsRight ==
  outcome \in {"translated", "rejected"} /\ ~symtab.overflowed /\ ~ast.broken /\ Plain
    => Judged(Mistakes[program])

(* Whoever is refused a translation is told why, unless the mistake is a   *)
(* method's name used twice (Rule_Method_def_name writes to standard       *)
(* output) or a literal divisor that Integer.parseInt refuses.             *)
RejectionExplained ==
  outcome = "rejected" /\ ~symtab.overflowed /\ ~ast.broken =>
    said \/ Mistakes[program] \cap {"method", "divisor"} # {}

(* How many nodes are on the stack at once while the tree is built: the    *)
(* operands of a node wait for those after them, and an assignment's value *)
(* comes before its lvalue.                                                *)
RECURSIVE Needed(_)
Needed(tree) ==
  LET pushed == IF tree.op = ":=" THEN Reverse(tree.kids) ELSE tree.kids
  IN  FoldLeft(LAMBDA most, n : IF n > most THEN n ELSE most, 1,
               [i \in DOMAIN pushed |-> i - 1 + Needed(pushed[i])])

NodesNeeded == [p \in DOMAIN Programs |-> Needed(Source[p])]

Connected == [p \in DOMAIN Script |-> Len(SelectSeq(Script[p], LAMBDA e : e.text = OrText))]

(* The stacks limit how deep a program is and how many || it has, and      *)
(* nothing else: that of nodes breaks only for a program that needs more   *)
(* nodes at once than it holds, no such program is translated from         *)
(* beginning to end, and that of tokens never holds more than an lvalue, a *)
(* value and the || read so far, which no reduction takes.                 *)
StacksLimitDepth ==
  /\ ast.broken => NodesNeeded[program] > MaxSizeOfStack
  /\ outcome = "translated" /\ accepted /\ Plain => NodesNeeded[program] <= MaxSizeOfStack
  /\ program # NoProgram => Len(tokenStack) <= Connected[program] + 2

(* A class may stand where a statement may ("<Access-Modifier> 'class'     *)
(* <Class-definition>" under <Statement>, csharp.grm): a program whose     *)
(* only peculiarity that is, is not rejected.                              *)
NestedClassAccepted == outcome = "rejected" => Mistakes[program] # {"nested"}

(* Code is not generated from a program in which a type error was reported *)
(* ("3-Address code cannot be generated: source contains type error(s)",   *)
(* Three_Address_Program.java:55).                                         *)
TypeErrorsNotTranslated == outcome = "translated" /\ accepted => ~said
==============================================================================
