------------------------------- MODULE BackEnd -------------------------------
(***************************************************************************)
(* The whole way of a program: the front end, the generation of            *)
(* three-address code and of C++ from its tree at the end of Compile       *)
(* (src/src/yipada/compiler.java, lines 1013 to 1042), and what the C++    *)
(* program does when it is run.                                            *)
(*                                                                         *)
(* The next compilation waits until the program that runs has ended; the   *)
(* two share nothing but the files, of which IdeSession is the model.      *)
(***************************************************************************)
EXTENDS FrontEnd, CppMachine

CONSTANT MaxHappenings    (* bound on what one run does *)

ASSUME BackEndAssumption == MaxSizeOfProgram \in Nat /\ MaxHappenings \in Nat

VARIABLES
  labels,       (* the static iIndexOfLabelGenerated                       *)
  generation,   (* "none", "written" or "failed": of the last compilation  *)
  cpp,          (* the C++ file                                            *)
  running,      (* "none", "runs" or "ended"                               *)
  machine       (* the program that runs, or ran                           *)

execution == <<running, machine>>
generated == <<labels, generation, cpp>>
allVars   == <<vars, generated, execution>>

BackInit ==
  /\ Init
  /\ labels = 0
  /\ generation = "none"
  /\ cpp = <<>>
  /\ running = "none"
  /\ machine = Idle

StartCompiling(p) ==
  /\ running # "runs"
  /\ StartCompile(p)
  /\ generation' = "none"
  /\ running' = "none"
  /\ machine' = Idle
  /\ UNCHANGED <<labels, cpp>>

Parsing ==
  /\ \/ TokenRead
     \/ \E op \in Operators : Build(op)
     \/ Rule_No_Parameters \/ Rule_Basic_Types \/ Rule_Access_Modifier \/ Rule_Return_Type
     \/ Rule_Var_declaration \/ Rule_Parameter \/ Rule_Assignment \/ Rule_Read_statement
     \/ Rule_Value_Id \/ Rule_Value_Literal \/ Rule_Value_Parentheses
     \/ Rule_Class_def_name \/ Rule_Method_def_name
     \/ ParserRejects \/ Accept
  /\ UNCHANGED <<generated, execution>>

(* What fits into the array is written. *)
GenerateWhatFits ==
  LET g == GenerateCode(Last(ast.stack), labels)
  IN  /\ labels' = g.labels
      /\ generation' = "written"
      /\ cpp' = add_C_Codes2File(symtab,
                  SubSeq(g.code, 1, IF TooLong(g.code) THEN MaxSizeOfProgram ELSE Len(g.code)))

(* Reading back a code that overran the array throws, and nothing has been *)
(* written yet.                                                            *)
Generate ==
  LET g == GenerateCode(Last(ast.stack), labels)
  IN  /\ labels' = g.labels
      /\ IF TooLong(g.code)
           THEN generation' = "failed" /\ UNCHANGED cpp
           ELSE generation' = "written" /\ cpp' = add_C_Codes2File(symtab, g.code)

(* No code either when something was reported. *)
DecideUnlessReported ==
  /\ Decide
  /\ IF outcome' = "translated" /\ ~said THEN Generate ELSE UNCHANGED generated
  /\ UNCHANGED execution

DecideAndGenerate ==
  /\ Decide
  /\ IF outcome' = "translated" THEN Generate ELSE UNCHANGED generated
  /\ UNCHANGED execution

RunProgram ==
  /\ phase = "idle" /\ generation = "written" /\ running = "none"
  /\ Accepted(cpp) /\ Entry(cpp) # {}
  /\ running' = "runs"
  /\ machine' = Started(cpp)
  /\ UNCHANGED <<vars, generated>>

Return ==
  /\ running = "runs"
  /\ cpp[machine.pc].stmt = "return"
  /\ running' = "ended"
  /\ UNCHANGED <<vars, generated, machine>>

Obey(answer) ==
  /\ running = "runs"
  /\ cpp[machine.pc].stmt # "return"
  /\ Seen(cpp[machine.pc]) => Len(machine.trace) < MaxHappenings
  /\ answer \in AnswersTo(cpp, machine)
  /\ machine' = Obeyed(cpp, machine, answer)
  /\ UNCHANGED <<vars, generated, running>>

BackNext ==
  \/ \E p \in DOMAIN Script : StartCompiling(p)
  \/ Parsing \/ DecideAndGenerate \/ RunProgram \/ Return
  \/ \E answer \in {"none", "<", "=", ">", "unordered"} : Obey(answer)

BackSpec == BackInit /\ [][BackNext]_allVars

(* The generated program runs on while it can. *)
LiveSpec ==
  BackSpec /\ WF_allVars(Return \/ \E answer \in {"none", "<", "=", ">", "unordered"} : Obey(answer))

------------------------------------------------------------------------------
(* The generated program has its variables, its flags and a place in the   *)
(* file while it runs; a file is there once one was written.               *)
BackTypeOK ==
  /\ labels \in Nat
  /\ generation \in {"none", "written", "failed"}
  /\ (generation # "none") <=> (outcome = "translated")
  /\ running \in {"none", "runs", "ended"}
  /\ running = "none" <=> machine = Idle
  /\ running # "none" =>
       /\ generation = "written"
       /\ machine.pc \in DOMAIN cpp
       /\ machine.flags \subseteq Branches
       /\ \A n \in DOMAIN machine.memory : machine.memory[n].type \in DataTypes \ {"void", "error"}
       /\ Len(machine.trace) <= MaxHappenings

(* Wherever a jump of the file leads, there is one label and only one:     *)
(* labels are taken from a counter before the parts of a statement are     *)
(* generated, which take theirs from it too, and placed after them         *)
(* (code_gen_4_While_expression and the others), and g++ and the program   *)
(* that runs depend on each being there once.                              *)
LabelsNamed(l) == {i \in DOMAIN cpp : cpp[i].stmt = "label" /\ cpp[i].name = l}
JumpsLand ==
  \A i \in DOMAIN cpp :
    cpp[i].stmt \in {"goto", "branch"} => Cardinality(LabelsNamed(cpp[i].name)) = 1
==============================================================================
