--------------------------- MODULE IdeSessionProofs ---------------------------
(***************************************************************************)
(* Proofs about IdeSession, for any number of compilations, of runs and of *)
(* lines the user enters.                                                  *)
(***************************************************************************)
EXTENDS IdeSession, FiniteSetTheorems, TLAPS

------------------------------------------------------------------------------
(* The type invariant.  Until a compilation has ended, the last that       *)
(* succeeded is an earlier one; the source file holds the last text unless *)
(* it could not be written; and no process works on a text that does not   *)
(* exist.                                                                  *)

CompilingIsLater == edt \in {"compiling", "saving"} => compiled < version

TextSaved == version \notin unsaved => text = version

InputsExist ==
  \A c \in DOMAIN commands : commands[c].input \in (0 .. version) \cup {Partial}

TypeInv == TypeOK /\ CompilingIsLater /\ TextSaved /\ InputsExist

(* What TypeOK says of the event thread and the files. *)
FilesOK ==
  /\ edt \in {"idle", "compiling", "saving", "linking", "sending"}
  /\ version \in 0 .. MaxCompiles
  /\ text \in 0 .. version
  /\ compiled \in 0 .. version
  /\ unsaved \subseteq 1 .. version
  /\ IF edt = "saving" THEN cpp = Partial
     ELSE cpp \in (0 .. version) \cup {Partial} /\ (compiled \notin unsaved => cpp = compiled)
  /\ exe \in 0 .. version
  /\ CompilingIsLater
  /\ TextSaved

LEMMA InitTypeInv == Init => TypeInv
<1> SUFFICES ASSUME Init PROVE TypeInv
  OBVIOUS
<1>1. linker \in BOOLEAN /\ runEnabled \in BOOLEAN
  BY DEF Init
<1>2. /\ FilesOK
      /\ out \in {0} \cup DOMAIN commands
      /\ overlapped \subseteq DOMAIN commands
  BY IdeAssumption DEF Init, FilesOK, CompilingIsLater, TextSaved
<1>3. /\ commands \in Seq(Command) /\ received \in Seq(DOMAIN commands) /\ InputsExist
      /\ thrown \in 0 .. MaxThrows
  BY IdeAssumption DEF Init, InputsExist
<1> QED
  BY <1>1, <1>2, <1>3 DEF TypeInv, TypeOK, FilesOK

(* A thread is started behind those that were started before. *)
LEMMA StartThreadEffect ==
  ASSUME TypeInv, NEW kind \in Kinds, StartThread(kind)
  PROVE  /\ commands' \in Seq(Command)
         /\ Len(commands') = Len(commands) + 1
         /\ DOMAIN commands = 1 .. Len(commands)
         /\ DOMAIN commands' = 1 .. Len(commands) + 1
         /\ Len(commands) \in Nat
         /\ \A c \in DOMAIN commands : commands'[c] = commands[c]
         /\ commands'[Len(commands) + 1] = NewCommand(kind)
         /\ overlapped' \subseteq DOMAIN commands'
         /\ received' = received => received' \in Seq(DOMAIN commands')
<1>1. compiled \in Nat /\ commands \in Seq(Command) /\ overlapped \subseteq DOMAIN commands
  BY IdeAssumption DEF TypeInv, TypeOK
<1>2. NewCommand(kind) \in Command
  BY <1>1 DEF NewCommand, Command, Kinds, Phases
<1>3. commands' = Append(commands, NewCommand(kind))
  BY DEF StartThread
<1> DEFINE new == NewCommand(kind)
<1>4. /\ commands' \in Seq(Command)
      /\ Len(commands') = Len(commands) + 1
      /\ DOMAIN commands = 1 .. Len(commands)
      /\ DOMAIN commands' = 1 .. Len(commands) + 1
      /\ Len(commands) \in Nat
      /\ \A c \in DOMAIN commands : commands'[c] = commands[c]
      /\ commands'[Len(commands) + 1] = new
  <2> HIDE DEF new
  <2>1. new \in Command /\ commands' = Append(commands, new)
    BY <1>2, <1>3 DEF new
  <2> QED
    BY <1>1, <2>1
<1>5. Alive \subseteq DOMAIN commands
  BY DEF Alive
<1>6. overlapped' \subseteq DOMAIN commands'
  BY <1>1, <1>4, <1>5 DEF StartThread
<1>7. received' = received => received' \in Seq(DOMAIN commands')
  <2>1. received \in Seq(DOMAIN commands) /\ DOMAIN commands \subseteq DOMAIN commands'
    BY <1>4 DEF TypeInv, TypeOK
  <2> HIDE DEF new
  <2> QED
    BY <2>1
<1> QED
  BY <1>4, <1>6, <1>7

(* What a step of a command changes: its own record, and not its kind.     *)
(* Only a command that is alive takes one.                                 *)
CommandStep(c) ==
  ThreadStep(c) \/ GccReads(c) \/ GccWrites(c) \/ ChildExits(c)

LEMMA CommandStepEffect ==
  ASSUME TypeInv, NEW c \in DOMAIN commands, CommandStep(c)
  PROVE  /\ commands' \in Seq(Command)
         /\ DOMAIN commands' = DOMAIN commands
         /\ Len(commands') = Len(commands)
         /\ \A d \in DOMAIN commands : d # c => commands'[d] = commands[d]
         /\ commands'[c].kind = commands[c].kind
         /\ commands'[c].source = commands[c].source
         /\ commands'[c].input \in (0 .. version) \cup {Partial}
         /\ UNCHANGED <<edt, source, cpp, menu, received, overlapped>>
         /\ c \in Alive
<1> USE IdeAssumption
<1>1. /\ commands \in Seq(Command) /\ commands[c] \in Command
      /\ exe \in 0 .. version /\ version \in Nat
      /\ cpp \in (0 .. version) \cup {Partial}
      /\ commands[c].input \in (0 .. version) \cup {Partial}
  BY DEF TypeInv, TypeOK, InputsExist
<1>2. PICK r \in Command :
        /\ commands' = [commands EXCEPT ![c] = r]
        /\ r.kind = commands[c].kind
        /\ r.source = commands[c].source
        /\ r.input \in (0 .. version) \cup {Partial}
  <2>1. CASE Exec(c)
    <3> DEFINE x == IF commands[c].kind = "run" THEN exe ELSE 0
               r == [commands[c] EXCEPT !.phase = "executing", !.child = "running",
                                        !.input = x]
    <3>1. commands' = [commands EXCEPT ![c] = r]
      BY <1>1, <2>1 DEF Exec
    <3>2. x \in (0 .. version) \cup {Partial} /\ x \in Nat \cup {Partial}
      BY <1>1
    <3> HIDE DEF x
    <3>3. r \in Command
      BY <1>1, <3>2 DEF Command, Phases
    <3>4. r.kind = commands[c].kind /\ r.source = commands[c].source /\ r.input = x
      BY <1>1 DEF Command
    <3> QED BY <3>1, <3>2, <3>3, <3>4
  <2>2. ASSUME NEW phase \in Phases, commands' = [commands EXCEPT ![c].phase = phase]
        PROVE  \E r \in Command :
                 /\ commands' = [commands EXCEPT ![c] = r]
                 /\ r.kind = commands[c].kind
                 /\ r.source = commands[c].source
                 /\ r.input \in (0 .. version) \cup {Partial}
    <3> DEFINE r == [commands[c] EXCEPT !.phase = phase]
    <3>1. r \in Command /\ r.kind = commands[c].kind /\ r.source = commands[c].source
          /\ r.input \in (0 .. version) \cup {Partial}
      BY <1>1 DEF Command
    <3>2. commands' = [commands EXCEPT ![c] = r]
      BY <1>1, <2>2
    <3> QED BY <3>1, <3>2
  <2>3. CASE Attach(c) \/ WaitFor(c) \/ CompleteThrows(c) \/ Throws(c) \/ Recover(c)
    <3>1. \E phase \in Phases : commands' = [commands EXCEPT ![c].phase = phase]
      BY <2>3 DEF Attach, WaitFor, CompleteThrows, Throws, Recover, Phases
    <3> QED
      BY <2>2, <3>1
  <2>4. CASE GccReads(c)
    <3> DEFINE r == [commands[c] EXCEPT !.input = cpp]
    <3>1. commands' = [commands EXCEPT ![c] = r]
      BY <1>1, <2>4 DEF GccReads
    <3>2. cpp \in (0 .. version) \cup {Partial} /\ cpp \in Nat \cup {Partial}
      BY <1>1
    <3>3. r \in Command
      BY <1>1, <3>2 DEF Command
    <3>4. r.kind = commands[c].kind /\ r.source = commands[c].source /\ r.input = cpp
      BY <1>1 DEF Command
    <3> QED BY <3>1, <3>2, <3>3, <3>4
  <2>5. CASE GccWrites(c)
    <3> DEFINE r == [commands[c] EXCEPT !.wrote = TRUE]
    <3>1. r \in Command /\ r.kind = commands[c].kind /\ r.source = commands[c].source
          /\ r.input \in (0 .. version) \cup {Partial}
      BY <1>1 DEF Command
    <3>2. commands' = [commands EXCEPT ![c] = r]
      BY <1>1, <2>5 DEF GccWrites
    <3> QED BY <3>1, <3>2
  <2>6. CASE ChildExits(c)
    <3> DEFINE r == [commands[c] EXCEPT !.child = "exited"]
    <3>1. r \in Command /\ r.kind = commands[c].kind /\ r.source = commands[c].source
          /\ r.input \in (0 .. version) \cup {Partial}
      BY <1>1 DEF Command
    <3>2. commands' = [commands EXCEPT ![c] = r]
      BY <1>1, <2>6 DEF ChildExits
    <3> QED BY <3>1, <3>2
  <2> QED
    BY <2>1, <2>3, <2>4, <2>5, <2>6 DEF CommandStep, ThreadStep
<1>3. /\ commands' \in Seq(Command)
      /\ DOMAIN commands' = DOMAIN commands
      /\ Len(commands') = Len(commands)
      /\ \A d \in DOMAIN commands : d # c => commands'[d] = commands[d]
      /\ commands'[c] = r
  BY <1>1, <1>2
<1>4. UNCHANGED <<edt, source, cpp, menu, received, overlapped>>
  BY DEF CommandStep, ThreadStep, Exec, Attach, WaitFor, CompleteThrows, Throws, Recover,
         GccReads, GccWrites, ChildExits, files, source, menu
<1>5. c \in Alive
  <2>1. commands[c].phase \in {"started", "executing", "attached", "failed"} \/ Runs(c)
    BY DEF CommandStep, ThreadStep, Exec, Attach, WaitFor, CompleteThrows, Throws, Recover,
           GccReads, GccWrites, ChildExits
  <2> QED
    BY <2>1 DEF Alive, Runs
<1> QED
  BY <1>2, <1>3, <1>4, <1>5

LEMMA StepTypeInv == TypeInv /\ [Next]_vars => TypeInv'
<1> SUFFICES ASSUME TypeInv, [Next]_vars PROVE TypeInv'
  OBVIOUS
<1> USE IdeAssumption
<1>0. /\ FilesOK
      /\ version \in Nat
      /\ commands \in Seq(Command)
      /\ out \in {0} \cup DOMAIN commands
      /\ received \in Seq(DOMAIN commands)
      /\ thrown \in 0 .. MaxThrows
      /\ overlapped \subseteq DOMAIN commands
      /\ InputsExist
  BY DEF TypeInv, TypeOK, FilesOK
<1>00. linker \in BOOLEAN /\ runEnabled \in BOOLEAN
  BY DEF TypeInv, TypeOK
<1>a. ASSUME FilesOK', InputsExist',
             UNCHANGED <<menu, commands, out, received, thrown, overlapped>>
      PROVE  TypeInv'
  BY <1>0, <1>00, <1>a DEF TypeInv, TypeOK, FilesOK, menu
<1>1. CASE Compile
  <2>0. /\ version \in 0 .. MaxCompiles /\ text \in 0 .. version /\ compiled \in 0 .. version
        /\ unsaved \subseteq 1 .. version /\ exe \in 0 .. version
        /\ cpp \in (0 .. version) \cup {Partial}
        /\ compiled \notin unsaved => cpp = compiled
    BY <1>0, <1>1 DEF FilesOK, Compile
  <2>3. /\ version' = version + 1 /\ version' \in 0 .. MaxCompiles
        /\ edt' = "compiling"
        /\ UNCHANGED <<compiled, cpp, exe>>
    BY <2>0, <1>1 DEF Compile
  <2>4. /\ unsaved' \subseteq 1 .. version'
        /\ unsaved \subseteq unsaved'
        /\ text' \in 0 .. version'
        /\ TextSaved'
    <3>1. CASE text' = version + 1 /\ UNCHANGED unsaved
      BY <2>0, <2>3, <3>1 DEF TextSaved
    <3>2. CASE text' \in {text, 0} /\ unsaved' = unsaved \cup {version + 1}
      BY <2>0, <2>3, <3>2 DEF TextSaved
    <3> QED
      BY <1>1, <3>1, <3>2 DEF Compile
  <2>5. /\ compiled' \in 0 .. version' /\ exe' \in 0 .. version'
        /\ cpp' \in (0 .. version') \cup {Partial}
        /\ compiled' < version'
    BY <2>0, <2>3
  <2>6. compiled' \notin unsaved' => cpp' = compiled'
    BY <2>0, <2>3, <2>4
  <2>1. FilesOK'
    BY <2>3, <2>4, <2>5, <2>6 DEF FilesOK, CompilingIsLater
  <2>2. InputsExist'
    BY <1>0, <1>1 DEF InputsExist, Compile
  <2> QED
    BY <1>1, <1>a, <2>1, <2>2 DEF Compile
<1>2. CASE CompileFails \/ BeginSave \/ EndSave \/ SaveFails
  <2>1. FilesOK'
    <3>1. CASE CompileFails
      BY <1>0, <3>1 DEF FilesOK, CompilingIsLater, TextSaved, CompileFails, files, source
    <3>2. CASE BeginSave
      BY <1>0, <3>2 DEF FilesOK, CompilingIsLater, TextSaved, BeginSave, source
    <3>3. CASE EndSave
      BY <1>0, <3>3 DEF FilesOK, CompilingIsLater, TextSaved, EndSave
    <3>4. CASE SaveFails
      BY <1>0, <3>4 DEF FilesOK, CompilingIsLater, TextSaved, SaveFails
    <3> QED
      BY <1>2, <3>1, <3>2, <3>3, <3>4
  <2>2. /\ UNCHANGED <<version, menu, commands, out, received, thrown, overlapped>>
    BY <1>2 DEF CompileFails, BeginSave, EndSave, SaveFails, files, source
  <2>3. InputsExist'
    BY <1>0, <2>2 DEF InputsExist
  <2> QED
    BY <1>a, <2>1, <2>2, <2>3
<1>3. ASSUME NEW kind \in Kinds, StartThread(kind), UNCHANGED <<files, out, received, thrown>>,
             edt' \in {"idle"}, edt \in {"idle", "linking"}, linker' \in BOOLEAN,
             runEnabled' \in BOOLEAN
      PROVE  TypeInv'
  <2>1. /\ commands' \in Seq(Command)
        /\ DOMAIN commands = 1 .. Len(commands)
        /\ DOMAIN commands' = 1 .. Len(commands) + 1
        /\ Len(commands) \in Nat
        /\ \A c \in DOMAIN commands : commands'[c] = commands[c]
        /\ commands'[Len(commands) + 1] = NewCommand(kind)
        /\ overlapped' \subseteq DOMAIN commands'
    BY <1>3, StartThreadEffect
  <2>2. NewCommand(kind).input = 0
    BY DEF NewCommand
  <2>3. InputsExist'
    BY <1>0, <1>3, <2>1, <2>2 DEF InputsExist, files, source
  <2>4. out' \in {0} \cup DOMAIN commands'
    BY <1>0, <1>3, <2>1
  <2>5. FilesOK' /\ thrown' \in 0 .. MaxThrows
    BY <1>0, <1>3 DEF FilesOK, CompilingIsLater, TextSaved, files, source
  <2>6. received' \in Seq(DOMAIN commands')
    BY <1>3, StartThreadEffect
  <2> QED
    BY <1>3, <2>1, <2>3, <2>4, <2>5, <2>6 DEF TypeInv, TypeOK, FilesOK
<1>4. CASE Link
  <2>1. /\ StartThread("link") /\ UNCHANGED <<files, out, received, thrown>> /\ edt = "linking"
        /\ edt' = "idle" /\ linker' = TRUE /\ runEnabled' = TRUE
    BY <1>4 DEF Link
  <2> QED
    BY <1>3, <2>1 DEF Kinds
<1>5. CASE Run
  <2>1. CASE linker
    BY <1>0, <1>3, <1>5, <2>1 DEF Run, Kinds
  <2>2. CASE ~linker
    BY <1>0, <1>00, <1>5, <2>2 DEF TypeInv, TypeOK, FilesOK, CompilingIsLater, TextSaved, InputsExist, Run,
                                   files, source
  <2> QED BY <2>1, <2>2
<1>6. CASE Enter
  <2>1. edt = "idle" /\ edt' = "sending"
    BY <1>6 DEF Enter
  <2>2. /\ UNCHANGED <<version, text, compiled, unsaved, cpp, exe>>
        /\ UNCHANGED <<linker, runEnabled, commands, out, received, thrown, overlapped>>
    BY <1>6 DEF Enter, files, source, menu
  <2>3. InputsExist'
    BY <1>0, <2>1, <2>2 DEF InputsExist
  <2>4. linker' \in BOOLEAN /\ runEnabled' \in BOOLEAN
    BY <1>00, <2>2
  <2>5. FilesOK'
    BY <1>0, <2>1, <2>2 DEF FilesOK, CompilingIsLater, TextSaved
  <2> QED
    BY <1>0, <2>1, <2>2, <2>3, <2>4, <2>5 DEF TypeInv, TypeOK, FilesOK
<1>7. CASE Send
  <2>1. received' \in Seq(DOMAIN commands)
    <3>1. CASE UNCHANGED received
      BY <1>0, <3>1
    <3>2. CASE out # 0 /\ received' = Append(received, out)
      BY <1>0, <3>2
    <3> QED
      BY <1>7, <3>1, <3>2 DEF Send
  <2>2. FilesOK' /\ InputsExist'
    BY <1>0, <1>7 DEF FilesOK, CompilingIsLater, TextSaved, InputsExist, Send, files, source
  <2> QED
    BY <1>0, <1>00, <1>7, <2>1, <2>2 DEF TypeInv, TypeOK, FilesOK, Send, menu
<1>8. ASSUME NEW c \in DOMAIN commands, CommandStep(c) PROVE TypeInv'
  <2>1. /\ commands' \in Seq(Command)
        /\ DOMAIN commands' = DOMAIN commands
        /\ \A d \in DOMAIN commands : d # c => commands'[d] = commands[d]
        /\ commands'[c].input \in (0 .. version) \cup {Partial}
        /\ UNCHANGED <<edt, source, cpp, menu, received, overlapped>>
    BY <1>8, CommandStepEffect
  <2>2. InputsExist'
    BY <1>0, <2>1 DEF InputsExist, source
  <2>3. exe' \in 0 .. version
    BY <1>0, <1>8 DEF CommandStep, ThreadStep, Exec, Attach, WaitFor, CompleteThrows, Throws,
                      Recover, GccReads, GccWrites, ChildExits, files, InputsExist, FilesOK
  <2>4. out' \in {0} \cup DOMAIN commands
    BY <1>0, <1>8 DEF CommandStep, ThreadStep, Exec, Attach, WaitFor, CompleteThrows, Throws,
                      Recover, GccReads, GccWrites, ChildExits
  <2>5. thrown' \in 0 .. MaxThrows
    <3>1. thrown' = thrown \/ (thrown < MaxThrows /\ thrown' = thrown + 1)
      BY <1>8 DEF CommandStep, ThreadStep, Exec, Attach, WaitFor, CompleteThrows, Throws,
                  Recover, GccReads, GccWrites, ChildExits
    <3> QED
      BY <1>0, <3>1
  <2>6. received' \in Seq(DOMAIN commands')
    BY <1>0, <2>1
  <2>7. FilesOK'
    BY <1>0, <2>1, <2>3 DEF FilesOK, CompilingIsLater, TextSaved, source
  <2> QED
    BY <1>0, <1>00, <2>1, <2>2, <2>4, <2>5, <2>6, <2>7 DEF TypeInv, TypeOK, FilesOK, menu
<1>9. CASE UNCHANGED vars
  <2>1. FilesOK' /\ InputsExist'
    BY <1>0, <1>9 DEF FilesOK, CompilingIsLater, TextSaved, InputsExist, vars, files, source
  <2> QED
    BY <1>9, <1>a, <2>1 DEF vars
<1> QED
  BY <1>1, <1>2, <1>4, <1>5, <1>6, <1>7, <1>8, <1>9 DEF Next, CommandStep

(* The variables keep their types, and the C++ file is the translation of  *)
(* the text compiled last except while it is written, or if it could not   *)
(* be.                                                                     *)
THEOREM SessionTypeOK == Spec => []TypeOK
<1>1. TypeInv => TypeOK
  BY DEF TypeInv
<1> QED
  BY <1>1, InitTypeInv, StepTypeInv, PTL DEF Spec

------------------------------------------------------------------------------
(* No command that comes to its end leaves its input behind, not even by   *)
(* an exception: it takes out when it attaches, and whatever ends its      *)
(* thread in order sets out to null (CommandProcessor.run).                *)
THEOREM OutAliveHolds == Spec => []OutAlive
<1>1. Init => OutAlive
  BY DEF Init, OutAlive
<1>2. TypeInv /\ OutAlive /\ [Next]_vars => OutAlive'
  <2> SUFFICES ASSUME TypeInv, OutAlive, [Next]_vars PROVE OutAlive'
    OBVIOUS
  <2>0. commands \in Seq(Command) /\ out \in {0} \cup DOMAIN commands
    BY DEF TypeInv, TypeOK
  <2>1. ASSUME NEW kind \in Kinds, StartThread(kind), out' = out PROVE OutAlive'
    BY <2>0, <2>1, StartThreadEffect DEF OutAlive
  <2>2. CASE Link
    BY <2>1, <2>2 DEF Link, Kinds
  <2>3. CASE Run
    BY <2>1, <2>3 DEF Run, Kinds, OutAlive
  <2>4. CASE Compile \/ CompileFails \/ BeginSave \/ EndSave \/ SaveFails \/ Enter \/ Send
    BY <2>4 DEF Compile, CompileFails, BeginSave, EndSave, SaveFails, Enter, Send, OutAlive
  <2>5. ASSUME NEW c \in DOMAIN commands, CommandStep(c) PROVE OutAlive'
    <3>1. CASE Exec(c)
      BY <2>0, <3>1 DEF Exec, OutAlive
    <3>2. CASE Attach(c)
      <4>1. out' = c /\ commands[c] \in Command
            /\ commands' = [commands EXCEPT ![c].phase = "attached"]
        BY <2>0, <3>2 DEF Attach
      <4>2. commands'[c].phase = "attached"
        BY <2>0, <4>1 DEF Command
      <4> QED
        BY <4>1, <4>2 DEF OutAlive
    <3>3. CASE WaitFor(c) \/ CompleteThrows(c) \/ Recover(c)
      BY <3>3 DEF WaitFor, CompleteThrows, Recover, OutAlive
    <3>4. CASE Throws(c)
      <4>1. PICK phase \in {"failed", IF commands[c].phase = "attached" THEN "dead" ELSE "done"} :
              commands' = [commands EXCEPT ![c].phase = phase]
        BY <3>4 DEF Throws
      <4>2. commands[c] \in Command /\ commands'[c] = [commands[c] EXCEPT !.phase = phase]
        BY <2>0, <2>5, <4>1
      <4>3. commands'[c].phase = phase
        BY <4>2 DEF Command
      <4>4. out' = out /\ commands[c].phase \in {"started", "attached"}
        BY <3>4 DEF Throws
      <4>5. \A d \in DOMAIN commands : d # c => commands'[d] = commands[d]
        BY <2>0, <4>1
      <4> QED
        BY <2>0, <4>1, <4>3, <4>4, <4>5 DEF OutAlive
    <3>5. CASE GccReads(c)
      <4>1. out' = out /\ commands[c] \in Command
            /\ commands' = [commands EXCEPT ![c].input = cpp]
        BY <2>0, <3>5 DEF GccReads
      <4>2. \A d \in DOMAIN commands : commands'[d].phase = commands[d].phase
        BY <2>0, <4>1 DEF Command
      <4> QED
        BY <2>0, <4>1, <4>2 DEF OutAlive
    <3>6. CASE GccWrites(c)
      BY <2>0, <3>6 DEF GccWrites, OutAlive, Command
    <3>7. CASE ChildExits(c)
      BY <2>0, <3>7 DEF ChildExits, OutAlive, Command
    <3> QED
      BY <2>5, <3>1, <3>2, <3>3, <3>4, <3>5, <3>6, <3>7 DEF CommandStep, ThreadStep
  <2>6. CASE UNCHANGED vars
    BY <2>6 DEF OutAlive, vars
  <2> QED
    BY <2>2, <2>3, <2>4, <2>5, <2>6 DEF Next, CommandStep
<1> QED
  BY <1>1, <1>2, InitTypeInv, StepTypeInv, PTL DEF Spec

------------------------------------------------------------------------------
(* What keeps LoneCommandHasInput: of two commands that are alive, both    *)
(* have been recorded as overlapped, so that a command which is not is the *)
(* only one that can take or give up out.                                  *)
TogetherOverlapped == \A c, d \in Alive : c # d => c \in overlapped

LoneInv == TogetherOverlapped /\ LoneCommandHasInput

LEMMA StepTogether == TypeInv /\ TogetherOverlapped /\ [Next]_vars => TogetherOverlapped'
<1> SUFFICES ASSUME TypeInv, TogetherOverlapped, [Next]_vars PROVE TogetherOverlapped'
  OBVIOUS
<1>0. ASSUME UNCHANGED <<commands, overlapped>> PROVE TogetherOverlapped'
  BY <1>0 DEF TogetherOverlapped, Alive
<1>1. ASSUME NEW kind \in Kinds, StartThread(kind) PROVE TogetherOverlapped'
  <2>1. /\ DOMAIN commands = 1 .. Len(commands)
        /\ DOMAIN commands' = 1 .. Len(commands) + 1
        /\ Len(commands) \in Nat
        /\ \A c \in DOMAIN commands : commands'[c] = commands[c]
    BY <1>1, StartThreadEffect
  <2>2. /\ overlapped \subseteq overlapped'
        /\ Alive # {} => Alive \cup {Len(commands) + 1} \subseteq overlapped'
    BY <1>1 DEF StartThread
  <2> SUFFICES ASSUME NEW c \in Alive', NEW d \in Alive', c # d
               PROVE  c \in overlapped'
    BY DEF TogetherOverlapped
  <2>3. CASE c \in DOMAIN commands
    <3>1. c \in Alive
      BY <2>1, <2>3 DEF Alive
    <3> QED BY <2>2, <3>1
  <2>4. CASE c = Len(commands) + 1
    <3>1. d \in Alive
      BY <2>1, <2>4 DEF Alive
    <3> QED BY <2>2, <2>4, <3>1
  <2> QED
    BY <2>1, <2>3, <2>4 DEF Alive
<1>2. CASE Link
  BY <1>1, <1>2 DEF Link, Kinds
<1>3. CASE Run
  BY <1>1, <1>3, <1>0 DEF Run, Kinds
<1>4. CASE Compile \/ CompileFails \/ BeginSave \/ EndSave \/ SaveFails \/ Enter \/ Send
  BY <1>4, <1>0 DEF Compile, CompileFails, BeginSave, EndSave, SaveFails, Enter, Send
<1>5. ASSUME NEW c \in DOMAIN commands, CommandStep(c) PROVE TogetherOverlapped'
  <2>1. /\ DOMAIN commands' = DOMAIN commands
        /\ \A d \in DOMAIN commands : d # c => commands'[d] = commands[d]
        /\ overlapped' = overlapped /\ c \in Alive
    BY <1>5, CommandStepEffect
  <2>2. Alive' \subseteq Alive
    BY <2>1 DEF Alive
  <2> QED
    BY <2>1, <2>2 DEF TogetherOverlapped
<1>6. CASE UNCHANGED vars
  BY <1>6, <1>0 DEF vars
<1> QED
  BY <1>2, <1>3, <1>4, <1>5, <1>6 DEF Next, CommandStep

LEMMA StepLone == TypeInv /\ LoneInv /\ [Next]_vars => LoneInv'
<1> SUFFICES ASSUME TypeInv, LoneInv, [Next]_vars PROVE LoneCommandHasInput'
  BY StepTogether DEF LoneInv
<1>0. commands \in Seq(Command) /\ TogetherOverlapped /\ LoneCommandHasInput
  BY DEF TypeInv, TypeOK, LoneInv
<1>1. ASSUME NEW kind \in Kinds, StartThread(kind), out' = out PROVE LoneCommandHasInput'
  <2>1. /\ DOMAIN commands = 1 .. Len(commands)
        /\ DOMAIN commands' = 1 .. Len(commands) + 1
        /\ Len(commands) \in Nat
        /\ \A c \in DOMAIN commands : commands'[c] = commands[c]
        /\ commands'[Len(commands) + 1].phase = "started"
    <3>1. NewCommand(kind).phase = "started"
      BY DEF NewCommand
    <3> QED
      BY <1>1, <3>1, StartThreadEffect
  <2>2. overlapped \subseteq overlapped'
    BY <1>1 DEF StartThread
  <2> QED
    BY <1>0, <1>1, <2>1, <2>2 DEF LoneCommandHasInput
<1>2. CASE Link
  BY <1>1, <1>2 DEF Link, Kinds
<1>3. CASE Run
  BY <1>0, <1>1, <1>3 DEF Run, Kinds, LoneCommandHasInput
<1>4. CASE Compile \/ CompileFails \/ BeginSave \/ EndSave \/ SaveFails \/ Enter \/ Send
  BY <1>0, <1>4 DEF Compile, CompileFails, BeginSave, EndSave, SaveFails, Enter, Send, LoneCommandHasInput
<1>5. ASSUME NEW c \in DOMAIN commands, CommandStep(c) PROVE LoneCommandHasInput'
  <2>0. /\ DOMAIN commands' = DOMAIN commands
        /\ \A d \in DOMAIN commands : d # c => commands'[d] = commands[d]
        /\ overlapped' = overlapped
    BY <1>5, CommandStepEffect
  <2>9. commands[c] \in Command
    BY <1>0
  <2>1. ASSUME out' = out, commands'[c].phase = "attached" => commands[c].phase = "attached"
        PROVE  LoneCommandHasInput'
    BY <1>0, <2>0, <2>1 DEF LoneCommandHasInput
  <2>2. CASE Exec(c) \/ Throws(c)
    <3>1. CASE Exec(c)
      <4>1. out' = out /\ commands'[c].phase = "executing"
        BY <1>0, <2>9, <3>1 DEF Exec, Command
      <4> QED BY <2>1, <4>1
    <3>2. CASE Throws(c)
      <4>1. out' = out /\ commands'[c].phase \in {"failed", "dead", "done"}
        BY <1>0, <2>9, <3>2 DEF Throws, Command
      <4> QED BY <2>1, <4>1
    <3> QED BY <2>2, <3>1, <3>2
  <2>3. ASSUME NEW d \in DOMAIN commands, d # c, commands[d].phase = "attached"
        PROVE  d \in overlapped
    <3>1. c \in Alive
      BY <1>5, CommandStepEffect
    <3>2. d \in Alive
      BY <2>3 DEF Alive
    <3> QED
      BY <1>0, <2>3, <3>1, <3>2 DEF TogetherOverlapped
  <2>4. CASE Attach(c)
    <3>1. out' = c
      BY <2>4 DEF Attach
    <3> QED
      BY <2>0, <2>3, <3>1 DEF LoneCommandHasInput
  <2>5. CASE WaitFor(c) \/ CompleteThrows(c) \/ Recover(c)
    <3>1. commands'[c].phase \in {"done", "failed"}
      BY <1>0, <2>5, <2>9 DEF WaitFor, CompleteThrows, Recover, Command
    <3> QED
      BY <2>0, <2>3, <3>1 DEF LoneCommandHasInput
  <2>6. CASE GccReads(c)
    <3>1. out' = out /\ commands'[c].phase = commands[c].phase
      BY <1>0, <2>6, <2>9 DEF GccReads, Command
    <3> QED
      BY <2>1, <3>1
  <2>7. CASE GccWrites(c)
    <3>1. out' = out /\ commands'[c].phase = commands[c].phase
      BY <1>0, <2>7, <2>9 DEF GccWrites, Command
    <3> QED
      BY <2>1, <3>1
  <2>8. CASE ChildExits(c)
    BY <1>0, <2>1, <2>8, <2>9 DEF ChildExits, Command
  <2> QED
    BY <1>5, <2>2, <2>4, <2>5, <2>6, <2>7, <2>8 DEF CommandStep, ThreadStep
<1>6. CASE UNCHANGED vars
  BY <1>0, <1>6 DEF LoneCommandHasInput, vars
<1> QED
  BY <1>2, <1>3, <1>4, <1>5, <1>6 DEF Next, CommandStep

(* A command that no other was ever alive with keeps its standard input    *)
(* while it is attached, in a session of any length.                       *)
THEOREM LoneCommandHasInputHolds == Spec => []LoneCommandHasInput
<1>1. Init => LoneInv
  BY DEF Init, LoneInv, TogetherOverlapped, LoneCommandHasInput, Alive
<1>2. LoneInv => LoneCommandHasInput
  BY DEF LoneInv
<1> QED
  BY <1>1, <1>2, StepLone, InitTypeInv, StepTypeInv, PTL DEF Spec

------------------------------------------------------------------------------
(* There are finitely many commands of a kind. *)
LEMMA OfFinite ==
  ASSUME TypeInv, NEW kind \in Kinds
  PROVE  IsFiniteSet(Of(kind)) /\ Cardinality(Of(kind)) \in Nat
<1>1. commands \in Seq(Command)
  BY DEF TypeInv, TypeOK
<1>2. DOMAIN commands = 1 .. Len(commands) /\ Len(commands) \in Nat
  BY <1>1
<1>3. IsFiniteSet(DOMAIN commands)
  BY <1>2, FS_Interval
<1>4. Of(kind) \subseteq DOMAIN commands
  BY DEF Of
<1> QED
  BY <1>3, <1>4, FS_Subset, FS_CardinalityType

(* Starting a thread adds one command of its kind, and none of the other.  *)
LEMMA StartThreadCounts ==
  ASSUME TypeInv, NEW kind \in Kinds, StartThread(kind)
  PROVE  /\ Cardinality(Of(kind)') = Cardinality(Of(kind)) + 1
         /\ \A other \in Kinds \ {kind} : Of(other)' = Of(other)
<1> DEFINE n == Len(commands) + 1
<1>1. /\ DOMAIN commands = 1 .. Len(commands)
      /\ DOMAIN commands' = 1 .. Len(commands) + 1
      /\ Len(commands) \in Nat
      /\ \A c \in DOMAIN commands : commands'[c] = commands[c]
      /\ commands'[n].kind = kind
  <2>1. NewCommand(kind).kind = kind
    BY DEF NewCommand
  <2> QED
    BY <2>1, StartThreadEffect
<1>2. Of(kind)' = Of(kind) \cup {n}
  BY <1>1 DEF Of
<1>3. n \notin Of(kind)
  BY <1>1 DEF Of
<1>4. \A other \in Kinds \ {kind} : Of(other)' = Of(other)
  BY <1>1 DEF Of
<1>5. Cardinality(Of(kind) \cup {n}) = Cardinality(Of(kind)) + 1
  <2> HIDE DEF n
  <2> QED BY <1>3, OfFinite, FS_AddElement
<1> QED
  BY <1>2, <1>4, <1>5

(* A program is run at most once for every link that was started, however  *)
(* long the session.                                                       *)
THEOREM OneRunPerLinkHolds == Spec => []OneRunPerLink
<1>1. Init => OneRunPerLink
  <2> SUFFICES ASSUME Init PROVE OneRunPerLink
    OBVIOUS
  <2>1. Of("run") = {} /\ Of("link") = {} /\ runEnabled = FALSE
    BY DEF Init, Of
  <2> QED
    BY <2>1, FS_EmptySet DEF OneRunPerLink
<1>2. TypeInv /\ OneRunPerLink /\ [Next]_vars => OneRunPerLink'
  <2> SUFFICES ASSUME TypeInv, OneRunPerLink, [Next]_vars PROVE OneRunPerLink'
    OBVIOUS
  <2>0. /\ Cardinality(Of("run")) \in Nat /\ Cardinality(Of("link")) \in Nat
        /\ "run" \in Kinds /\ "link" \in Kinds
    BY OfFinite DEF Kinds
  <2>1. ASSUME Of("run")' = Of("run"), Of("link")' = Of("link"), UNCHANGED menu
        PROVE  OneRunPerLink'
    BY <2>1 DEF OneRunPerLink, menu
  <2>2. CASE Link
    <3>1. StartThread("link") /\ linker' = TRUE
      BY <2>2 DEF Link
    <3>2. Of("run")' = Of("run")
      BY <2>0, <3>1, StartThreadCounts
    <3>3. Cardinality(Of("link")') = Cardinality(Of("link")) + 1
      BY <2>0, <3>1, StartThreadCounts
    <3>4. Cardinality(Of("run")) <= Cardinality(Of("link"))
      BY <2>0 DEF OneRunPerLink
    <3> QED
      BY <2>0, <3>1, <3>2, <3>3, <3>4 DEF OneRunPerLink
  <2>3. CASE Run
    <3>1. CASE linker
      <4>1. StartThread("run") /\ runEnabled /\ runEnabled' = FALSE
        BY <2>3, <3>1 DEF Run
      <4>2. Of("link")' = Of("link")
        BY <2>0, <4>1, StartThreadCounts
      <4>3. Cardinality(Of("run")') = Cardinality(Of("run")) + 1
        BY <2>0, <4>1, StartThreadCounts
      <4>4. Cardinality(Of("run")) + 1 <= Cardinality(Of("link"))
        BY <4>1 DEF OneRunPerLink
      <4> QED
        BY <2>0, <4>1, <4>2, <4>3, <4>4 DEF OneRunPerLink
    <3>2. CASE ~linker
      BY <2>3, <3>2 DEF Run, OneRunPerLink
    <3> QED
      BY <3>1, <3>2
  <2>4. CASE Compile \/ CompileFails \/ BeginSave \/ EndSave \/ SaveFails \/ Enter \/ Send
    <3>1. UNCHANGED commands /\ UNCHANGED menu
      BY <2>4 DEF Compile, CompileFails, BeginSave, EndSave, SaveFails, Enter, Send
    <3> QED
      BY <2>1, <3>1 DEF Of
  <2>5. ASSUME NEW c \in DOMAIN commands, CommandStep(c) PROVE OneRunPerLink'
    <3>1. /\ DOMAIN commands' = DOMAIN commands
          /\ \A d \in DOMAIN commands : commands'[d].kind = commands[d].kind
          /\ UNCHANGED menu
      BY <2>5, CommandStepEffect
    <3> QED
      BY <2>1, <3>1 DEF Of
  <2>6. CASE UNCHANGED vars
    <3>1. UNCHANGED commands /\ UNCHANGED menu
      BY <2>6 DEF vars
    <3> QED
      BY <2>1, <3>1 DEF Of
  <2> QED
    BY <2>2, <2>3, <2>4, <2>5, <2>6 DEF Next, CommandStep
<1> QED
  BY <1>1, <1>2, InitTypeInv, StepTypeInv, PTL DEF Spec

------------------------------------------------------------------------------
(* Whoever waits for every command to be over runs what was compiled last  *)
(* (SerialRunsCurrent), for sessions of any length.                        *)

(* A thread that has a process has begun. *)
Begun ==
  \A c \in DOMAIN commands : commands[c].child # "none" => commands[c].phase # "started"

(* Every run stands behind the link it uses, of the same text; the command *)
(* an enabled Run item will use is a link, of the text compiled last as    *)
(* long as no newer one waits to be linked.                                *)
RunsFollowLinks ==
  /\ runEnabled => commands # <<>> /\ commands[Len(commands)].kind = "link"
  /\ edt # "linking" /\ commands # <<>> /\ commands[Len(commands)].kind = "link"
       => commands[Len(commands)].source = compiled
  /\ \A r \in Of("run") :
       /\ r - 1 \in Of("link")
       /\ commands[r].source = commands[r - 1].source

(* Of commands that never overlapped, only the last may be alive. *)
LastAlone == \A c \in Alive : c = Len(commands)

(* A link whose executable was, or may now be run: it is followed by its   *)
(* run, or it is the last command and the C++ file is not being replaced.  *)
InUse(l) ==
  \/ l = Len(commands) /\ edt \notin {"saving", "linking"}
  \/ l + 1 \in Of("run")

LinkInput ==
  \A l \in Of("link") :
    InUse(l) /\ commands[l].source \notin unsaved
      => commands[l].input \in {0, commands[l].source}

(* A link that wrote has read before; the executable is that of the last   *)
(* link, until the link's run has started the process.                     *)
Pending(l) ==
  \/ l = Len(commands)
  \/ l + 1 = Len(commands) /\ l + 1 \in Of("run") /\ commands[l + 1].phase = "started"

ExeOfLink ==
  \A l \in Of("link") :
    commands[l].wrote => /\ commands[l].input # 0
                         /\ commands[l].phase # "started"
                         /\ Pending(l) => exe = commands[l].input

RunInput ==
  \A r \in Of("run") :
    /\ commands[r].child # "none"
    /\ commands[r - 1].wrote
    /\ commands[r].source \notin unsaved
    => commands[r].input = commands[r].source

SerialInv ==
  /\ Begun
  /\ RunsFollowLinks
  /\ overlapped = {} => LastAlone /\ LinkInput /\ ExeOfLink /\ RunInput

------------------------------------------------------------------------------
LEMMA InitSerial == Init => SerialInv
BY DEF Init, SerialInv, Begun, RunsFollowLinks, LastAlone, LinkInput, ExeOfLink,
       RunInput, Of, Alive

(* The invariant says nothing of the first link that a second one, or the  *)
(* end of the sequence, could disturb.                                     *)
LEMMA SerialOfLink == TypeInv /\ SerialInv /\ Link => SerialInv'
<1> SUFFICES ASSUME TypeInv, SerialInv, Link PROVE SerialInv'
  OBVIOUS
<1> DEFINE n == Len(commands) + 1
<1>1. /\ commands \in Seq(Command)
      /\ DOMAIN commands = 1 .. Len(commands)
      /\ DOMAIN commands' = 1 .. n
      /\ Len(commands) \in Nat
      /\ Len(commands') = n
      /\ \A c \in DOMAIN commands : commands'[c] = commands[c]
      /\ commands' # <<>>
  <2>1. StartThread("link") /\ "link" \in Kinds /\ commands \in Seq(Command)
    BY DEF Link, Kinds, TypeInv, TypeOK
  <2>2. /\ commands' \in Seq(Command)
        /\ Len(commands') = n
    BY <2>1, StartThreadEffect
  <2>3. commands' # <<>>
    BY <2>1, <2>2
  <2> QED
    BY <2>1, <2>3, StartThreadEffect
<1>2. /\ commands'[n].kind = "link" /\ commands'[n].phase = "started"
      /\ commands'[n].child = "none" /\ commands'[n].source = compiled
      /\ commands'[n].input = 0 /\ commands'[n].wrote = FALSE
  <2>1. commands'[n] = NewCommand("link")
    BY StartThreadEffect DEF Link, Kinds
  <2> QED
    BY <2>1 DEF NewCommand
<1>3. /\ edt = "linking" /\ edt' = "idle"
      /\ UNCHANGED <<compiled, cpp, exe, unsaved>>
      /\ overlapped' = {} => overlapped = {} /\ Alive = {}
  BY <1>1 DEF Link, StartThread, files, source
<1>4. /\ Of("run")' = Of("run")
      /\ Of("link")' = Of("link") \cup {n}
  BY <1>1, <1>2 DEF Of
<1>5. Begun'
  BY <1>1, <1>2 DEF SerialInv, Begun
<1>6. RunsFollowLinks'
  <2>1. \A r \in Of("run") : r \in DOMAIN commands /\ r - 1 \in DOMAIN commands
    BY DEF SerialInv, RunsFollowLinks, Of
  <2> QED
    BY <1>1, <1>2, <1>3, <1>4, <2>1 DEF SerialInv, RunsFollowLinks
<1>7. ASSUME overlapped' = {} PROVE (LastAlone /\ LinkInput /\ ExeOfLink /\ RunInput)'
  <2>1. LastAlone /\ LinkInput /\ ExeOfLink /\ RunInput /\ Alive = {}
    BY <1>3, <1>7 DEF SerialInv
  <2>2. LastAlone'
    BY <1>1, <2>1 DEF LastAlone, Alive
  <2>3. LinkInput'
    <3> SUFFICES ASSUME NEW l \in Of("link")', InUse(l)', commands'[l].source \notin unsaved'
                 PROVE  commands'[l].input \in {0, commands'[l].source}
      BY DEF LinkInput
    <3>1. CASE l = n
      BY <1>2, <3>1
    <3>2. CASE l # n
      <4>1. l \in Of("link") /\ l \in DOMAIN commands /\ l # Len(commands')
        BY <1>1, <1>4, <3>2 DEF Of
      <4>2. InUse(l)
        BY <1>4, <4>1 DEF InUse
      <4> QED
        BY <1>1, <1>3, <2>1, <4>1, <4>2 DEF LinkInput
    <3> QED
      BY <3>1, <3>2
  <2>4. ExeOfLink'
    <3> SUFFICES ASSUME NEW l \in Of("link")', commands'[l].wrote
                 PROVE  /\ commands'[l].input # 0 /\ commands'[l].phase # "started"
                        /\ Pending(l)' => exe' = commands'[l].input
      BY DEF ExeOfLink
    <3>1. l # n
      BY <1>2
    <3>2. l \in Of("link") /\ l \in DOMAIN commands /\ l # Len(commands')
      BY <1>1, <1>4, <3>1 DEF Of
    <3>3. ~Pending(l)'
      <4>1. n \notin Of("run")'
        BY <1>2 DEF Of
      <4> QED
        BY <1>1, <3>2, <4>1 DEF Pending
    <3> QED
      BY <1>1, <2>1, <3>2, <3>3 DEF ExeOfLink
  <2>5. RunInput'
    <3>1. \A r \in Of("run") : r \in DOMAIN commands /\ r - 1 \in DOMAIN commands
      BY DEF SerialInv, RunsFollowLinks, Of
    <3> QED
      BY <1>1, <1>3, <1>4, <2>1, <3>1 DEF RunInput
  <2> QED
    BY <2>2, <2>3, <2>4, <2>5
<1> QED
  BY <1>5, <1>6, <1>7 DEF SerialInv

(* A run starts behind a link of the text compiled last, while nothing is  *)
(* being compiled.                                                         *)
LEMMA SerialOfRun == TypeInv /\ SerialInv /\ Run => SerialInv'
<1> SUFFICES ASSUME TypeInv, SerialInv, Run PROVE SerialInv'
  OBVIOUS
<1>0. CASE ~linker
  BY <1>0 DEF Run, SerialInv, Begun, RunsFollowLinks, LastAlone, LinkInput, InUse,
       ExeOfLink, Pending, RunInput, Of, Alive, files, source
<1> SUFFICES ASSUME linker PROVE SerialInv'
  BY <1>0
<1> DEFINE n == Len(commands) + 1
<1>1. /\ commands \in Seq(Command)
      /\ DOMAIN commands = 1 .. Len(commands)
      /\ DOMAIN commands' = 1 .. n
      /\ Len(commands) \in Nat
      /\ Len(commands') = n
      /\ \A c \in DOMAIN commands : commands'[c] = commands[c]
  <2>1. StartThread("run") /\ "run" \in Kinds /\ commands \in Seq(Command)
    BY DEF Run, Kinds, TypeInv, TypeOK
  <2> QED
    BY <2>1, StartThreadEffect
<1>2. /\ commands'[n].kind = "run" /\ commands'[n].phase = "started"
      /\ commands'[n].child = "none" /\ commands'[n].source = compiled
      /\ commands'[n].wrote = FALSE
  <2>1. commands'[n] = NewCommand("run")
    BY StartThreadEffect DEF Run, Kinds
  <2> QED
    BY <2>1 DEF NewCommand
<1>3. /\ edt = "idle" /\ edt' = "idle" /\ runEnabled /\ runEnabled' = FALSE
      /\ UNCHANGED <<compiled, cpp, exe, unsaved>>
      /\ overlapped' = {} => overlapped = {} /\ Alive = {}
  BY <1>1 DEF Run, StartThread, files, source
<1>4. /\ Of("run")' = Of("run") \cup {n}
      /\ Of("link")' = Of("link")
  BY <1>1, <1>2 DEF Of
<1>5. /\ n - 1 \in DOMAIN commands /\ n - 1 \in Of("link")
      /\ commands[n - 1].source = compiled
  <2>1. commands # <<>> /\ commands[Len(commands)].kind = "link"
    BY <1>3 DEF SerialInv, RunsFollowLinks
  <2>2. n - 1 = Len(commands) /\ n - 1 \in DOMAIN commands
    BY <1>1, <2>1
  <2> QED
    BY <1>3, <2>1, <2>2 DEF SerialInv, RunsFollowLinks, Of
<1>6. \A r \in Of("run") : r \in DOMAIN commands /\ r - 1 \in DOMAIN commands
  BY DEF SerialInv, RunsFollowLinks, Of
<1>7. Begun'
  BY <1>1, <1>2 DEF SerialInv, Begun
<1>8. RunsFollowLinks'
  <2>1. \A r \in Of("run")' :
          /\ (r - 1 \in Of("link"))'
          /\ commands'[r].source = commands'[r - 1].source
    <3> SUFFICES ASSUME NEW r \in Of("run")'
                 PROVE  /\ (r - 1 \in Of("link"))'
                        /\ commands'[r].source = commands'[r - 1].source
      OBVIOUS
    <3>1. CASE r = n
      BY <1>1, <1>2, <1>4, <1>5, <3>1
    <3>2. CASE r \in Of("run")
      BY <1>1, <1>4, <1>6, <3>2 DEF SerialInv, RunsFollowLinks
    <3> QED
      BY <1>4, <3>1, <3>2
  <2> QED
    BY <1>1, <1>2, <1>3, <2>1 DEF RunsFollowLinks
<1>9. ASSUME overlapped' = {} PROVE (LastAlone /\ LinkInput /\ ExeOfLink /\ RunInput)'
  <2>1. LastAlone /\ LinkInput /\ ExeOfLink /\ RunInput /\ Alive = {}
    BY <1>3, <1>9 DEF SerialInv
  <2>2. LastAlone'
    BY <1>1, <2>1 DEF LastAlone, Alive
  <2>3. LinkInput'
    <3> SUFFICES ASSUME NEW l \in Of("link"), InUse(l)', commands[l].source \notin unsaved
                 PROVE  commands[l].input \in {0, commands[l].source}
      BY <1>1, <1>3, <1>4 DEF LinkInput, Of
    <3>1. l \in DOMAIN commands /\ l # n
      BY <1>1 DEF Of
    <3>2. InUse(l)
      BY <1>1, <1>3, <1>4, <3>1 DEF InUse
    <3> QED
      BY <2>1, <3>2 DEF LinkInput
  <2>4. ExeOfLink'
    <3> SUFFICES ASSUME NEW l \in Of("link"), commands[l].wrote
                 PROVE  /\ commands[l].input # 0 /\ commands[l].phase # "started"
                        /\ Pending(l)' => exe = commands[l].input
      BY <1>1, <1>3, <1>4 DEF ExeOfLink, Of
    <3>1. l \in DOMAIN commands /\ l # n
      BY <1>1 DEF Of
    <3>2. Pending(l)' => Pending(l)
      BY <1>1, <3>1 DEF Pending
    <3> QED
      BY <2>1, <3>2 DEF ExeOfLink
  <2>5. RunInput'
    BY <1>1, <1>2, <1>3, <1>4, <1>6, <2>1 DEF RunInput
  <2> QED
    BY <2>2, <2>3, <2>4, <2>5
<1> QED
  BY <1>7, <1>8, <1>9 DEF SerialInv

(* The rest of the event thread leaves commands and the executable alone;  *)
(* what it does to the C++ file it does before it links.                   *)
LEMMA SerialOfEvents ==
  ASSUME TypeInv, SerialInv,
         Compile \/ CompileFails \/ BeginSave \/ EndSave \/ SaveFails \/ Enter \/ Send
  PROVE  SerialInv'
<1>1. UNCHANGED <<commands, exe, runEnabled, overlapped>>
  BY DEF Compile, CompileFails, BeginSave, EndSave, SaveFails, Enter, Send, files, menu
<1>2. /\ unsaved \subseteq unsaved'
      /\ edt' # "linking" => edt # "linking" /\ compiled' = compiled
      /\ edt' \notin {"saving", "linking"} => edt \notin {"saving", "linking"}
  BY DEF Compile, CompileFails, BeginSave, EndSave, SaveFails, Enter, Send, files, source
<1>3. Of("run")' = Of("run") /\ Of("link")' = Of("link")
  BY <1>1 DEF Of
<1>4. Begun' /\ RunsFollowLinks'
  BY <1>1, <1>2, <1>3 DEF SerialInv, Begun, RunsFollowLinks
<1>5. ASSUME overlapped = {} PROVE (LastAlone /\ LinkInput /\ ExeOfLink /\ RunInput)'
  <2>1. LastAlone /\ LinkInput /\ ExeOfLink /\ RunInput
    BY <1>5 DEF SerialInv
  <2>2. LinkInput'
    BY <1>1, <1>2, <1>3, <2>1 DEF LinkInput, InUse
  <2>3. LastAlone' /\ ExeOfLink' /\ RunInput'
    BY <1>1, <1>2, <1>3, <2>1 DEF LastAlone, Alive, ExeOfLink, Pending, RunInput
  <2> QED
    BY <2>2, <2>3
<1> QED
  BY <1>1, <1>4, <1>5 DEF SerialInv

------------------------------------------------------------------------------
(* A step of a command, of those that never overlapped, is one of the last. *)
LEMMA OnlyLastSteps ==
  ASSUME TypeInv, LastAlone, NEW c \in DOMAIN commands, CommandStep(c)
  PROVE  c = Len(commands)
BY CommandStepEffect DEF LastAlone

(* The five ways in which a command, c, takes a step. *)
Executed(c) ==
  /\ commands[c].phase = "started"
  /\ commands'[c].phase = "executing" /\ commands'[c].child = "running"
  /\ commands'[c].input = IF commands[c].kind = "run" THEN exe ELSE 0
  /\ commands'[c].wrote = commands[c].wrote /\ exe' = exe

WentOn(c) ==
  /\ commands'[c].phase # "started"
  /\ commands'[c].child = commands[c].child /\ commands'[c].input = commands[c].input
  /\ commands'[c].wrote = commands[c].wrote /\ exe' = exe

ReadCpp(c) ==
  /\ commands[c].kind = "link" /\ commands[c].child = "running"
  /\ commands[c].input = 0 /\ commands'[c].input = cpp
  /\ commands'[c].phase = commands[c].phase /\ commands'[c].child = commands[c].child
  /\ commands'[c].wrote = commands[c].wrote /\ exe' = exe

WroteExe(c) ==
  /\ commands[c].kind = "link" /\ commands[c].child = "running"
  /\ commands[c].input # 0 /\ exe' = commands[c].input
  /\ commands'[c].phase = commands[c].phase /\ commands'[c].child = commands[c].child
  /\ commands'[c].input = commands[c].input

Exited(c) ==
  /\ commands[c].child = "running" /\ commands'[c].child = "exited"
  /\ commands'[c].phase = commands[c].phase /\ commands'[c].input = commands[c].input
  /\ commands'[c].wrote = commands[c].wrote /\ exe' = exe

LEMMA FiveSteps ==
  ASSUME TypeInv, NEW c \in DOMAIN commands, CommandStep(c)
  PROVE  Executed(c) \/ WentOn(c) \/ ReadCpp(c) \/ WroteExe(c) \/ Exited(c)
<1>1. commands \in Seq(Command) /\ commands[c] \in Command
  BY DEF TypeInv, TypeOK
<1>2. CASE Exec(c)
  BY <1>1, <1>2 DEF Exec, Command, Executed, files
<1>3. CASE Throws(c)
  BY <1>1, <1>3 DEF Throws, Command, WentOn, files
<1>4. CASE Attach(c)
  BY <1>1, <1>4 DEF Attach, Command, WentOn, files
<1>5. CASE WaitFor(c) \/ CompleteThrows(c) \/ Recover(c)
  BY <1>1, <1>5 DEF WaitFor, CompleteThrows, Recover, Command, WentOn, files
<1>6. CASE GccReads(c)
  BY <1>1, <1>6 DEF GccReads, Runs, Command, ReadCpp, files
<1>7. CASE GccWrites(c)
  BY <1>1, <1>7 DEF GccWrites, Runs, Command, WroteExe
<1>8. CASE ChildExits(c)
  BY <1>1, <1>8 DEF ChildExits, Runs, Command, Exited, files
<1> QED
  BY <1>2, <1>3, <1>4, <1>5, <1>6, <1>7, <1>8 DEF CommandStep, ThreadStep

LEMMA SerialOfCommand ==
  ASSUME TypeInv, SerialInv, NEW c \in DOMAIN commands, CommandStep(c)
  PROVE  SerialInv'
<1>1. /\ DOMAIN commands' = DOMAIN commands
      /\ Len(commands') = Len(commands)
      /\ \A d \in DOMAIN commands : d # c => commands'[d] = commands[d]
      /\ \A d \in DOMAIN commands : commands'[d].kind = commands[d].kind
      /\ \A d \in DOMAIN commands : commands'[d].source = commands[d].source
      /\ UNCHANGED <<edt, compiled, unsaved, cpp, runEnabled, overlapped>>
  BY CommandStepEffect DEF source, menu
<1>2. /\ DOMAIN commands = 1 .. Len(commands) /\ Len(commands) \in Nat
      /\ commands # <<>> /\ commands' # <<>>
  <2>1. commands \in Seq(Command) /\ commands' \in Seq(Command)
    BY CommandStepEffect DEF TypeInv, TypeOK
  <2> QED
    BY <1>1, <2>1
<1>3. Of("run")' = Of("run") /\ Of("link")' = Of("link")
  BY <1>1 DEF Of
<1>4. Executed(c) \/ WentOn(c) \/ ReadCpp(c) \/ WroteExe(c) \/ Exited(c)
  BY FiveSteps DEF SerialInv
<1>5. Begun'
  BY <1>1, <1>4 DEF SerialInv, Begun, Executed, WentOn, ReadCpp, WroteExe, Exited
<1>6. RunsFollowLinks'
  <2>1. \A r \in Of("run") : r \in DOMAIN commands /\ r - 1 \in DOMAIN commands
    BY DEF SerialInv, RunsFollowLinks, Of
  <2> QED
    BY <1>1, <1>2, <1>3, <2>1 DEF SerialInv, RunsFollowLinks
<1>7. ASSUME overlapped = {} PROVE (LastAlone /\ LinkInput /\ ExeOfLink /\ RunInput)'
  <2>1. /\ LastAlone /\ LinkInput /\ ExeOfLink /\ RunInput /\ Begun /\ RunsFollowLinks
        /\ c = Len(commands)
    BY <1>7, OnlyLastSteps DEF SerialInv
  <2>2. LastAlone'
    BY CommandStepEffect, <1>1, <2>1 DEF LastAlone, Alive
  <2>3. LinkInput'
    <3> SUFFICES ASSUME NEW l \in Of("link"), InUse(l), commands[l].source \notin unsaved
                 PROVE  commands'[l].input \in {0, commands[l].source}
      BY <1>1, <1>3 DEF LinkInput, InUse, Of
    <3>1. l \in DOMAIN commands /\ commands[l].kind = "link"
      BY DEF Of
    <3>2. commands[l].input \in {0, commands[l].source}
      BY <2>1 DEF LinkInput
    <3>3. CASE l # c \/ ~ReadCpp(c)
      BY <1>1, <1>4, <3>1, <3>2, <3>3 DEF Executed, WentOn, WroteExe, Exited
    <3>4. CASE l = c /\ ReadCpp(c)
      <4>1. edt \notin {"saving", "linking"}
        BY <1>2, <2>1, <3>4 DEF InUse, Of
      <4>2. commands[c].source = compiled
        BY <1>2, <2>1, <3>1, <3>4, <4>1 DEF RunsFollowLinks
      <4>3. cpp = compiled
        BY <3>4, <4>1, <4>2 DEF TypeInv, TypeOK
      <4> QED
        BY <3>4, <4>2, <4>3 DEF ReadCpp
    <3> QED
      BY <3>3, <3>4
  <2>4. ExeOfLink'
    <3> SUFFICES ASSUME NEW l \in Of("link"), commands'[l].wrote
                 PROVE  /\ commands'[l].input # 0 /\ commands'[l].phase # "started"
                        /\ Pending(l)' => exe' = commands'[l].input
      BY <1>3 DEF ExeOfLink
    <3>1. l \in DOMAIN commands /\ commands[l].kind = "link"
      BY DEF Of
    <3>2. CASE l # c
      <4>1. commands'[l] = commands[l]
        BY <1>1, <3>1, <3>2
      <4>2. ~Pending(l)'
        <5>1. commands[c].kind = "run" => commands'[c].phase # "started"
          BY <1>4, <2>1 DEF Begun, Executed, WentOn, ReadCpp, WroteExe, Exited
        <5> QED
          BY <1>1, <1>2, <2>1, <3>1, <3>2, <5>1 DEF Pending, Of
      <4> QED
        BY <2>1, <4>1, <4>2 DEF ExeOfLink
    <3>3. CASE l = c
      <4>1. Pending(c)
        BY <2>1 DEF Pending
      <4>2. CASE WroteExe(c)
        BY <2>1, <3>3, <4>2 DEF WroteExe, Begun
      <4>3. CASE ~WroteExe(c)
        <5>1. commands[c].wrote
          BY <1>4, <3>3, <4>3 DEF Executed, WentOn, ReadCpp, Exited
        <5>2. commands[c].input # 0 /\ commands[c].phase # "started" /\ exe = commands[c].input
          BY <2>1, <3>3, <4>1, <5>1 DEF ExeOfLink
        <5> QED
          BY <1>4, <3>3, <4>3, <5>2 DEF Executed, WentOn, ReadCpp, Exited
      <4> QED
        BY <4>2, <4>3
    <3> QED
      BY <3>2, <3>3
  <2>5. RunInput'
    <3> SUFFICES ASSUME NEW r \in Of("run"), commands'[r].child # "none",
                        commands'[r - 1].wrote, commands[r].source \notin unsaved
                 PROVE  commands'[r].input = commands[r].source
      BY <1>1, <1>3 DEF RunInput, Of
    <3>1. /\ r \in DOMAIN commands /\ commands[r].kind = "run"
          /\ r - 1 \in DOMAIN commands /\ r - 1 \in Of("link") /\ r - 1 # c
          /\ commands[r].source = commands[r - 1].source
          /\ commands[r - 1].wrote
      BY <1>1, <1>2, <2>1 DEF RunsFollowLinks, Of
    <3>2. CASE r = c /\ Executed(c)
      <4>1. commands'[r].input = exe /\ commands[r].phase = "started"
        BY <3>1, <3>2 DEF Executed
      <4>2. Pending(r - 1) /\ InUse(r - 1)
        <5>1. r \in 1 .. Len(commands) /\ r = Len(commands)
          BY <1>2, <2>1, <3>1, <3>2
        <5>2. r - 1 + 1 = Len(commands) /\ r - 1 + 1 = r
          BY <1>2, <5>1
        <5> QED
          BY <4>1, <5>2 DEF Pending, InUse
      <4>3. commands[r - 1].input # 0 /\ exe = commands[r - 1].input
        BY <2>1, <3>1, <4>2 DEF ExeOfLink
      <4>4. commands[r - 1].input \in {0, commands[r - 1].source}
        BY <2>1, <3>1, <4>2 DEF LinkInput
      <4> QED
        BY <3>1, <4>1, <4>3, <4>4
    <3>3. CASE r # c \/ ~Executed(c)
      <4>1. commands'[r].input = commands[r].input /\ commands[r].child # "none"
        BY <1>1, <1>4, <3>1, <3>3 DEF WentOn, ReadCpp, WroteExe, Exited
      <4> QED
        BY <2>1, <3>1, <4>1 DEF RunInput
    <3> QED
      BY <3>2, <3>3
  <2> QED
    BY <2>2, <2>3, <2>4, <2>5
<1> QED
  BY <1>1, <1>5, <1>6, <1>7 DEF SerialInv

------------------------------------------------------------------------------
LEMMA StepSerial == TypeInv /\ SerialInv /\ [Next]_vars => SerialInv'
<1> SUFFICES ASSUME TypeInv, SerialInv, [Next]_vars PROVE SerialInv'
  OBVIOUS
<1>1. CASE UNCHANGED vars
  BY <1>1 DEF vars, files, source, menu, SerialInv, Begun, RunsFollowLinks, LastAlone,
              LinkInput, InUse, ExeOfLink, Pending, RunInput, Of, Alive
<1> QED
  BY <1>1, SerialOfLink, SerialOfRun, SerialOfEvents, SerialOfCommand DEF Next, CommandStep

(* The link that a run uses is the one before it. *)
LEMMA SerialInvSuffices == TypeInv /\ SerialInv => SerialRunsCurrent
<1> SUFFICES ASSUME TypeInv, SerialInv, overlapped = {}, NEW r \in Of("run")
             PROVE  LET links == {l \in Of("link") : l < r}
                        last  == CHOOSE l \in links : \A k \in links : k <= l
                    IN  /\ commands[r].child # "none"
                        /\ commands[last].wrote
                        /\ commands[r].source \notin unsaved
                        => commands[r].input = commands[r].source
  BY DEF SerialRunsCurrent
<1> DEFINE links == {l \in Of("link") : l < r}
           last  == CHOOSE l \in links : \A k \in links : k <= l
<1>1. Of("link") \subseteq Nat /\ r \in Nat
  <2>1. commands \in Seq(Command)
    BY DEF TypeInv, TypeOK
  <2> QED
    BY <2>1 DEF Of
<1>2. r - 1 \in Of("link")
  BY DEF SerialInv, RunsFollowLinks
<1>3. r - 1 \in links /\ \A k \in links : k <= r - 1
  BY <1>1, <1>2
<1>4. \A l \in links : (\A k \in links : k <= l) => l = r - 1
  BY <1>1, <1>3
<1>5. last = r - 1
  <2> HIDE DEF links
  <2> QED
    BY <1>3, <1>4
<1> QED
  BY <1>5 DEF SerialInv, RunInput

(* Whoever waits for every command to be over runs what was compiled last, *)
(* in a session of any length: unless a file was not written, or g++ built *)
(* nothing.                                                                *)
THEOREM SerialRunsCurrentHolds == Spec => []SerialRunsCurrent
BY InitSerial, StepSerial, SerialInvSuffices, InitTypeInv, StepTypeInv, PTL DEF Spec
================================================================================
