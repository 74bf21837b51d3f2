------------------------------ MODULE IdeSession ------------------------------
(***************************************************************************)
(* The IDE while it compiles, links and runs programs                      *)
(* (src/src/mytranslate/MainWindow.java with Linker, Processor,            *)
(* CommandProcessor and UserInputProcessor of src/src/yipada).             *)
(*                                                                         *)
(* The event thread handles one menu command or key at a time.  Linking    *)
(* and running each start a thread that executes an external command, and  *)
(* nothing waits for it: the threads of several commands, their processes  *)
(* and the event thread interleave, and share the generated C++ file, the  *)
(* executable and UserInputProcessor.out, the standard input of whichever  *)
(* command attached last.                                                  *)
(*                                                                         *)
(* A source text is its number among the texts the user has compiled.      *)
(* Compile writes it to a file, parses that file, and writes the C++; a    *)
(* file that cannot be written is left as it was, or cut short, and nobody *)
(* is told (write_2_file).                                                 *)
(***************************************************************************)
EXTENDS Integers, Sequences, FiniteSets

CONSTANTS
  MaxCompiles,    (* bound on the compilations                             *)
  MaxLines,       (* bound on the lines the user enters                    *)
  MaxThrows,      (* bound on the exceptions in threads of commands        *)
  Partial         (* the C++ file while it is written, or cut short        *)

ASSUME IdeAssumption ==
  /\ MaxCompiles \in Nat
  /\ MaxLines \in Nat
  /\ MaxThrows \in Nat
  /\ Partial \notin Nat

VARIABLES
  edt,         (* what the event thread is in the middle of                *)
  version,     (* the text the user compiled last; 0 before the first      *)
  text,        (* the source file; 0: nothing that parses                  *)
  compiled,    (* the text whose compilation succeeded last                *)
  cpp,         (* the source the C++ file was generated from               *)
  exe,         (* the source the executable was built from; 0 for none     *)
  linker,      (* oLinker is not null                                      *)
  runEnabled,  (* jMnuProgramRUn is enabled                                *)
  commands,    (* the threads started so far, in order                     *)
  out,         (* whose standard input UserInputProcessor.out is; 0: null  *)
  received,    (* for each line that reached a process, whose it was       *)
  thrown,      (* how many exceptions there were in threads of commands    *)
  overlapped,  (* history: the commands that were alive with another one   *)
  unsaved      (* history: the texts of which a file was not written       *)

source == <<version, text, compiled, unsaved>>
files  == <<source, cpp, exe>>
menu   == <<linker, runEnabled>>
vars   == <<edt, files, menu, commands, out, received, thrown, overlapped>>

Kinds  == {"link", "run"}
Phases == {"started",     (* the thread has not created the process yet     *)
           "executing",   (* the process runs, out is not yet its input     *)
           "attached",    (* out was set, and the process's output is read  *)
           "failed",      (* an exception was reported                      *)
           "done",
           "dead"}        (* of an exception that could not be reported     *)

(* source: the text compiled successfully last when the thread was         *)
(* started; input: what the process works on, the C++ code g++ read or the *)
(* source of the program that runs; wrote: g++ has written the executable. *)
Command == [kind   : Kinds,
            phase  : Phases,
            child  : {"none", "running", "exited"},
            source : Nat,
            input  : Nat \cup {Partial},
            wrote  : BOOLEAN]

NewCommand(kind) ==
  [kind |-> kind, phase |-> "started", child |-> "none", source |-> compiled, input |-> 0,
   wrote |-> FALSE]

(* A command is alive as long as its thread is, or its process. *)
Alive == {c \in DOMAIN commands :
            commands[c].phase \notin {"done", "dead"} \/ commands[c].child = "running"}

Init ==
  /\ edt = "idle"
  /\ version = 0
  /\ text = 0
  /\ compiled = 0
  /\ cpp = 0
  /\ exe = 0
  /\ linker = FALSE
  /\ runEnabled = FALSE
  /\ commands = <<>>
  /\ out = 0
  /\ received = <<>>
  /\ thrown = 0
  /\ overlapped = {}
  /\ unsaved = {}

------------------------------------------------------------------------------
(* The event thread.                                                       *)

StartThread(kind) ==
  /\ commands' = Append(commands, NewCommand(kind))
  /\ overlapped' = IF Alive = {} THEN overlapped
                   ELSE overlapped \cup Alive \cup {Len(commands) + 1}

(* The Compile item: the text in the editor is saved, or it is not. *)
Compile ==
  /\ edt = "idle"
  /\ version < MaxCompiles
  /\ edt' = "compiling"
  /\ version' = version + 1
  /\ \/ text' = version + 1 /\ UNCHANGED unsaved
     \/ text' \in {text, 0} /\ unsaved' = unsaved \cup {version + 1}
  /\ UNCHANGED <<compiled, cpp, exe, menu, commands, out, received, thrown, overlapped>>

(* Whatever is wrong with the text, what an earlier compilation left stays *)
(* as it was, the Run item too.                                            *)
CompileFails ==
  /\ edt = "compiling"
  /\ edt' = "idle"
  /\ UNCHANGED <<files, menu, commands, out, received, thrown, overlapped>>

(* The C++ file is truncated, and then written; or it is not written, and  *)
(* Compile returns true all the same.                                      *)
BeginSave ==
  /\ edt = "compiling"
  /\ text # 0
  /\ edt' = "saving"
  /\ cpp' = Partial
  /\ UNCHANGED <<source, exe, menu, commands, out, received, thrown, overlapped>>

(* The text is not flushed before the file is linked. *)
EndSaveUnflushed ==
  /\ edt = "saving"
  /\ edt' = "linking"
  /\ compiled' = version
  /\ UNCHANGED <<version, text, unsaved, cpp, exe, menu, commands, out, received, thrown, overlapped>>

EndSave ==
  /\ edt = "saving"
  /\ edt' = "linking"
  /\ compiled' = version
  /\ cpp' = text
  /\ UNCHANGED <<version, text, unsaved, exe, menu, commands, out, received, thrown, overlapped>>

SaveFails ==
  /\ edt = "compiling"
  /\ text # 0
  /\ edt' = "linking"
  /\ compiled' = version
  /\ cpp' \in {cpp, Partial}
  /\ unsaved' = unsaved \cup {version}
  /\ UNCHANGED <<version, text, exe, menu, commands, out, received, thrown, overlapped>>

(* A linker object that exists is not started again. *)
LinkOnce ==
  /\ edt = "linking"
  /\ edt' = "idle"
  /\ linker' = TRUE
  /\ runEnabled' = TRUE
  /\ IF linker THEN UNCHANGED <<commands, overlapped>> ELSE StartThread("link")
  /\ UNCHANGED <<files, out, received, thrown>>

(* Linker.Link returns as soon as its thread is started. *)
Link ==
  /\ edt = "linking"
  /\ edt' = "idle"
  /\ linker' = TRUE
  /\ runEnabled' = TRUE
  /\ StartThread("link")
  /\ UNCHANGED <<files, out, received, thrown>>

(* The menu item forgets to disable itself. *)
RunStaysEnabled ==
  /\ edt = "idle"
  /\ runEnabled
  /\ StartThread("run")
  /\ linker' = FALSE
  /\ UNCHANGED <<edt, runEnabled, files, out, received, thrown>>

(* Without a linker the handler would throw, and show that. *)
Run ==
  /\ edt = "idle"
  /\ runEnabled
  /\ IF linker
       THEN StartThread("run") /\ linker' = FALSE /\ runEnabled' = FALSE
       ELSE UNCHANGED <<commands, overlapped, linker, runEnabled>>
  /\ UNCHANGED <<edt, files, out, received, thrown>>

(* The Enter key in the input field: out is tested, and then used.  A line *)
(* for which there is no process is lost.                                  *)
Enter ==
  /\ edt = "idle"
  /\ Len(received) < MaxLines
  /\ out # 0
  /\ edt' = "sending"
  /\ UNCHANGED <<files, menu, commands, out, received, thrown, overlapped>>

(* out may have changed: null throws, and a process that has ended takes   *)
(* no input.                                                               *)
Send ==
  /\ edt = "sending"
  /\ edt' = "idle"
  /\ IF out # 0 /\ commands[out].child = "running" THEN received' = Append(received, out)
     ELSE UNCHANGED received
  /\ UNCHANGED <<files, menu, commands, out, thrown, overlapped>>

------------------------------------------------------------------------------
(* The thread of a command, CommandProcessor.run.                          *)

(* exec: there must be an executable. *)
Exec(c) ==
  /\ commands[c].phase = "started"
  /\ commands[c].kind = "run" => exe # 0
  /\ commands' = [commands EXCEPT ![c].phase = "executing",
                                  ![c].child = "running",
                                  ![c].input = IF commands[c].kind = "run" THEN exe ELSE 0]
  /\ UNCHANGED <<edt, files, menu, out, received, thrown, overlapped>>

(* The assignment to out left out. *)
AttachNot(c) ==
  /\ commands[c].phase = "executing"
  /\ commands' = [commands EXCEPT ![c].phase = "attached"]
  /\ UNCHANGED <<edt, files, menu, out, received, thrown, overlapped>>

Attach(c) ==
  /\ commands[c].phase = "executing"
  /\ commands' = [commands EXCEPT ![c].phase = "attached"]
  /\ out' = c
  /\ UNCHANGED <<edt, files, menu, received, thrown, overlapped>>

(* out left alone at the end. *)
WaitForAttached(c) ==
  /\ commands[c].phase = "attached" /\ commands[c].child = "exited"
  /\ commands' = [commands EXCEPT ![c].phase = "done"]
  /\ UNCHANGED <<edt, files, menu, out, received, thrown, overlapped>>

(* waitFor; out = null, whoever it belongs to; and the last message. *)
WaitFor(c) ==
  /\ commands[c].phase = "attached" /\ commands[c].child = "exited"
  /\ commands' = [commands EXCEPT ![c].phase = "done"]
  /\ out' = 0
  /\ UNCHANGED <<edt, files, menu, received, thrown, overlapped>>

(* The last message cannot be shown: the handler is still to come. *)
CompleteThrows(c) ==
  /\ commands[c].phase = "attached" /\ commands[c].child = "exited"
  /\ thrown < MaxThrows
  /\ thrown' = thrown + 1
  /\ commands' = [commands EXCEPT ![c].phase = "failed"]
  /\ out' = 0
  /\ UNCHANGED <<edt, files, menu, received, overlapped>>

(* g++ or the executable may be missing; reading, showing or waiting may   *)
(* fail while the process runs.  A thread that cannot report it either     *)
(* dies, and leaves out alone.                                             *)
Throws(c) ==
  /\ commands[c].phase \in {"started", "attached"}
  /\ thrown < MaxThrows
  /\ thrown' = thrown + 1
  /\ \E phase \in {"failed", IF commands[c].phase = "attached" THEN "dead" ELSE "done"} :
       commands' = [commands EXCEPT ![c].phase = phase]
  /\ UNCHANGED <<edt, files, menu, out, received, overlapped>>

(* The handler, after its message: out = null, whoever it belongs to. *)
Recover(c) ==
  /\ commands[c].phase = "failed"
  /\ commands' = [commands EXCEPT ![c].phase = "done"]
  /\ out' = 0
  /\ UNCHANGED <<edt, files, menu, received, thrown, overlapped>>

------------------------------------------------------------------------------
(* The processes (external).                                               *)

Runs(c) == commands[c].child = "running"

(* g++ reads the C++ file, and may then write an executable. *)
GccReads(c) ==
  /\ Runs(c) /\ commands[c].kind = "link" /\ commands[c].input = 0
  /\ commands' = [commands EXCEPT ![c].input = cpp]
  /\ UNCHANGED <<edt, files, menu, out, received, thrown, overlapped>>

GccWrites(c) ==
  /\ Runs(c) /\ commands[c].kind = "link" /\ ~commands[c].wrote
  /\ commands[c].input \notin {0, Partial}
  /\ exe' = commands[c].input
  /\ commands' = [commands EXCEPT ![c].wrote = TRUE]
  /\ UNCHANGED <<edt, source, cpp, menu, out, received, thrown, overlapped>>

ChildExits(c) ==
  /\ Runs(c)
  /\ commands' = [commands EXCEPT ![c].child = "exited"]
  /\ UNCHANGED <<edt, files, menu, out, received, thrown, overlapped>>

ThreadStep(c) ==
  Exec(c) \/ Attach(c) \/ WaitFor(c) \/ CompleteThrows(c) \/ Throws(c) \/ Recover(c)

Next ==
  \/ Compile \/ CompileFails \/ BeginSave \/ EndSave \/ SaveFails
  \/ Link \/ Run \/ Enter \/ Send
  \/ \E c \in DOMAIN commands :
       ThreadStep(c) \/ GccReads(c) \/ GccWrites(c) \/ ChildExits(c)

Spec == Init /\ [][Next]_vars

------------------------------------------------------------------------------
(* The variables have their types, and except while the event thread       *)
(* writes it the C++ file is the translation of the text compiled last,    *)
(* unless that was not saved.                                              *)
TypeOK ==
  /\ edt \in {"idle", "compiling", "saving", "linking", "sending"}
  /\ version \in 0 .. MaxCompiles
  /\ text \in 0 .. version
  /\ compiled \in 0 .. version
  /\ unsaved \subseteq 1 .. version
  /\ IF edt = "saving" THEN cpp = Partial
     ELSE cpp \in (0 .. version) \cup {Partial} /\ (compiled \notin unsaved => cpp = compiled)
  /\ exe \in 0 .. version
  /\ linker \in BOOLEAN
  /\ runEnabled \in BOOLEAN
  /\ commands \in Seq(Command)
  /\ out \in {0} \cup DOMAIN commands
  /\ received \in Seq(DOMAIN commands)
  /\ thrown \in 0 .. MaxThrows
  /\ overlapped \subseteq DOMAIN commands

Of(kind) == {c \in DOMAIN commands : commands[c].kind = kind}

(* A program is run at most once for every link: the Run item is enabled   *)
(* only when there is a linker that no run has used yet                    *)
(* (jMnuProgramRUnActionPerformed).                                        *)
OneRunPerLink ==
  /\ runEnabled => linker
  /\ Cardinality(Of("run")) + (IF runEnabled THEN 1 ELSE 0) <= Cardinality(Of("link"))

(* out is null or the input of a command whose thread still reads its      *)
(* process's output, or that an exception has ended: no command that comes *)
(* to its end leaves its input behind, whichever others have come and gone *)
(* in between (CommandProcessor.run).                                      *)
OutAlive == out # 0 => commands[out].phase \in {"attached", "failed", "dead"}

(* A command that no other was ever alive with keeps its standard input:   *)
(* what the user enters reaches it.  With another command alive this       *)
(* fails, since whichever ends first sets out to null; and a process that  *)
(* an exception has left without its thread is alive, too.                 *)
LoneCommandHasInput ==
  \A c \in DOMAIN commands :
    commands[c].phase = "attached" /\ c \notin overlapped => out = c

(* Whoever waits for every command to be over before starting the next     *)
(* runs what was compiled successfully last, if its files were written and *)
(* g++ built it at all: a compilation that fails in between changes        *)
(* nothing, and a file that was not written concerns no other text.        *)
SerialRunsCurrent ==
  overlapped = {} =>
    \A r \in Of("run") :
      LET links == {l \in Of("link") : l < r}
          last  == CHOOSE l \in links : \A k \in links : k <= l
      IN  /\ commands[r].child # "none"
          /\ commands[last].wrote
          /\ commands[r].source \notin unsaved
          => commands[r].input = commands[r].source

(* When the Run item is enabled the link of what was compiled last was     *)
(* successful ("link successful...proceed to process d executable",        *)
(* MainWindow.java:403).                                                   *)
RunEnabledMeansLinked == runEnabled => exe = compiled
==============================================================================
