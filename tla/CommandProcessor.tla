--------------------------- MODULE CommandProcessor ---------------------------
(***************************************************************************)
(* One external command and the thread that serves it                      *)
(* (src/src/yipada/CommandProcessor.java, with UserInputProcessor.java for *)
(* the input).  The process writes to two pipes of limited size and reads  *)
(* from a third, in the order its script says; the thread reads standard   *)
(* output to its end before it looks at standard error.                    *)
(***************************************************************************)
EXTENDS Integers, Sequences, FiniteSets

CONSTANTS
  PipeSize,    (* what a pipe holds, in lines                              *)
  Scripts      (* what processes do: sequences over Operations             *)

Operations == {"out", "err", "in"}

ASSUME CommandAssumption ==
  /\ PipeSize \in Nat \ {0}
  /\ Scripts \subseteq Seq(Operations)

VARIABLES
  script,    (* what this process does                                     *)
  done,      (* how much of it it has done                                 *)
  child,     (* "none", "running" or "exited"                              *)
  closed,    (* which of its streams it has closed while it runs           *)
  outPipe, errPipe,    (* lines written and not yet read                   *)
  inPipe,    (* how many lines of input wait                               *)
  pc,        (* where the thread is                                        *)
  attached,  (* UserInputProcessor.out is this process's input             *)
  shown      (* what was sent to the output window                         *)

pipes == <<outPipe, errPipe, inPipe>>
vars  == <<script, done, child, closed, pipes, pc, attached, shown>>

Init ==
  /\ script \in Scripts
  /\ done = 0
  /\ child = "none"
  /\ closed = {}
  /\ outPipe = <<>>
  /\ errPipe = <<>>
  /\ inPipe = 0
  /\ pc = "exec"
  /\ attached = FALSE
  /\ shown = <<>>

(* A stream ends with its process, or when the process closes it. *)
Ended(stream) == child = "exited" \/ stream \in closed

(* A line is known by the step of the script that writes it. *)
Line(k)   == <<"line", k>>
Completed == <<"Completed!!!", 0>>
Error     == <<"CommandProcessor Error::", 0>>

------------------------------------------------------------------------------
(* The thread, CommandProcessor.run.                                       *)

Exec ==
  /\ pc = "exec"
  /\ child' = "running"
  /\ pc' = "attach"
  /\ UNCHANGED <<script, done, closed, pipes, attached, shown>>

(* The assignment to out left out. *)
AttachNot ==
  /\ pc = "attach"
  /\ pc' = "out"
  /\ UNCHANGED <<script, done, child, closed, pipes, attached, shown>>

Attach ==
  /\ pc = "attach"
  /\ attached' = TRUE
  /\ pc' = "out"
  /\ UNCHANGED <<script, done, child, closed, pipes, shown>>

ReadOut ==
  /\ pc = "out"
  /\ outPipe # <<>>
  /\ shown' = Append(shown, Head(outPipe))
  /\ outPipe' = Tail(outPipe)
  /\ UNCHANGED <<script, done, child, closed, errPipe, inPipe, pc, attached>>

(* Taken for the end of the output as soon as there is nothing to read. *)
OutNotReady ==
  /\ pc = "out"
  /\ outPipe = <<>>
  /\ pc' = "err"
  /\ UNCHANGED <<script, done, child, closed, pipes, attached, shown>>

(* readLine returns null: nothing is left, and nothing more can come. *)
OutEnds ==
  /\ pc = "out"
  /\ outPipe = <<>>
  /\ Ended("out")
  /\ pc' = "err"
  /\ UNCHANGED <<script, done, child, closed, pipes, attached, shown>>

ReadErr ==
  /\ pc = "err"
  /\ errPipe # <<>>
  /\ shown' = Append(shown, Head(errPipe))
  /\ errPipe' = Tail(errPipe)
  /\ UNCHANGED <<script, done, child, closed, outPipe, inPipe, pc, attached>>

ErrEnds ==
  /\ pc = "err"
  /\ errPipe = <<>>
  /\ Ended("err")
  /\ pc' = "wait"
  /\ UNCHANGED <<script, done, child, closed, pipes, attached, shown>>

(* The end of the streams taken for the end of the process. *)
WaitForNot ==
  /\ pc = "wait"
  /\ attached' = FALSE
  /\ pc' = "complete"
  /\ UNCHANGED <<script, done, child, closed, pipes, shown>>

(* waitFor, and out = null. *)
WaitFor ==
  /\ pc = "wait"
  /\ child = "exited"
  /\ attached' = FALSE
  /\ pc' = "complete"
  /\ UNCHANGED <<script, done, child, closed, pipes, shown>>

Complete ==
  /\ pc = "complete"
  /\ shown' = Append(shown, Completed)
  /\ pc' = "done"
  /\ UNCHANGED <<script, done, child, closed, pipes, attached>>

(* The handler sets out to null before it shows the error. *)
ThrowsDetached ==
  /\ pc \in {"exec", "out", "err", "wait", "complete"}
  /\ \/ shown' = Append(shown, Error) /\ pc' = "error"
     \/ shown' = shown /\ pc' = "dead"
  /\ attached' = FALSE
  /\ UNCHANGED <<script, done, child, closed, pipes>>

(* An exception, from exec, readLine, the callback, close or waitFor; a    *)
(* line that was being shown is lost with it.  The handler first shows the *)
(* error; when that fails as well, the thread dies and leaves out alone.   *)
Throws ==
  /\ pc \in {"exec", "out", "err", "wait", "complete"}
  /\ \/ UNCHANGED <<outPipe, errPipe>>
     \/ pc = "out" /\ outPipe # <<>> /\ outPipe' = Tail(outPipe) /\ UNCHANGED errPipe
     \/ pc = "err" /\ errPipe # <<>> /\ errPipe' = Tail(errPipe) /\ UNCHANGED outPipe
  /\ \/ shown' = Append(shown, Error) /\ pc' = "error"
     \/ shown' = shown /\ pc' = "dead"
  /\ UNCHANGED <<script, done, child, closed, inPipe, attached>>

(* The rest of the handler: out = null. *)
Recover ==
  /\ pc = "error"
  /\ attached' = FALSE
  /\ pc' = "done"
  /\ UNCHANGED <<script, done, child, closed, pipes, shown>>

Thread ==
  \/ Exec \/ Attach \/ ReadOut \/ OutEnds \/ ReadErr \/ ErrEnds \/ WaitFor \/ Complete
  \/ Recover

------------------------------------------------------------------------------
(* The process (external).  It waits while the pipe it writes to is full,  *)
(* or the one it reads from empty; a stream it has nothing more to write   *)
(* to, it may close.                                                       *)

Goes(operation) ==
  /\ child = "running"
  /\ done < Len(script)
  /\ script[done + 1] = operation
  /\ done' = done + 1
  /\ UNCHANGED <<script, child, closed, pc, attached, shown>>

WriteOut ==
  /\ Goes("out")
  /\ Len(outPipe) < PipeSize
  /\ outPipe' = Append(outPipe, Line(done + 1))
  /\ UNCHANGED <<errPipe, inPipe>>

WriteErr ==
  /\ Goes("err")
  /\ Len(errPipe) < PipeSize
  /\ errPipe' = Append(errPipe, Line(done + 1))
  /\ UNCHANGED <<outPipe, inPipe>>

ReadIn ==
  /\ Goes("in")
  /\ inPipe > 0
  /\ inPipe' = inPipe - 1
  /\ UNCHANGED <<outPipe, errPipe>>

Exit ==
  /\ child = "running"
  /\ done = Len(script)
  /\ child' = "exited"
  /\ UNCHANGED <<script, done, closed, pipes, pc, attached, shown>>

Close(stream) ==
  /\ child = "running"
  /\ stream \notin closed
  /\ \A k \in done + 1 .. Len(script) : script[k] # stream
  /\ closed' = closed \cup {stream}
  /\ UNCHANGED <<script, done, child, pipes, pc, attached, shown>>

Process == WriteOut \/ WriteErr \/ ReadIn \/ Exit \/ \E stream \in {"out", "err"} : Close(stream)

(* The write does not wait for room. *)
EnterWithoutRoom ==
  /\ attached
  /\ inPipe < 2 * PipeSize
  /\ inPipe' = inPipe + 1
  /\ UNCHANGED <<script, done, child, closed, outPipe, errPipe, pc, attached, shown>>

(* sendUserInput2StandardInput: the user enters a line. *)
Enter ==
  /\ attached
  /\ inPipe < PipeSize
  /\ inPipe' = inPipe + 1
  /\ UNCHANGED <<script, done, child, closed, outPipe, errPipe, pc, attached, shown>>

Next == Thread \/ Throws \/ Process \/ Enter

(* The thread and the process are scheduled, and no exception need ever    *)
(* come.  That the user goes on entering lines is assumed of the user.     *)
Fairness == WF_vars(Thread) /\ WF_vars(Process) /\ WF_vars(Enter)

Spec == Init /\ [][Next]_vars /\ Fairness

------------------------------------------------------------------------------
(* The variables have their types, and no pipe holds more than it can. *)
TypeOK ==
  /\ script \in Scripts
  /\ done \in 0 .. Len(script)
  /\ child \in {"none", "running", "exited"}
  /\ closed \subseteq {"out", "err"}
  /\ outPipe \in Seq({"line"} \X Nat) /\ Len(outPipe) <= PipeSize
  /\ errPipe \in Seq({"line"} \X Nat) /\ Len(errPipe) <= PipeSize
  /\ inPipe \in 0 .. PipeSize
  /\ pc \in {"exec", "attach", "out", "err", "wait", "complete", "error", "done", "dead"}
  /\ attached \in BOOLEAN
  /\ shown \in Seq({Error, Completed} \cup ({"line"} \X Nat))

(* What the window says of the end of the command. *)
Verdict ==
  IF shown = <<>> THEN "none"
  ELSE IF shown[Len(shown)] = Completed THEN "completed"
  ELSE IF shown[Len(shown)] = Error THEN "error"
  ELSE "none"

(* The steps so far that wrote a line, and the order in which their lines  *)
(* are to be shown: the whole output, and then the errors.                 *)
Written      == {k \in 1 .. done : script[k] # "in"}
Before(a, b) == IF script[a] = script[b] THEN a < b ELSE script[a] = "out"

(* "Completed!!!" is true: the process has done all it had to, everything  *)
(* it wrote has been shown, and shown once: its whole output in order, and *)
(* then all its errors in order.                                           *)
EverythingShown ==
  Verdict = "completed" =>
    LET lines == 1 .. Len(shown) - 1
    IN  /\ done = Len(script)
        /\ {shown[i] : i \in lines} = {Line(k) : k \in Written}
        /\ \A i, j \in lines : i < j => Before(shown[i][2], shown[j][2])

(* A process that runs has the input field, from the moment its thread has *)
(* set out (line 25), whatever its streams do and even when the thread has *)
(* died of an exception; it is without only after the window has shown     *)
(* the error.  And a thread that comes to its end leaves no input behind.  *)
InputWhileRunning ==
  /\ child = "running" /\ pc # "attach" /\ ~attached => Verdict = "error"
  /\ pc = "done" => ~attached

(* The process waits for the thread to empty a pipe, and the thread waits  *)
(* for the process to write to the other one, or to end.                   *)
ProcessWaits ==
  /\ child = "running"
  /\ done < Len(script)
  /\ \/ script[done + 1] = "out" /\ Len(outPipe) = PipeSize
     \/ script[done + 1] = "err" /\ Len(errPipe) = PipeSize
ThreadWaits ==
  \/ pc = "out" /\ outPipe = <<>> /\ ~Ended("out")
  \/ pc = "err" /\ errPipe = <<>> /\ ~Ended("err")
  \/ pc = "wait" /\ child # "exited"
Stuck == ProcessWaits /\ ThreadWaits

Errors(k) == Cardinality({i \in 1 .. k : script[i] = "err"})

(* The two wait for each other only when the process has filled the pipe   *)
(* of its errors, which nobody reads before its output ends.               *)
StuckOnlyOnErrors == Stuck => Errors(Len(script)) > PipeSize

(* Every thread comes to its end, or dies of an exception, unless its      *)
(* process writes more errors than their pipe holds.                       *)
Completes == Errors(Len(script)) <= PipeSize ~> pc \in {"done", "dead"}

(* Where the input field leads, seen from outside (CommandLifecycle). *)
Input ==
  IF attached THEN "connected"
  ELSE IF child = "none" \/ pc = "attach" THEN "unset"
  ELSE "closed"

Lifecycle == INSTANCE CommandLifecycle WITH input <- Input, verdict <- Verdict

(* Line by line as the thread goes through the pipes, and whatever throws, *)
(* a command keeps its promise: "Completed!!!" only of a process that has  *)
(* ended and been disconnected, input taken from a running process only    *)
(* after the error was shown, one verdict and no second connection.        *)
ImplementsLifecycle == Lifecycle!Spec
==============================================================================
