------------------------ MODULE CommandProcessorProofs ------------------------
(***************************************************************************)
(* Proofs about CommandProcessor, for every process and every size of its  *)
(* pipes.                                                                  *)
(***************************************************************************)
EXTENDS CommandProcessor, FiniteSetTheorems, TLAPS

LEMMA ScriptIsSequence ==
  ASSUME TypeOK
  PROVE  /\ script \in Seq(Operations) /\ Len(script) \in Nat
         /\ DOMAIN script = 1 .. Len(script)
         /\ done \in Nat /\ PipeSize \in Nat /\ PipeSize > 0
BY CommandAssumption DEF TypeOK

(* A process that goes on with its script. *)
LEMMA GoesEffect ==
  ASSUME TypeOK, NEW operation \in Operations, Goes(operation)
  PROVE  /\ done' = done + 1 /\ done' \in 0 .. Len(script)
         /\ done' \in DOMAIN script /\ script[done'] = operation
         /\ child = "running"
         /\ UNCHANGED <<script, child, closed, pc, attached, shown>>
BY ScriptIsSequence DEF Goes, TypeOK

LEMMA InitTypeOK == Init => TypeOK
<1> SUFFICES ASSUME Init PROVE TypeOK
  OBVIOUS
<1>1. script \in Seq(Operations)
  BY CommandAssumption DEF Init
<1>2. attached \in BOOLEAN
  BY DEF Init
<1> QED
  BY <1>1, <1>2, CommandAssumption DEF Init, TypeOK

(* Shown are lines and the two messages. *)
Texts == {Error, Completed} \cup ({"line"} \X Nat)

LEMMA StepTypeOK == TypeOK /\ [Next]_vars => TypeOK'
<1> SUFFICES ASSUME TypeOK, [Next]_vars PROVE TypeOK'
  OBVIOUS
<1> DEFINE Lines == {"line"} \X Nat
<1>0. /\ script \in Scripts /\ done \in 0 .. Len(script) /\ Len(script) \in Nat
      /\ outPipe \in Seq(Lines) /\ Len(outPipe) <= PipeSize
      /\ errPipe \in Seq(Lines) /\ Len(errPipe) <= PipeSize
      /\ inPipe \in 0 .. PipeSize /\ PipeSize \in Nat /\ PipeSize > 0
      /\ shown \in Seq(Texts) /\ Lines \subseteq Texts
      /\ child \in {"none", "running", "exited"} /\ closed \subseteq {"out", "err"}
      /\ pc \in {"exec", "attach", "out", "err", "wait", "complete", "error", "done", "dead"}
  BY ScriptIsSequence DEF TypeOK, Texts
<1>00. attached \in BOOLEAN
  BY DEF TypeOK
<1>a. ASSUME /\ script' \in Scripts /\ done' \in 0 .. Len(script')
             /\ outPipe' \in Seq(Lines) /\ Len(outPipe') <= PipeSize
             /\ errPipe' \in Seq(Lines) /\ Len(errPipe') <= PipeSize
             /\ inPipe' \in 0 .. PipeSize
             /\ shown' \in Seq(Texts)
             /\ child' \in {"none", "running", "exited"} /\ closed' \subseteq {"out", "err"}
             /\ pc' \in {"exec", "attach", "out", "err", "wait", "complete", "error", "done",
                          "dead"},
             attached' \in BOOLEAN
      PROVE  TypeOK'
  BY <1>a DEF TypeOK, Texts
<1>1. \A l \in Lines : \A q \in Seq(Lines) : Append(q, l) \in Seq(Lines) /\ Len(Append(q, l)) = Len(q) + 1
  OBVIOUS
<1>2. \A q \in Seq(Lines) : q # <<>> => /\ Head(q) \in Lines /\ Tail(q) \in Seq(Lines)
                                       /\ Len(Tail(q)) = Len(q) - 1 /\ Len(q) \in Nat
  OBVIOUS
<1>3. \A l \in Texts : Append(shown, l) \in Seq(Texts)
  BY <1>0
<1>4. Error \in Texts /\ Completed \in Texts
  BY DEF Texts
<1>5. \A k \in Nat : Line(k) \in Lines
  BY DEF Line
<1>6. attached' \in BOOLEAN
  <2>1. CASE UNCHANGED attached
    BY <1>00, <2>1
  <2>2. CASE attached' = TRUE \/ attached' = FALSE
    BY <2>2
  <2>3. CASE Next
    BY <2>1, <2>2, <2>3 DEF Next, Thread, Process, Exec, Throws, Attach, ReadOut, OutEnds, ReadErr,
       ErrEnds, WaitFor, Complete, Recover, WriteOut, WriteErr, ReadIn, Goes, Exit, Close, Enter
  <2> QED
    BY <2>1, <2>3 DEF vars
<1> HIDE DEF Lines
<1>10. CASE Exec \/ Attach \/ OutEnds \/ ErrEnds \/ WaitFor \/ Recover \/ Exit
  BY <1>0, <1>6, <1>10, <1>a
     DEF Exec, Attach, OutEnds, ErrEnds, WaitFor, Recover, Exit, pipes
<1>11. CASE Complete
  BY <1>0, <1>3, <1>4, <1>6, <1>11, <1>a DEF Complete, pipes
<1>12. CASE ReadOut
  <2>1. Head(outPipe) \in Lines /\ Tail(outPipe) \in Seq(Lines) /\ Len(Tail(outPipe)) <= PipeSize
    BY <1>0, <1>2, <1>12 DEF ReadOut
  <2> QED
    BY <1>0, <1>3, <1>6, <1>12, <1>a, <2>1 DEF ReadOut
<1>13. CASE ReadErr
  <2>1. Head(errPipe) \in Lines /\ Tail(errPipe) \in Seq(Lines) /\ Len(Tail(errPipe)) <= PipeSize
    BY <1>0, <1>2, <1>13 DEF ReadErr
  <2> QED
    BY <1>0, <1>3, <1>6, <1>13, <1>a, <2>1 DEF ReadErr
<1>14. CASE WriteOut
  <2>1. done' \in 0 .. Len(script) /\ UNCHANGED <<script, child, closed, pc, attached, shown>>
    BY <1>14, GoesEffect DEF WriteOut, Operations
  <2>2. Append(outPipe, Line(done + 1)) \in Seq(Lines) /\ Len(Append(outPipe, Line(done + 1))) <= PipeSize
    BY <1>0, <1>1, <1>5, <1>14 DEF WriteOut
  <2> QED
    BY <1>0, <1>6, <1>14, <1>a, <2>1, <2>2 DEF WriteOut
<1>15. CASE WriteErr
  <2>1. done' \in 0 .. Len(script) /\ UNCHANGED <<script, child, closed, pc, attached, shown>>
    BY <1>15, GoesEffect DEF WriteErr, Operations
  <2>2. Append(errPipe, Line(done + 1)) \in Seq(Lines) /\ Len(Append(errPipe, Line(done + 1))) <= PipeSize
    BY <1>0, <1>1, <1>5, <1>15 DEF WriteErr
  <2> QED
    BY <1>0, <1>6, <1>15, <1>a, <2>1, <2>2 DEF WriteErr
<1>16. CASE ReadIn
  <2>1. done' \in 0 .. Len(script) /\ UNCHANGED <<script, child, closed, pc, attached, shown>>
    BY <1>16, GoesEffect DEF ReadIn, Operations
  <2> QED
    BY <1>0, <1>6, <1>16, <1>a, <2>1 DEF ReadIn
<1>17. CASE Enter
  BY <1>0, <1>6, <1>17, <1>a DEF Enter
<1>18. CASE Throws
  <2>0. ASSUME NEW q \in Seq(Lines), Len(q) <= PipeSize, NEW r,
               r = q \/ (q # <<>> /\ r = Tail(q))
        PROVE  r \in Seq(Lines) /\ Len(r) <= PipeSize
    <3>1. CASE r = q
      BY <2>0, <3>1
    <3>2. CASE q # <<>> /\ r = Tail(q)
      <4>1. r \in Seq(Lines) /\ Len(r) = Len(q) - 1 /\ Len(q) \in Nat
        BY <1>2, <3>2
      <4> QED
        BY <1>0, <2>0, <4>1
    <3> QED
      BY <2>0, <3>1, <3>2
  <2>1. outPipe' \in Seq(Lines) /\ Len(outPipe') <= PipeSize
    <3>1. outPipe' = outPipe \/ (outPipe # <<>> /\ outPipe' = Tail(outPipe))
      BY <1>18 DEF Throws
    <3> QED
      BY <1>0, <2>0, <3>1
  <2>2. errPipe' \in Seq(Lines) /\ Len(errPipe') <= PipeSize
    <3>1. errPipe' = errPipe \/ (errPipe # <<>> /\ errPipe' = Tail(errPipe))
      BY <1>18 DEF Throws
    <3> QED
      BY <1>0, <2>0, <3>1
  <2>3. shown' \in Seq(Texts)
    BY <1>0, <1>3, <1>4, <1>18 DEF Throws
  <2> QED
    BY <1>0, <1>6, <1>18, <1>a, <2>1, <2>2, <2>3 DEF Throws
<1>19. ASSUME NEW stream \in {"out", "err"}, Close(stream) PROVE TypeOK'
  BY <1>0, <1>6, <1>19, <1>a DEF Close, pipes
<1>20. CASE UNCHANGED vars
  BY <1>0, <1>6, <1>20, <1>a DEF vars, pipes
<1> QED
  BY <1>10, <1>11, <1>12, <1>13, <1>14, <1>15, <1>16, <1>17, <1>18, <1>19, <1>20
     DEF Next, Thread, Process

(* The variables keep their types, and no pipe ever holds more than it     *)
(* can, whatever the process writes and the user enters.                   *)
THEOREM CommandTypeOK == Spec => []TypeOK
BY InitTypeOK, StepTypeOK, PTL DEF Spec

------------------------------------------------------------------------------
(* What was said last is the verdict. *)
LEMMA Said ==
  ASSUME TypeOK, NEW text \in Texts, shown' = Append(shown, text)
  PROVE  Verdict' = IF text = Completed THEN "completed" ELSE IF text = Error THEN "error" ELSE "none"
<1>1. shown \in Seq(Texts)
  BY DEF TypeOK, Texts
<1>2. shown' # <<>> /\ shown'[Len(shown')] = text
  <2> HIDE DEF Texts
  <2> QED
    BY <1>1
<1> QED
  BY <1>2 DEF Verdict

LEMMA NothingSaid == UNCHANGED shown => UNCHANGED Verdict
BY DEF Verdict

LEMMA LineSaid ==
  ASSUME TypeOK, ReadOut \/ ReadErr
  PROVE  Verdict' = "none"
<1>1. PICK q \in {outPipe, errPipe} : q # <<>> /\ shown' = Append(shown, Head(q))
  BY DEF ReadOut, ReadErr
<1>2. Head(q) \in {"line"} \X Nat
  BY <1>1 DEF TypeOK
<1>3. Head(q)[1] = "line"
  BY <1>2
<1>4. Head(q) \in Texts /\ Head(q) # Completed /\ Head(q) # Error
  <2>1. Completed[1] # "line" /\ Error[1] # "line"
    BY DEF Completed, Error
  <2>2. Head(q) \in Texts
    BY <1>2 DEF Texts
  <2> QED
    BY <1>3, <2>1, <2>2
<1> QED
  BY <1>1, <1>4, Said

LEMMA MessageSaid ==
  ASSUME TypeOK
  PROVE  /\ shown' = Append(shown, Completed) => Verdict' = "completed"
         /\ shown' = Append(shown, Error) => Verdict' = "error"
<1>1. Completed \in Texts /\ Error \in Texts /\ Completed # Error
  BY DEF Texts, Completed, Error
<1> QED
  BY <1>1, Said

(* How far the thread is tells what it has seen of the process: the errors *)
(* are read once its output has ended and is empty, the thread waits once  *)
(* the errors have too; and what the window says of the end is said by     *)
(* then, and by nobody else.                                               *)
Connected ==
  /\ pc \in {"out", "err", "wait"} => attached
  /\ pc \in {"exec", "attach", "complete", "done"} => ~attached
  /\ pc = "dead" => attached \/ child # "running"
  /\ child = "none" => ~attached

Seen ==
  /\ pc = "exec" => child = "none"
  /\ child = "none" => pc \in {"exec", "error", "done", "dead"} /\ done = 0
  /\ child = "exited" => done = Len(script)
  /\ \A stream \in closed : \A k \in done + 1 .. Len(script) : script[k] # stream
  /\ pc \in {"err", "wait", "complete"} => Ended("out") /\ outPipe = <<>>
  /\ pc \in {"wait", "complete"} => Ended("err") /\ errPipe = <<>>
  /\ pc = "complete" => child = "exited"

Judged ==
  /\ pc \notin {"error", "done"} => Verdict = "none"
  /\ pc = "error" => Verdict = "error"
  /\ pc = "done" => Verdict = "error" \/ (Verdict = "completed" /\ child = "exited")

Stages == Connected /\ Seen /\ Judged

LEMMA InitStages == Init => Stages
BY DEF Init, Stages, Connected, Seen, Judged, Verdict

LEMMA StepConnected == TypeOK /\ Stages /\ [Next]_vars => Connected'
<1> SUFFICES ASSUME TypeOK, Connected, Seen, [Next]_vars PROVE Connected'
  BY DEF Stages
<1>1. CASE Thread
  BY <1>1 DEF Thread, Exec, Attach, ReadOut, OutEnds, ReadErr, ErrEnds, WaitFor, Complete, Recover,
              Connected, Seen
<1>2. CASE Throws
  BY <1>2 DEF Throws, Connected, Seen
<1>3. CASE Process
  <2>1. child = "running" /\ child' \in {"running", "exited"} /\ UNCHANGED <<pc, attached>>
    BY <1>3 DEF Process, WriteOut, WriteErr, ReadIn, Goes, Exit, Close
  <2> QED
    BY <2>1 DEF Connected
<1>4. CASE Enter \/ UNCHANGED vars
  BY <1>4 DEF Enter, vars, Connected
<1> QED
  BY <1>1, <1>2, <1>3, <1>4 DEF Next

LEMMA StepJudged == TypeOK /\ Stages /\ [Next]_vars => Judged'
<1> SUFFICES ASSUME TypeOK, Seen, Judged, [Next]_vars PROVE Judged'
  BY DEF Stages
<1>1. CASE Exec \/ Attach \/ OutEnds \/ ErrEnds \/ WaitFor \/ Recover
  <2>1. UNCHANGED shown
    BY <1>1 DEF Exec, Attach, OutEnds, ErrEnds, WaitFor, Recover
  <2>2. \/ pc \notin {"error", "done"} /\ pc' \notin {"error", "done"}
        \/ pc = "error" /\ pc' = "done"
    BY <1>1 DEF Exec, Attach, OutEnds, ErrEnds, WaitFor, Recover
  <2>3. Verdict' = Verdict
    BY <2>1, NothingSaid
  <2> QED
    BY <2>2, <2>3 DEF Judged
<1>2. CASE ReadOut \/ ReadErr
  BY <1>2, LineSaid DEF ReadOut, ReadErr, Judged
<1>3. CASE Complete
  BY <1>3, MessageSaid DEF Complete, Judged, Seen
<1>4. CASE Throws
  BY <1>4, MessageSaid, NothingSaid DEF Throws, Judged
<1>5. CASE Process \/ Enter \/ UNCHANGED vars
  <2>1. UNCHANGED <<pc, shown>> /\ (child' = child \/ child = "running")
    BY <1>5 DEF Process, WriteOut, WriteErr, ReadIn, Goes, Exit, Close, Enter, vars
  <2> QED
    BY <2>1, NothingSaid DEF Judged
<1> QED
  BY <1>1, <1>2, <1>3, <1>4, <1>5 DEF Next, Thread

LEMMA StepSeen == TypeOK /\ Stages /\ [Next]_vars => Seen'
<1> SUFFICES ASSUME TypeOK, Seen, [Next]_vars PROVE Seen'
  BY DEF Stages
<1>0. done \in Nat /\ Len(script) \in Nat
  BY ScriptIsSequence
<1>1. CASE Exec \/ Attach \/ ReadOut \/ OutEnds
  BY <1>1 DEF Exec, Attach, ReadOut, OutEnds, Seen, Ended, pipes
<1>2. CASE ReadErr \/ ErrEnds \/ WaitFor \/ Complete \/ Recover
  BY <1>2 DEF ReadErr, ErrEnds, WaitFor, Complete, Recover, Seen, Ended, pipes
<1>3. CASE Throws
  BY <1>3 DEF Throws, Seen, Ended
<1>4. ASSUME NEW operation \in Operations, Goes(operation),
             Ended("out") => UNCHANGED outPipe, Ended("err") => UNCHANGED errPipe
      PROVE  Seen'
  <2>1. child = "running" /\ done' = done + 1 /\ UNCHANGED <<script, child, closed, pc>>
    BY <1>4, GoesEffect
  <2>2. \A k \in done' + 1 .. Len(script) : k \in done + 1 .. Len(script)
    BY <1>0, <2>1
  <2> QED
    BY <1>4, <2>1, <2>2 DEF Seen, Ended
<1>5. ASSUME NEW stream \in {"out", "err"}, Goes(stream) PROVE ~Ended(stream)
  <2>1. child = "running" /\ done + 1 \in done + 1 .. Len(script) /\ script[done + 1] = stream
    BY <1>0, <1>5 DEF Goes
  <2> QED
    BY <2>1 DEF Seen, Ended
<1>6. CASE WriteOut \/ WriteErr \/ ReadIn
  BY <1>4, <1>5, <1>6 DEF WriteOut, WriteErr, ReadIn, Operations
<1>7. CASE Exit
  BY <1>7 DEF Exit, Seen, Ended, pipes
<1>8. ASSUME NEW stream \in {"out", "err"}, Close(stream) PROVE Seen'
  BY <1>8 DEF Close, Seen, Ended, pipes
<1>9. CASE Enter \/ UNCHANGED vars
  BY <1>9 DEF Enter, vars, pipes, Seen, Ended
<1> QED
  BY <1>1, <1>2, <1>3, <1>6, <1>7, <1>8, <1>9 DEF Next, Thread, Process

LEMMA StepStages == TypeOK /\ Stages /\ [Next]_vars => Stages'
BY StepConnected, StepSeen, StepJudged DEF Stages

(* A process that runs has the input field, once its thread has set out,   *)
(* unless the window has shown the error; and a thread that comes to its   *)
(* end leaves no input behind (out of UserInputProcessor).                 *)
THEOREM InputWhileRunningHolds == Spec => []InputWhileRunning
<1>1. TypeOK /\ Stages => InputWhileRunning
  BY DEF TypeOK, Stages, Connected, Seen, Judged, InputWhileRunning
<1> QED
  BY <1>1, InitStages, StepStages, InitTypeOK, StepTypeOK, PTL DEF Spec

------------------------------------------------------------------------------
(* Where the lines are until the command is over: every line written is    *)
(* shown or in its pipe, and each of the three, one after the other, is in *)
(* the order in which lines are to be shown.                               *)
Streams == IF pc \in {"err", "wait", "complete"} THEN {"out", "err"} ELSE {"out"}

OnlyLines(q, streams) ==
  \A i \in DOMAIN q : \E k \in Written : script[k] \in streams /\ q[i] = Line(k)
Sorted(q)      == \A i, j \in DOMAIN q : i < j => Before(q[i][2], q[j][2])
Precedes(q, r) == \A i \in DOMAIN q, j \in DOMAIN r : Before(q[i][2], r[j][2])
Holds(q, k)    == \E i \in DOMAIN q : q[i] = Line(k)

OnlyWritten   == OnlyLines(shown, Streams) /\ OnlyLines(outPipe, {"out"}) /\ OnlyLines(errPipe, {"err"})
NothingMissed == \A k \in Written : Holds(shown, k) \/ Holds(outPipe, k) \/ Holds(errPipe, k)
AllInOrder    ==
  /\ Sorted(shown) /\ Sorted(outPipe) /\ Sorted(errPipe)
  /\ Precedes(shown, outPipe) /\ Precedes(shown, errPipe)

LinesKept == pc \notin {"error", "done", "dead"} => OnlyWritten /\ NothingMissed /\ AllInOrder

CommandInv == TypeOK /\ Stages /\ LinesKept /\ EverythingShown

LEMMA InitLines == Init => LinesKept
<1> SUFFICES ASSUME Init PROVE OnlyWritten /\ NothingMissed /\ AllInOrder
  BY DEF LinesKept
<1>1. shown = <<>> /\ outPipe = <<>> /\ errPipe = <<>> /\ done = 0
  BY DEF Init
<1>2. Written = {}
  BY <1>1 DEF Written
<1> QED
  BY <1>1, <1>2 DEF OnlyWritten, NothingMissed, AllInOrder, OnlyLines, Sorted, Precedes

(* What is shown becomes longer by the first line of a pipe. *)
LEMMA Moved ==
  ASSUME TypeOK, NEW q \in Seq({"line"} \X Nat), q # <<>>,
         NEW s \in Seq({"line"} \X Nat), s = Append(shown, Head(q)),
         shown \in Seq({"line"} \X Nat),
         Sorted(shown), Sorted(q), Precedes(shown, q)
  PROVE  /\ Sorted(s) /\ Sorted(Tail(q)) /\ Precedes(s, Tail(q))
         /\ \A k \in Written : Holds(s, k) \/ Holds(Tail(q), k)
                                <=> Holds(shown, k) \/ Holds(q, k)
<1>1. /\ DOMAIN shown = 1 .. Len(shown) /\ Len(shown) \in Nat
      /\ DOMAIN s = 1 .. Len(shown) + 1
      /\ \A i \in DOMAIN shown : s[i] = shown[i]
      /\ s[Len(shown) + 1] = q[1]
  OBVIOUS
<1>2. /\ DOMAIN q = 1 .. Len(q) /\ Len(q) \in Nat /\ 1 \in DOMAIN q
      /\ DOMAIN Tail(q) = 1 .. Len(q) - 1
      /\ \A i \in DOMAIN Tail(q) : Tail(q)[i] = q[i + 1] /\ i + 1 \in DOMAIN q /\ 1 < i + 1
  OBVIOUS
<1> DEFINE r == Tail(q)
<1>3. /\ DOMAIN r = 1 .. Len(q) - 1
      /\ \A i \in DOMAIN r : r[i] = q[i + 1] /\ i + 1 \in DOMAIN q /\ 1 < i + 1
  BY <1>2
<1> HIDE DEF r
<1>4. Sorted(s)
  BY SMTT(20), <1>1, <1>2 DEF Sorted, Precedes
<1>5. Sorted(r)
  <2> SUFFICES ASSUME NEW i \in DOMAIN r, NEW j \in DOMAIN r, i < j
               PROVE  Before(r[i][2], r[j][2])
    BY DEF Sorted
  <2>1. i + 1 \in DOMAIN q /\ j + 1 \in DOMAIN q /\ i + 1 < j + 1
    BY <1>2, <1>3
  <2>2. Before(q[i + 1][2], q[j + 1][2])
    BY <2>1 DEF Sorted
  <2> QED
    BY <1>3, <2>2
<1>6. Precedes(s, r)
  <2> SUFFICES ASSUME NEW i \in DOMAIN s, NEW j \in DOMAIN r PROVE Before(s[i][2], r[j][2])
    BY DEF Precedes
  <2>1. CASE i \in DOMAIN shown
    BY <1>1, <1>3, <2>1 DEF Precedes
  <2>2. CASE i = Len(shown) + 1
    BY <1>1, <1>2, <1>3, <2>2 DEF Sorted
  <2> QED
    BY SMTT(20), <1>1, <2>1, <2>2
<1>7. ASSUME NEW k \in Written
      PROVE  Holds(s, k) \/ Holds(r, k) <=> Holds(shown, k) \/ Holds(q, k)
  <2>1. Holds(s, k) <=> Holds(shown, k) \/ q[1] = Line(k)
    <3>1. Len(shown) + 1 \in DOMAIN s
      BY <1>1
    <3>2. \A i \in DOMAIN s : i \in DOMAIN shown \/ i = Len(shown) + 1
      BY <1>1
    <3>3. \A i \in DOMAIN shown : i \in DOMAIN s
      BY <1>1
    <3> QED
      BY <1>1, <3>1, <3>2, <3>3 DEF Holds
  <2>2. Holds(q, k) <=> q[1] = Line(k) \/ Holds(r, k)
    <3>1. ASSUME NEW i \in DOMAIN q, i # 1 PROVE i - 1 \in DOMAIN r /\ r[i - 1] = q[i]
      <4>1. i \in Nat /\ i - 1 \in 1 .. Len(q) - 1
        BY <1>2, <3>1
      <4>2. i - 1 + 1 = i
        BY <4>1
      <4> QED
        BY <1>3, <4>1, <4>2
    <3>2. Holds(q, k) => q[1] = Line(k) \/ Holds(r, k)
      BY <3>1 DEF Holds
    <3>3. q[1] = Line(k) => Holds(q, k)
      BY <1>2 DEF Holds
    <3>4. Holds(r, k) => Holds(q, k)
      BY <1>3 DEF Holds
    <3> QED
      BY <3>2, <3>3, <3>4
  <2> QED
    BY <2>1, <2>2
<1> QED
  BY <1>4, <1>5, <1>6, <1>7 DEF r

(* The pipe q with the next line of the script, from the stream, is r.     *)
GrowsTo(stream, q, r) ==
  /\ Written' = Written \cup {done + 1} /\ done + 1 \notin Written
  /\ script' = script /\ script[done + 1] = stream
  /\ Sorted(r)
  /\ DOMAIN r = 1 .. Len(q) + 1 /\ DOMAIN q = 1 .. Len(q) /\ Len(q) \in Nat
  /\ \A i \in DOMAIN q : r[i] = q[i]
  /\ r[Len(q) + 1] = Line(done + 1)
  /\ \A i \in DOMAIN r : \E k \in Written' : script[k] = stream /\ r[i] = Line(k)
  /\ Holds(r, done + 1)

(* A pipe becomes longer by the line the process writes. *)
LEMMA Grown ==
  ASSUME TypeOK, NEW stream \in {"out", "err"}, Goes(stream),
         NEW q \in Seq({"line"} \X Nat), OnlyLines(q, {stream}), Sorted(q),
         NEW r, r = Append(q, Line(done + 1))
  PROVE  GrowsTo(stream, q, r)
<1>1. /\ done' = done + 1 /\ done' \in DOMAIN script /\ script[done'] = stream
      /\ script' = script /\ done \in Nat
  BY GoesEffect, ScriptIsSequence DEF Operations
<1>2. Written' = Written \cup {done + 1} /\ done + 1 \notin Written
      /\ \A k \in Written : k < done + 1
  <2>1. \A k \in Nat : k \in 1 .. done + 1 <=> k \in 1 .. done \/ k = done + 1
    BY <1>1
  <2> QED
    BY <1>1, <2>1 DEF Written
<1>3. /\ DOMAIN q = 1 .. Len(q) /\ Len(q) \in Nat
      /\ DOMAIN r = 1 .. Len(q) + 1
      /\ \A i \in DOMAIN q : r[i] = q[i] /\ i \in DOMAIN r
      /\ r[Len(q) + 1] = Line(done + 1) /\ Len(q) + 1 \in DOMAIN r
  <2> DEFINE l == Line(done + 1)
  <2>1. l \in {"line"} \X Nat
    BY <1>1 DEF Line
  <2> HIDE DEF l
  <2>2. r = Append(q, l)
    BY DEF l
  <2>3. DOMAIN r = 1 .. Len(q) + 1 /\ \A i \in DOMAIN q : r[i] = q[i] /\ i \in DOMAIN r
    BY <2>1, <2>2
  <2>4. r[Len(q) + 1] = l /\ Len(q) + 1 \in DOMAIN r
    BY <2>1, <2>2
  <2> QED
    BY <2>3, <2>4 DEF l
<1>4. \A k \in Written : Line(k)[2] = k
  BY DEF Line
<1>5. Line(done + 1)[2] = done + 1
  BY DEF Line
<1>6. Sorted(r)
  <2> SUFFICES ASSUME NEW i \in DOMAIN r, NEW j \in DOMAIN r, i < j
               PROVE  Before(r[i][2], r[j][2])
    BY DEF Sorted
  <2>1. i \in DOMAIN q
    BY <1>3
  <2>2. CASE j \in DOMAIN q
    BY <1>3, <2>1, <2>2 DEF Sorted
  <2>3. CASE j = Len(q) + 1
    <3>1. PICK k \in Written : script[k] = stream /\ q[i] = Line(k)
      BY <2>1 DEF OnlyLines
    <3>2. r[i][2] = k /\ r[j][2] = done + 1
      BY <1>3, <1>4, <1>5, <2>1, <2>3, <3>1
    <3> QED
      BY <1>1, <1>2, <3>1, <3>2 DEF Before
  <2> QED
    BY <1>3, <2>2, <2>3
<1>7. \A i \in DOMAIN r : \E k \in Written' : script[k] = stream /\ r[i] = Line(k)
  BY <1>1, <1>2, <1>3 DEF OnlyLines
<1>8. Holds(r, done + 1)
  BY <1>3 DEF Holds
<1> QED
  BY <1>1, <1>2, <1>3, <1>6, <1>7, <1>8 DEF GrowsTo

LEMMA ShownAreLines ==
  ASSUME TypeOK, OnlyLines(shown, Streams)
  PROVE  shown \in Seq({"line"} \X Nat)
<1>1. shown \in Seq(Texts) /\ done \in Nat
  BY ScriptIsSequence DEF TypeOK, Texts
<1>2. \A i \in DOMAIN shown : shown[i] \in {"line"} \X Nat
  BY <1>1 DEF OnlyLines, Written, Line
<1>3. DOMAIN shown = 1 .. Len(shown) /\ Len(shown) \in Nat /\ shown = [i \in 1 .. Len(shown) |-> shown[i]]
  BY <1>1
<1> QED
  BY <1>2, <1>3

LEMMA StepLines == TypeOK /\ Stages /\ LinesKept /\ [Next]_vars => LinesKept'
<1> SUFFICES ASSUME TypeOK, Stages, LinesKept, [Next]_vars,
                    pc' \notin {"error", "done", "dead"}
             PROVE  OnlyWritten' /\ NothingMissed' /\ AllInOrder'
  BY DEF LinesKept
<1>1. pc \notin {"error", "done", "dead"}
  BY DEF Next, Thread, Process, Exec, Throws, Attach, ReadOut, OutEnds, ReadErr, ErrEnds,
     WaitFor, Complete, Recover, WriteOut, WriteErr, ReadIn, Goes, Exit, Close, Enter, vars
<1>2. OnlyWritten /\ NothingMissed /\ AllInOrder
  BY <1>1 DEF LinesKept
<1>3. /\ shown \in Seq({"line"} \X Nat)
      /\ outPipe \in Seq({"line"} \X Nat) /\ errPipe \in Seq({"line"} \X Nat)
  BY <1>2, ShownAreLines DEF OnlyWritten, TypeOK
<1>4. \A k \in Written : Line(k)[2] = k
  BY DEF Line
<1>5. ASSUME UNCHANGED <<script, outPipe, errPipe, shown>>, Written' = Written,
             Streams \subseteq Streams'
      PROVE  OnlyWritten' /\ NothingMissed' /\ AllInOrder'
  <2>1. OnlyWritten'
    BY <1>2, <1>5 DEF OnlyWritten, OnlyLines
  <2>2. NothingMissed'
    BY <1>2, <1>5 DEF NothingMissed, Holds
  <2>3. AllInOrder'
    BY <1>2, <1>5 DEF AllInOrder, Sorted, Precedes, Before
  <2> QED
    BY <2>1, <2>2, <2>3
<1>6. CASE \/ Exec \/ Attach \/ OutEnds \/ ErrEnds \/ WaitFor \/ Exit \/ Enter \/ UNCHANGED vars
           \/ \E stream \in {"out", "err"} : Close(stream)
  <2>1. UNCHANGED <<script, outPipe, errPipe, shown, done>>
    BY <1>6 DEF Exec, Attach, OutEnds, ErrEnds, WaitFor, Exit, Enter, Close, vars, pipes
  <2>2. Written' = Written
    BY <2>1 DEF Written
  <2>3. Streams \subseteq Streams'
    BY <1>6 DEF Exec, Attach, OutEnds, ErrEnds, WaitFor, Exit, Enter, Close, vars, Streams
  <2> QED
    BY <1>5, <2>1, <2>2, <2>3
<1>7. CASE ReadIn
  <2>1. /\ done' = done + 1 /\ script[done + 1] = "in" /\ done \in Nat
        /\ UNCHANGED <<script, outPipe, errPipe, shown, pc>>
    BY <1>7, GoesEffect, ScriptIsSequence DEF ReadIn, Operations
  <2>2. Written' = Written
    <3>1. \A k \in Nat : k \in 1 .. done + 1 <=> k \in 1 .. done \/ k = done + 1
      BY <2>1
    <3> QED
      BY <2>1, <3>1 DEF Written
  <2>3. Streams' = Streams
    BY <2>1 DEF Streams
  <2> QED
    BY <1>5, <2>1, <2>2, <2>3
<1>8. CASE Throws \/ Complete \/ Recover
  BY <1>8 DEF Throws, Complete, Recover
<1>9. CASE ReadOut
  <2>1. /\ outPipe # <<>> /\ shown' = Append(shown, Head(outPipe)) /\ outPipe' = Tail(outPipe)
        /\ UNCHANGED <<script, done, errPipe, pc>> /\ pc = "out"
    BY <1>9 DEF ReadOut
  <2>2. Written' = Written /\ Streams' = Streams /\ Streams = {"out"}
    BY <2>1 DEF Written, Streams
  <2>3. /\ DOMAIN shown = 1 .. Len(shown) /\ DOMAIN shown' = 1 .. Len(shown) + 1
        /\ \A i \in DOMAIN shown : shown'[i] = shown[i]
        /\ shown'[Len(shown) + 1] = outPipe[1] /\ 1 \in DOMAIN outPipe
        /\ \A i \in DOMAIN outPipe' : i + 1 \in DOMAIN outPipe /\ outPipe'[i] = outPipe[i + 1]
    BY SMTT(20), <1>3, <2>1
  <2>4. OnlyLines(shown, {"out"})' /\ OnlyLines(outPipe, {"out"})' /\ OnlyLines(errPipe, {"err"})'
    BY <1>2, <2>1, <2>2, <2>3 DEF OnlyWritten, OnlyLines
  <2>5. shown' \in Seq({"line"} \X Nat)
    BY <1>3, <2>1
  <2>6. /\ Sorted(shown') /\ Sorted(outPipe') /\ Precedes(shown', outPipe')
        /\ \A k \in Written : Holds(shown', k) \/ Holds(outPipe', k)
                                <=> Holds(shown, k) \/ Holds(outPipe, k)
    BY <1>2, <1>3, <2>1, <2>5, Moved DEF AllInOrder
  <2>7. Precedes(shown, errPipe)'
    BY <1>4, <2>1, <2>2, <2>4 DEF Precedes, OnlyLines, Before
  <2>8. AllInOrder'
    BY <1>2, <2>1, <2>6, <2>7 DEF AllInOrder, Sorted, Precedes, Before
  <2>9. NothingMissed'
    BY <1>2, <2>1, <2>2, <2>6 DEF NothingMissed, Holds
  <2> QED
    BY <2>2, <2>4, <2>8, <2>9 DEF OnlyWritten
<1>10. CASE ReadErr
  <2>1. /\ errPipe # <<>> /\ shown' = Append(shown, Head(errPipe)) /\ errPipe' = Tail(errPipe)
        /\ UNCHANGED <<script, done, outPipe, pc>> /\ pc = "err" /\ outPipe = <<>>
    BY <1>10 DEF ReadErr, Stages, Seen
  <2>2. Written' = Written /\ Streams' = Streams /\ Streams = {"out", "err"}
    BY <2>1 DEF Written, Streams
  <2>3. /\ DOMAIN shown = 1 .. Len(shown) /\ DOMAIN shown' = 1 .. Len(shown) + 1
        /\ \A i \in DOMAIN shown : shown'[i] = shown[i]
        /\ shown'[Len(shown) + 1] = errPipe[1] /\ 1 \in DOMAIN errPipe
        /\ \A i \in DOMAIN errPipe' : i + 1 \in DOMAIN errPipe /\ errPipe'[i] = errPipe[i + 1]
    BY <1>3, <2>1
  <2>4. OnlyLines(shown, {"out", "err"})' /\ OnlyLines(outPipe, {"out"})' /\ OnlyLines(errPipe, {"err"})'
    BY <1>2, <2>1, <2>2, <2>3 DEF OnlyWritten, OnlyLines
  <2>5. shown' \in Seq({"line"} \X Nat)
    BY <1>3, <2>1
  <2>6. /\ Sorted(shown') /\ Sorted(errPipe') /\ Precedes(shown', errPipe')
        /\ \A k \in Written : Holds(shown', k) \/ Holds(errPipe', k)
                                <=> Holds(shown, k) \/ Holds(errPipe, k)
    BY <1>2, <1>3, <2>1, <2>5, Moved DEF AllInOrder
  <2>7. Precedes(shown, outPipe)'
    BY <2>1 DEF Precedes
  <2>8. AllInOrder'
    BY <1>2, <2>1, <2>6, <2>7 DEF AllInOrder, Sorted, Precedes, Before
  <2>9. NothingMissed'
    BY <1>2, <2>1, <2>2, <2>6 DEF NothingMissed, Holds
  <2> QED
    BY <2>2, <2>4, <2>8, <2>9 DEF OnlyWritten
<1>11. ASSUME NEW stream \in {"out", "err"}, Goes(stream)
       PROVE  /\ pc' = pc /\ Streams' = Streams /\ shown' = shown /\ script' = script
              /\ stream = "out" => Streams = {"out"}
  <2>1. child = "running" /\ pc' = pc /\ shown' = shown /\ script' = script
    BY <1>11, GoesEffect DEF Operations
  <2>2. done + 1 \in done + 1 .. Len(script) /\ script[done + 1] = stream
    BY <1>11, ScriptIsSequence DEF Goes
  <2>3. ~Ended(stream)
    BY <2>1, <2>2 DEF Stages, Seen, Ended
  <2>4. stream = "out" => pc \notin {"err", "wait", "complete"}
    BY <2>3 DEF Stages, Seen
  <2> QED
    BY <2>1, <2>4 DEF Streams
<1>12. CASE WriteOut
  <2> DEFINE n == done + 1
  <2>1. /\ Goes("out") /\ outPipe' = Append(outPipe, Line(n)) /\ errPipe' = errPipe
        /\ Streams' = Streams /\ Streams = {"out"} /\ shown' = shown
    BY <1>11, <1>12 DEF WriteOut
  <2>2. /\ Written' = Written \cup {n} /\ script' = script /\ script[n] = "out"
        /\ Sorted(outPipe')
        /\ DOMAIN outPipe' = 1 .. Len(outPipe) + 1 /\ DOMAIN outPipe = 1 .. Len(outPipe)
        /\ \A i \in DOMAIN outPipe : outPipe'[i] = outPipe[i]
        /\ outPipe'[Len(outPipe) + 1] = Line(n)
        /\ \A i \in DOMAIN outPipe' : \E k \in Written' : script[k] = "out" /\ outPipe'[i] = Line(k)
        /\ \A k \in Written : Holds(outPipe, k) => Holds(outPipe', k)
        /\ Holds(outPipe', n)
        /\ \A k \in Written : k < n
    <3>1. /\ outPipe \in Seq({"line"} \X Nat) /\ OnlyLines(outPipe, {"out"}) /\ Sorted(outPipe)
          /\ outPipe' = Append(outPipe, Line(done + 1)) /\ Goes("out") /\ "out" \in {"out", "err"}
      BY <1>2, <1>3, <2>1 DEF OnlyWritten, AllInOrder
    <3>0. GrowsTo("out", outPipe, outPipe')
      BY <3>1, Grown
    <3>2. Written' = Written \cup {n} /\ script' = script /\ script[n] = "out"
      BY <3>0 DEF GrowsTo
    <3>3. Sorted(outPipe')
      BY <3>0 DEF GrowsTo
    <3>4. /\ DOMAIN outPipe' = 1 .. Len(outPipe) + 1 /\ DOMAIN outPipe = 1 .. Len(outPipe)
          /\ \A i \in DOMAIN outPipe : outPipe'[i] = outPipe[i]
          /\ outPipe'[Len(outPipe) + 1] = Line(n)
      BY <3>0 DEF GrowsTo
    <3>5. \A i \in DOMAIN outPipe' : \E k \in Written' : script[k] = "out" /\ outPipe'[i] = Line(k)
      BY <3>0 DEF GrowsTo
    <3>6. \A k \in Written : Holds(outPipe, k) => Holds(outPipe', k)
      <4>1. \A i \in DOMAIN outPipe : i \in DOMAIN outPipe'
        BY <3>1, <3>4
      <4> QED
        BY <3>4, <4>1 DEF Holds
    <3>7. Holds(outPipe', n)
      BY <3>0 DEF GrowsTo
    <3>8. \A k \in Written : k < n
      BY ScriptIsSequence DEF Written
    <3> QED
      BY <3>2, <3>3, <3>4, <3>5, <3>6, <3>7, <3>8
  <2>3. OnlyWritten'
    BY <1>2, <2>1, <2>2 DEF OnlyWritten, OnlyLines
  <2>4. NothingMissed'
    BY <1>2, <2>1, <2>2 DEF NothingMissed, Holds
  <2>5. Line(n)[2] = n
    BY DEF Line
  <2>6. Precedes(shown, outPipe')
    <3> SUFFICES ASSUME NEW i \in DOMAIN shown, NEW j \in DOMAIN outPipe'
                 PROVE  Before(shown[i][2], outPipe'[j][2])
      BY DEF Precedes
    <3>1. CASE j \in DOMAIN outPipe
      BY <1>2, <2>2, <3>1 DEF AllInOrder, Precedes
    <3>2. CASE j = Len(outPipe) + 1
      <4>1. PICK k \in Written : script[k] = "out" /\ shown[i] = Line(k)
        BY <1>2, <2>1 DEF OnlyWritten, OnlyLines
      <4> QED
        BY <1>4, <2>2, <2>5, <3>2, <4>1 DEF Before
    <3> QED
      BY <2>2, <3>1, <3>2
  <2>7. AllInOrder'
    <3>1. script' = script /\ shown' = shown /\ errPipe' = errPipe
      BY <2>1, <2>2
    <3>2. Sorted(shown)' /\ Sorted(errPipe)' /\ Precedes(shown, errPipe)'
      BY <1>2, <3>1 DEF AllInOrder, Sorted, Precedes, Before
    <3>3. Sorted(outPipe)'
      BY <2>2, <3>1 DEF Sorted, Before
    <3>4. Precedes(shown, outPipe)'
      BY <2>6, <3>1 DEF Precedes, Before
    <3> QED
      BY <3>2, <3>3, <3>4 DEF AllInOrder
  <2> QED
    BY <2>3, <2>4, <2>7
<1>13. CASE WriteErr
  <2> DEFINE n == done + 1
  <2>1. /\ Goes("err") /\ errPipe' = Append(errPipe, Line(n)) /\ outPipe' = outPipe
        /\ Streams' = Streams /\ shown' = shown
    BY <1>11, <1>13 DEF WriteErr
  <2>2. /\ Written' = Written \cup {n} /\ script' = script /\ script[n] = "err"
        /\ Sorted(errPipe')
        /\ DOMAIN errPipe' = 1 .. Len(errPipe) + 1 /\ DOMAIN errPipe = 1 .. Len(errPipe)
        /\ \A i \in DOMAIN errPipe : errPipe'[i] = errPipe[i]
        /\ errPipe'[Len(errPipe) + 1] = Line(n)
        /\ \A k \in Written : k < n
        /\ \A i \in DOMAIN errPipe' : \E k \in Written' : script[k] = "err" /\ errPipe'[i] = Line(k)
        /\ \A k \in Written : Holds(errPipe, k) => Holds(errPipe', k)
        /\ Holds(errPipe', n)
    <3>1. /\ errPipe \in Seq({"line"} \X Nat) /\ OnlyLines(errPipe, {"err"}) /\ Sorted(errPipe)
          /\ errPipe' = Append(errPipe, Line(done + 1)) /\ Goes("err") /\ "err" \in {"out", "err"}
      BY <1>2, <1>3, <2>1 DEF OnlyWritten, AllInOrder
    <3>0. GrowsTo("err", errPipe, errPipe')
      BY <3>1, Grown
    <3>2. Written' = Written \cup {n} /\ script' = script /\ script[n] = "err"
      BY <3>0 DEF GrowsTo
    <3>3. Sorted(errPipe')
      BY <3>0 DEF GrowsTo
    <3>4. \A i \in DOMAIN errPipe' : \E k \in Written' : script[k] = "err" /\ errPipe'[i] = Line(k)
      BY <3>0 DEF GrowsTo
    <3>5. /\ DOMAIN errPipe' = 1 .. Len(errPipe) + 1 /\ DOMAIN errPipe = 1 .. Len(errPipe)
          /\ \A i \in DOMAIN errPipe : errPipe'[i] = errPipe[i]
          /\ errPipe'[Len(errPipe) + 1] = Line(n)
      BY <3>0 DEF GrowsTo
    <3>6. \A k \in Written : Holds(errPipe, k) => Holds(errPipe', k)
      <4>1. \A i \in DOMAIN errPipe : i \in DOMAIN errPipe'
        BY <3>1, <3>5
      <4> QED
        BY <3>5, <4>1 DEF Holds
    <3>7. Holds(errPipe', n)
      BY <3>0 DEF GrowsTo
    <3>8. \A k \in Written : k < n
      BY ScriptIsSequence DEF Written
    <3> QED
      BY <3>2, <3>3, <3>4, <3>5, <3>6, <3>7, <3>8
  <2>3. OnlyWritten'
    BY <1>2, <2>1, <2>2 DEF OnlyWritten, OnlyLines
  <2>4. NothingMissed'
    BY <1>2, <2>1, <2>2 DEF NothingMissed, Holds
  <2>5. Line(n)[2] = n
    BY DEF Line
  <2>6. Precedes(shown, errPipe')
    <3> SUFFICES ASSUME NEW i \in DOMAIN shown, NEW j \in DOMAIN errPipe'
                 PROVE  Before(shown[i][2], errPipe'[j][2])
      BY DEF Precedes
    <3>1. CASE j \in DOMAIN errPipe
      BY <1>2, <2>2, <3>1 DEF AllInOrder, Precedes
    <3>2. CASE j = Len(errPipe) + 1
      <4>1. PICK k \in Written : script[k] \in Streams /\ shown[i] = Line(k)
        BY <1>2 DEF OnlyWritten, OnlyLines
      <4>2. script[k] \in {"out", "err"}
        BY <4>1 DEF Streams
      <4> QED
        BY <1>4, <2>2, <2>5, <3>2, <4>1, <4>2 DEF Before
    <3> QED
      BY <2>2, <3>1, <3>2
  <2>7. AllInOrder'
    <3>1. script' = script /\ shown' = shown /\ outPipe' = outPipe
      BY <2>1, <2>2
    <3>2. Sorted(shown)' /\ Sorted(outPipe)' /\ Precedes(shown, outPipe)'
      BY <1>2, <3>1 DEF AllInOrder, Sorted, Precedes, Before
    <3>3. Sorted(errPipe)'
      BY <2>2, <3>1 DEF Sorted, Before
    <3>4. Precedes(shown, errPipe)'
      BY <2>6, <3>1 DEF Precedes, Before
    <3> QED
      BY <3>2, <3>3, <3>4 DEF AllInOrder
  <2> QED
    BY <2>3, <2>4, <2>7
<1> QED
  BY <1>6, <1>7, <1>8, <1>9, <1>10, <1>12, <1>13 DEF Next, Thread, Process

LEMMA StepEverything ==
  TypeOK /\ Stages /\ LinesKept /\ EverythingShown /\ [Next]_vars => EverythingShown'
<1> SUFFICES ASSUME TypeOK, Stages, LinesKept, EverythingShown, [Next]_vars
             PROVE  EverythingShown'
  OBVIOUS
<1>1. CASE Complete
  <2>1. /\ pc = "complete" /\ pc' = "done" /\ shown' = Append(shown, Completed)
        /\ UNCHANGED <<script, done, child, outPipe, errPipe>>
        /\ outPipe = <<>> /\ errPipe = <<>> /\ done = Len(script)
    BY <1>1 DEF Complete, Stages, Seen, pipes
  <2>2. OnlyWritten /\ NothingMissed /\ AllInOrder
    BY <2>1 DEF LinesKept
  <2>3. shown \in Seq(Texts) /\ Completed \in Texts
    BY DEF TypeOK, Texts
  <2>4. /\ DOMAIN shown = 1 .. Len(shown) /\ Len(shown) \in Nat
        /\ Len(shown') = Len(shown) + 1 /\ shown' # <<>>
        /\ shown'[Len(shown')] = Completed
        /\ \A i \in DOMAIN shown : shown'[i] = shown[i]
    <3> HIDE DEF Completed
    <3> QED BY <2>1, <2>3
  <2>5. Len(shown') - 1 = Len(shown) /\ Written' = Written /\ done' = Len(script')
    BY <2>1, <2>4 DEF Written
  <2>6. {shown[i] : i \in DOMAIN shown} = {Line(k) : k \in Written}
    <3>1. \A i \in DOMAIN shown : \E k \in Written : shown[i] = Line(k)
      BY <2>2 DEF OnlyWritten, OnlyLines
    <3>2. \A k \in Written : \E i \in DOMAIN shown : shown[i] = Line(k)
      BY <2>1, <2>2 DEF NothingMissed, Holds
    <3> QED
      BY <3>1, <3>2
  <2>7. \A i, j \in DOMAIN shown : i < j => Before(shown[i][2], shown[j][2])'
    BY <2>1, <2>2, <2>4 DEF AllInOrder, Sorted, Before
  <2>8. {shown'[i] : i \in 1 .. Len(shown') - 1} = {Line(k) : k \in Written'}
    BY <2>4, <2>5, <2>6
  <2>9. \A i, j \in 1 .. Len(shown') - 1 : i < j => Before(shown[i][2], shown[j][2])'
    BY <2>4, <2>5, <2>7
  <2> QED
    BY <2>4, <2>5, <2>8, <2>9 DEF EverythingShown
<1>2. CASE UNCHANGED vars
  <2>1. UNCHANGED <<script, done, child, pc, shown>>
    BY <1>2 DEF vars
  <2>2. Written' = Written /\ Verdict' = Verdict
    BY <2>1 DEF Written, Verdict
  <2> SUFFICES ASSUME Verdict = "completed" PROVE EverythingShown'
    BY <2>2 DEF EverythingShown
  <2>3. /\ done = Len(script)
        /\ {shown[i] : i \in 1 .. Len(shown) - 1} = {Line(k) : k \in Written}
        /\ \A i, j \in 1 .. Len(shown) - 1 : i < j => Before(shown[i][2], shown[j][2])
    BY DEF EverythingShown
  <2>4. done' = Len(script') /\ {shown'[i] : i \in 1 .. Len(shown') - 1} = {Line(k) : k \in Written'}
    BY <2>1, <2>2, <2>3
  <2>5. \A i, j \in 1 .. Len(shown') - 1 : i < j => Before(shown[i][2], shown[j][2])'
    BY <2>1, <2>3 DEF Before
  <2> QED
    BY <2>4, <2>5 DEF EverythingShown
<1>3. Verdict = "completed" => pc = "done" /\ child = "exited" /\ ~attached
  BY DEF Stages, Judged, Connected
<1>4. CASE Exec \/ Attach \/ OutEnds \/ ErrEnds \/ WaitFor \/ Recover
  BY <1>3, <1>4, NothingSaid
     DEF Exec, Attach, OutEnds, ErrEnds, WaitFor, Recover, EverythingShown
<1>5. CASE ReadOut \/ ReadErr
  BY <1>5, LineSaid DEF EverythingShown
<1>6. CASE Throws
  BY <1>3, <1>6, MessageSaid, NothingSaid DEF Throws, EverythingShown
<1>7. CASE Process \/ Enter
  BY <1>3, <1>7, NothingSaid
     DEF Process, WriteOut, WriteErr, ReadIn, Exit, Close, Goes, Enter, EverythingShown
<1> QED
  BY <1>1, <1>2, <1>4, <1>5, <1>6, <1>7 DEF Next, Thread

LEMMA InitCommandInv == Init => CommandInv
BY InitTypeOK, InitStages, InitLines DEF CommandInv, Init, EverythingShown, Verdict

LEMMA StepCommandInv == CommandInv /\ [Next]_vars => CommandInv'
BY StepTypeOK, StepStages, StepLines, StepEverything DEF CommandInv

(* Whatever a process writes to its two streams, and in whatever order,    *)
(* all of it has been shown when its command completes: the output in      *)
(* order, and then the errors in order.                                    *)
THEOREM EverythingShownHolds == Spec => []EverythingShown
<1>1. CommandInv => EverythingShown
  BY DEF CommandInv
<1> QED
  BY <1>1, InitCommandInv, StepCommandInv, PTL DEF Spec

------------------------------------------------------------------------------
(* A thread and a process that wait for each other: the pipe is full of    *)
(* errors, and the process is about to write one more.                     *)
LEMMA StuckErrors == CommandInv => StuckOnlyOnErrors
<1> SUFFICES ASSUME CommandInv, Stuck PROVE Errors(Len(script)) > PipeSize
  BY DEF StuckOnlyOnErrors
<1>1. TypeOK /\ Stages /\ LinesKept
  BY DEF CommandInv
<1>2. /\ script \in Seq(Operations) /\ Len(script) \in Nat
      /\ done \in Nat /\ PipeSize \in Nat /\ PipeSize > 0
      /\ errPipe \in Seq({"line"} \X Nat)
  BY <1>1, ScriptIsSequence DEF TypeOK
<1>3. /\ done < Len(script) /\ done + 1 \in done + 1 .. Len(script) /\ child = "running"
      /\ \/ script[done + 1] = "out" /\ Len(outPipe) = PipeSize
         \/ script[done + 1] = "err" /\ Len(errPipe) = PipeSize
  BY <1>2 DEF Stuck, ProcessWaits
<1>4. /\ pc = "out" /\ outPipe = <<>>
      /\ script[done + 1] = "err" /\ Len(errPipe) = PipeSize
  <2>1. ~Ended(script[done + 1])
    BY <1>1, <1>3 DEF Stages, Seen, Ended
  <2>2. pc \in {"out", "err", "wait"} /\ (pc = "out" => outPipe = <<>>) /\ (pc = "err" => errPipe = <<>>)
    BY DEF Stuck, ThreadWaits
  <2>3. PipeSize # 0 /\ Len(<<>>) = 0
    BY <1>2
  <2> QED
    BY <1>1, <1>3, <2>1, <2>2, <2>3 DEF Stages, Seen
<1>5. OnlyLines(errPipe, {"err"}) /\ Sorted(errPipe)
  BY <1>1, <1>4 DEF LinesKept, OnlyWritten, AllInOrder
<1> DEFINE E == {i \in 1 .. Len(script) : script[i] = "err"}
           F == E \ {done + 1}
           f == [i \in 1 .. PipeSize |-> errPipe[i][2]]
<1>6. IsFiniteSet(E) /\ Cardinality(E) \in Nat
  <2>1. IsFiniteSet(1 .. Len(script)) /\ E \subseteq 1 .. Len(script)
    BY <1>2, FS_Interval
  <2> QED
    BY <2>1, FS_Subset, FS_CardinalityType
<1>7. IsFiniteSet(F) /\ Cardinality(F) = Cardinality(E) - 1
  <2>1. done + 1 \in E
    BY <1>2, <1>3, <1>4
  <2> HIDE DEF E
  <2> QED
    BY <1>6, <2>1, FS_RemoveElement
<1>8. DOMAIN errPipe = 1 .. PipeSize
  BY <1>2, <1>4
<1>9. \A i \in 1 .. PipeSize : errPipe[i][2] \in F
  <2> SUFFICES ASSUME NEW i \in 1 .. PipeSize PROVE errPipe[i][2] \in F
    OBVIOUS
  <2>1. PICK k \in Written : script[k] = "err" /\ errPipe[i] = Line(k)
    BY <1>5, <1>8 DEF OnlyLines
  <2>2. errPipe[i][2] = k
    BY <2>1 DEF Line
  <2>3. k \in 1 .. done
    BY DEF Written
  <2> QED
    BY <1>2, <1>3, <1>4, <2>1, <2>2, <2>3
<1>10. f \in Injection(1 .. PipeSize, F)
  <2>1. \A i, j \in 1 .. PipeSize : i < j => errPipe[i][2] < errPipe[j][2]
    <3> SUFFICES ASSUME NEW i \in 1 .. PipeSize, NEW j \in 1 .. PipeSize, i < j
                 PROVE  errPipe[i][2] < errPipe[j][2]
      OBVIOUS
    <3>1. Before(errPipe[i][2], errPipe[j][2])
      BY <1>5, <1>8 DEF Sorted
    <3>2. script[errPipe[i][2]] = "err" /\ script[errPipe[j][2]] = "err"
      BY <1>9
    <3> QED
      BY <3>1, <3>2 DEF Before
  <2>2. \A i \in 1 .. PipeSize : errPipe[i][2] \in Nat
    BY <1>2, <1>9
  <2>3. \A i, j \in 1 .. PipeSize : f[i] = f[j] => i = j
    BY <1>2, <2>1, <2>2
  <2>4. f \in [1 .. PipeSize -> F]
    BY <1>9
  <2> HIDE DEF f, F
  <2> QED
    BY <2>3, <2>4 DEF Injection, IsInjective
<1>11. PipeSize <= Cardinality(F)
  <2>1. Cardinality(1 .. PipeSize) = PipeSize
    BY <1>2, FS_Interval
  <2> HIDE DEF f, F
  <2> QED
    BY <1>7, <1>10, <2>1, FS_Injection
<1> QED
  BY <1>2, <1>6, <1>7, <1>11 DEF Errors

(* A command can only be stuck if it writes more errors than their pipe    *)
(* holds, whatever else it writes (the two loops of CommandProcessor.run). *)
THEOREM StuckOnlyOnErrorsHolds == Spec => []StuckOnlyOnErrors
BY StuckErrors, InitCommandInv, StepCommandInv, PTL DEF Spec

------------------------------------------------------------------------------
(* What a step does for the world outside.  What the thread has seen tells *)
(* it when it may do what it does: that the process has ended when it      *)
(* takes the input away, that the input is gone when it says so.           *)
LEMMA StepLifecycle ==
  TypeOK /\ Stages /\ [Next]_vars => [Lifecycle!Next]_<<child, Input, Verdict>>
<1> SUFFICES ASSUME TypeOK, Connected, Seen, Judged, [Next]_vars
             PROVE  Lifecycle!Next \/ UNCHANGED <<child, Input, Verdict>>
  BY DEF Stages
<1>0. child \in {"none", "running", "exited"} /\ attached \in BOOLEAN
  BY DEF TypeOK
<1>1. CASE Exec
  <2>1. /\ child = "none" /\ child' = "running" /\ ~attached /\ ~attached' /\ pc' = "attach"
        /\ Verdict = "none" /\ Verdict' = "none"
    BY <1>1, NothingSaid DEF Exec, Connected, Seen, Judged
  <2> QED
    BY <2>1 DEF Input, Lifecycle!Next, Lifecycle!Start
<1>2. CASE Attach
  <2>1. /\ child # "none" /\ child' = child /\ ~attached /\ attached' /\ pc = "attach"
        /\ Verdict = "none" /\ Verdict' = "none"
    BY <1>2, NothingSaid DEF Attach, Connected, Seen, Judged
  <2> QED
    BY <2>1 DEF Input, Lifecycle!Next, Lifecycle!Connect
<1>3. CASE ReadOut \/ ReadErr \/ OutEnds \/ ErrEnds
  <2>1. UNCHANGED <<child, attached>> /\ attached
    BY <1>3 DEF ReadOut, ReadErr, OutEnds, ErrEnds, Connected
  <2>2. Verdict = "none" /\ Verdict' = "none"
    BY <1>3, NothingSaid, LineSaid DEF ReadOut, ReadErr, OutEnds, ErrEnds, Judged
  <2> QED
    BY <2>1, <2>2 DEF Input
<1>4. CASE WaitFor \/ Recover
  <2>1. UNCHANGED <<child, Verdict>> /\ ~attached' /\ pc' # "attach" /\ pc # "attach"
    BY <1>4, NothingSaid DEF WaitFor, Recover
  <2>2. CASE attached
    <3>1. child # "none" /\ (child = "exited" \/ Verdict = "error")
      BY <1>4, <2>2 DEF WaitFor, Recover, Connected, Judged
    <3> QED
      BY <2>1, <2>2, <3>1 DEF Input, Lifecycle!Next, Lifecycle!Disconnect
  <2>3. CASE ~attached
    BY <2>1, <2>3 DEF Input
  <2> QED
    BY <2>2, <2>3
<1>5. CASE Complete
  <2>1. /\ child = "exited" /\ child' = child /\ ~attached /\ ~attached'
        /\ pc = "complete" /\ pc' = "done" /\ Verdict = "none" /\ Verdict' = "completed"
    BY <1>5, MessageSaid DEF Complete, Connected, Seen, Judged
  <2> QED
    BY <2>1 DEF Input, Lifecycle!Next, Lifecycle!Complete
<1>6. CASE Throws
  <2>1. /\ UNCHANGED <<child, attached>> /\ pc' # "attach" /\ pc # "attach" /\ Verdict = "none"
        /\ Verdict' \in {"none", "error"}
    BY <1>6, MessageSaid, NothingSaid DEF Throws, Judged
  <2>2. UNCHANGED Input
    BY <2>1 DEF Input
  <2> QED
    BY <2>1, <2>2 DEF Lifecycle!Next, Lifecycle!Fail
<1>7. CASE Exit
  <2>1. child = "running" /\ child' = "exited" /\ UNCHANGED <<pc, attached, Verdict>>
    BY <1>7, NothingSaid DEF Exit
  <2> QED
    BY <2>1 DEF Input, Lifecycle!Next, Lifecycle!Exit
<1>8. CASE \/ WriteOut \/ WriteErr \/ ReadIn \/ Enter \/ UNCHANGED vars
           \/ \E stream \in {"out", "err"} : Close(stream)
  <2>1. UNCHANGED <<child, pc, attached, shown>>
    BY <1>8 DEF WriteOut, WriteErr, ReadIn, Goes, Enter, Close, vars
  <2> QED
    BY <2>1, NothingSaid DEF Input
<1> QED
  BY <1>1, <1>2, <1>3, <1>4, <1>5, <1>6, <1>7, <1>8 DEF Next, Thread, Process

(* Whatever the process writes, closes and reads, and whatever throws,     *)
(* "Completed!!!" is said only of a process that has ended and has lost    *)
(* its input, a running process loses its input only after the window has  *)
(* shown the error, it is connected once, and one verdict is given         *)
(* (CommandProcessor.run).                                                 *)
THEOREM ImplementsLifecycleHolds == Spec => ImplementsLifecycle
<1>1. Init => Lifecycle!Init
  BY DEF Init, Lifecycle!Init, Input, Verdict
<1> QED
  BY <1>1, StepLifecycle, InitTypeOK, StepTypeOK, InitStages, StepStages, PTL
     DEF Spec, ImplementsLifecycle, Lifecycle!Spec
===============================================================================
