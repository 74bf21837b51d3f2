--------------------------- MODULE CommandLifecycle ---------------------------
(***************************************************************************)
(* What a command promises to the user who started it: what has become of  *)
(* its process, where the input field leads, and how the output window     *)
(* says it ended (src/src/yipada/CommandProcessor.java).                   *)
(***************************************************************************)

VARIABLES
  child,     (* "none", "running" or "exited"                              *)
  input,     (* the process's input: "unset", "connected" or "closed"      *)
  verdict    (* the last word of the command: "none", "completed", "error" *)

Init == child = "none" /\ input = "unset" /\ verdict = "none"

Start ==
  /\ child = "none" /\ verdict = "none"
  /\ child' = "running"
  /\ UNCHANGED <<input, verdict>>

(* The process ends, whatever its thread does. *)
Exit ==
  /\ child = "running"
  /\ child' = "exited"
  /\ UNCHANGED <<input, verdict>>

(* Only a process that was created, and only once. *)
Connect ==
  /\ child # "none" /\ input = "unset" /\ verdict = "none"
  /\ input' = "connected"
  /\ UNCHANGED <<child, verdict>>

(* A process that runs loses its input only after the error was shown. *)
Disconnect ==
  /\ input = "connected"
  /\ child = "exited" \/ verdict = "error"
  /\ input' = "closed"
  /\ UNCHANGED <<child, verdict>>

(* "Completed!!!" is the last that is said, of a process that has ended. *)
Complete ==
  /\ verdict = "none" /\ child = "exited" /\ input = "closed"
  /\ verdict' = "completed"
  /\ UNCHANGED <<child, input>>

(* Anything may go wrong at any time; it is said once. *)
Fail ==
  /\ verdict = "none"
  /\ verdict' = "error"
  /\ UNCHANGED <<child, input>>

Next == Start \/ Exit \/ Connect \/ Disconnect \/ Complete \/ Fail

Spec == Init /\ [][Next]_<<child, input, verdict>>
===============================================================================
