----------------------------- MODULE OutputWindow -----------------------------
(***************************************************************************)
(* The text of the IDE's output window (src/src/yipada/InputOutput.java).  *)
(* The event thread and the thread of every command append to it, each by  *)
(* reading the whole text and then setting it to what was read and the new *)
(* message; output() replaces the text.  Reading and setting the text are  *)
(* each safe for threads (JTextArea, external), but nothing holds them     *)
(* together.                                                               *)
(***************************************************************************)
EXTENDS Integers, Sequences

CONSTANTS
  Writers,       (* the threads                                            *)
  EventThread,   (* the one of them that replaces the text                 *)
  MaxMessages,   (* bound on the messages of a thread                      *)
  NoText         (* a thread is not in the middle of appending             *)

Message == Writers \X Nat

ASSUME WindowAssumption ==
  /\ EventThread \in Writers
  /\ MaxMessages \in Nat
  /\ NoText \notin Seq(Message)

VARIABLES
  window,    (* the text, as the sequence of messages it is made of        *)
  held,      (* the text a thread has read and not yet written back        *)
  sent,      (* how many messages a thread has shown                       *)
  log,       (* history: what was shown since the text was last replaced   *)
  overlap    (* history: the text changed while a thread held it           *)

vars == <<window, held, sent, log, overlap>>

Init ==
  /\ window = <<>>
  /\ held = [w \in Writers |-> NoText]
  /\ sent = [w \in Writers |-> 0]
  /\ log = <<>>
  /\ overlap = FALSE

Others(w) == \E v \in Writers \ {w} : held[v] # NoText

(* appendOutPutWindow, as far as readOutPutWindow. *)
Read(w) ==
  /\ held[w] = NoText
  /\ sent[w] < MaxMessages
  /\ held' = [held EXCEPT ![w] = window]
  /\ UNCHANGED <<window, sent, log, overlap>>

(* The message put in front of the text. *)
AppendedBefore(text, message) == <<message>> \o text

Appended(text, message) == Append(text, message)

(* The text read for the first message taken for every later one. *)
SetKeepsText(w) ==
  /\ held[w] # NoText
  /\ sent[w] < MaxMessages
  /\ LET message == <<w, sent[w] + 1>>
     IN  window' = Appended(held[w], message) /\ log' = Append(log, message)
  /\ sent' = [sent EXCEPT ![w] = @ + 1]
  /\ overlap' = (overlap \/ Others(w))
  /\ UNCHANGED held

(* The rest of appendOutPutWindow: setText. *)
Set(w) ==
  /\ held[w] # NoText
  /\ LET message == <<w, sent[w] + 1>>
     IN  window' = Appended(held[w], message) /\ log' = Append(log, message)
  /\ sent' = [sent EXCEPT ![w] = @ + 1]
  /\ held' = [held EXCEPT ![w] = NoText]
  /\ overlap' = (overlap \/ Others(w))

(* The event thread in the middle of an append replaces the text. *)
ReplaceAnytime ==
  /\ sent[EventThread] < MaxMessages
  /\ LET text == <<<<EventThread, sent[EventThread] + 1>>>>
     IN  window' = text /\ log' = text
  /\ sent' = [sent EXCEPT ![EventThread] = @ + 1]
  /\ overlap' = (overlap \/ Others(EventThread))
  /\ UNCHANGED held

(* output, by the event thread. *)
Replace ==
  /\ held[EventThread] = NoText
  /\ sent[EventThread] < MaxMessages
  /\ LET text == <<<<EventThread, sent[EventThread] + 1>>>>
     IN  window' = text /\ log' = text
  /\ sent' = [sent EXCEPT ![EventThread] = @ + 1]
  /\ overlap' = (overlap \/ Others(EventThread))
  /\ UNCHANGED held

Next == Replace \/ \E w \in Writers : Read(w) \/ Set(w)

Spec == Init /\ [][Next]_vars

------------------------------------------------------------------------------
(* The variables have their types, and a thread that holds the text has a  *)
(* message left to show.                                                   *)
TypeOK ==
  /\ window \in Seq(Message)
  /\ held \in [Writers -> Seq(Message) \cup {NoText}]
  /\ sent \in [Writers -> 0 .. MaxMessages]
  /\ log \in Seq(Message)
  /\ overlap \in BOOLEAN
  /\ \A w \in Writers : held[w] # NoText => sent[w] < MaxMessages

InOrder(text) ==
  \A i, j \in DOMAIN text : i < j /\ text[i][1] = text[j][1] => text[i][2] < text[j][2]

(* However the threads interleave, and whatever is lost, the window never  *)
(* shows a message twice, nor the messages of one thread out of order.     *)
WindowInOrder == InOrder(window)

(* As long as no text was changed between another thread's reading and     *)
(* setting it, the window shows everything since it was last replaced, in  *)
(* the order in which it was sent (appendOutPutWindow).                    *)
NothingLost == ~overlap => window = log
==============================================================================
