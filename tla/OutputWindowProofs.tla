-------------------------- MODULE OutputWindowProofs --------------------------
(***************************************************************************)
(* Proofs about OutputWindow, for any number of threads and of messages.   *)
(***************************************************************************)
EXTENDS OutputWindow, TLAPS

(* The initial state has the types of the invariant. *)
LEMMA InitType == Init => TypeOK
<1> SUFFICES ASSUME Init PROVE TypeOK
  OBVIOUS
<1>1. window \in Seq(Message) /\ log \in Seq(Message)
  BY DEF Init
<1>2. held \in [Writers -> Seq(Message) \cup {NoText}] /\ \A w \in Writers : held[w] = NoText
  BY DEF Init
<1>3. sent = [w \in Writers |-> 0]
  BY DEF Init
<1>4. sent \in [Writers -> 0 .. MaxMessages]
  BY <1>3, WindowAssumption
<1>5. overlap \in BOOLEAN
  BY DEF Init
<1> QED
  BY <1>1, <1>2, <1>4, <1>5 DEF TypeOK

(* A message is added to a text that was read, so the window stays a text. *)
LEMMA StepType == TypeOK /\ [Next]_vars => TypeOK'
<1> SUFFICES ASSUME TypeOK, [Next]_vars PROVE TypeOK'
  OBVIOUS
<1> USE WindowAssumption
<1>1. ASSUME NEW w \in Writers, Read(w) PROVE TypeOK'
  BY <1>1 DEF TypeOK, Read
<1>2. ASSUME NEW w \in Writers, Set(w) PROVE TypeOK'
  <2> DEFINE message == <<w, sent[w] + 1>>
  <2>1. message \in Message /\ sent[w] + 1 \in 0 .. MaxMessages
    BY <1>2 DEF TypeOK, Set, Message
  <2>2. held[w] \in Seq(Message)
    BY <1>2 DEF TypeOK, Set
  <2>3. window' = Append(held[w], message) /\ log' = Append(log, message)
    BY <1>2 DEF Set, Appended
  <2>4. window' \in Seq(Message) /\ log' \in Seq(Message)
    <3> HIDE DEF message
    <3> QED BY <2>1, <2>2, <2>3 DEF TypeOK
  <2>5. held' \in [Writers -> Seq(Message) \cup {NoText}]
    BY <1>2 DEF TypeOK, Set
  <2>6. sent' \in [Writers -> 0 .. MaxMessages]
    BY <1>2, <2>1 DEF TypeOK, Set
  <2>7. overlap' \in BOOLEAN
    BY <1>2 DEF TypeOK, Set, Others
  <2>8. \A v \in Writers : held'[v] # NoText => sent'[v] < MaxMessages
    BY <1>2 DEF TypeOK, Set
  <2> QED
    BY <2>4, <2>5, <2>6, <2>7, <2>8 DEF TypeOK
<1>3. CASE Replace
  <2> DEFINE message == <<EventThread, sent[EventThread] + 1>>
  <2>1. message \in Message /\ sent[EventThread] + 1 \in 0 .. MaxMessages
    BY <1>3 DEF TypeOK, Replace, Message
  <2>2. window' = <<message>> /\ log' = <<message>>
    BY <1>3 DEF Replace
  <2>3. window' \in Seq(Message) /\ log' \in Seq(Message)
    <3> HIDE DEF message
    <3> QED BY <2>1, <2>2
  <2>4. sent' \in [Writers -> 0 .. MaxMessages]
    BY <1>3, <2>1 DEF TypeOK, Replace
  <2>5. overlap' \in BOOLEAN
    BY <1>3 DEF TypeOK, Replace, Others
  <2>6. /\ held' \in [Writers -> Seq(Message) \cup {NoText}]
        /\ \A v \in Writers : held'[v] # NoText => sent'[v] < MaxMessages
    BY <1>3 DEF TypeOK, Replace
  <2> QED
    BY <2>3, <2>4, <2>5, <2>6 DEF TypeOK
<1>4. CASE UNCHANGED vars
  BY <1>4 DEF TypeOK, vars
<1> QED
  BY <1>1, <1>2, <1>3, <1>4 DEF Next

(* The variables keep their types. *)
THEOREM WindowTypeOK == Spec => []TypeOK
  BY InitType, StepType, PTL DEF Spec

------------------------------------------------------------------------------
(* What keeps NothingLost: until a text changes under a thread that holds  *)
(* it, every text held is the window's.                                    *)
HeldIsCurrent == ~overlap => \A w \in Writers : held[w] # NoText => held[w] = window

KeptInv == NothingLost /\ HeldIsCurrent

LEMMA StepKept == TypeOK /\ KeptInv /\ [Next]_vars => KeptInv'
<1> SUFFICES ASSUME TypeOK, KeptInv, [Next]_vars PROVE KeptInv'
  OBVIOUS
<1> USE WindowAssumption DEF KeptInv, NothingLost, HeldIsCurrent
<1>1. ASSUME NEW w \in Writers, Read(w) PROVE KeptInv'
  BY <1>1 DEF TypeOK, Read
<1>2. ASSUME NEW w \in Writers, Set(w) PROVE KeptInv'
  <2>1. SUFFICES ASSUME ~overlap'
                 PROVE  window' = log' /\ \A v \in Writers : held'[v] = NoText
    OBVIOUS
  <2>2. ~overlap /\ \A v \in Writers \ {w} : held[v] = NoText
    BY <1>2, <2>1 DEF Set, Others
  <2>3. held[w] = log
    BY <1>2, <2>2 DEF Set
  <2>4. window' = log'
    BY <1>2, <2>3 DEF Set, Appended
  <2>5. \A v \in Writers : held'[v] = NoText
    BY <1>2, <2>2 DEF Set, TypeOK
  <2> QED
    BY <2>4, <2>5
<1>3. CASE Replace
  <2>1. SUFFICES ASSUME ~overlap'
                 PROVE  window' = log' /\ \A v \in Writers : held'[v] = NoText
    OBVIOUS
  <2>2. \A v \in Writers : held[v] = NoText
    BY <1>3, <2>1 DEF Replace, Others
  <2> QED
    BY <1>3, <2>2 DEF Replace
<1>4. CASE UNCHANGED vars
  BY <1>4 DEF vars
<1> QED
  BY <1>1, <1>2, <1>3, <1>4 DEF Next

(* As long as no text changes under a thread that holds it, no message is  *)
(* lost, however many threads there are.                                   *)
THEOREM NothingLostHolds == Spec => []NothingLost
<1>1. Init => KeptInv
  BY DEF Init, KeptInv, NothingLost, HeldIsCurrent
<1>2. KeptInv => NothingLost
  BY DEF KeptInv
<1> QED
  BY <1>1, <1>2, StepKept, WindowTypeOK, PTL DEF Spec

------------------------------------------------------------------------------
(* A text that shows messages in order, and none of them before it was     *)
(* sent: "sent" is the number of messages of each thread.                  *)
Shows(text, counts) ==
  /\ InOrder(text)
  /\ \A i \in DOMAIN text : text[i][2] <= counts[text[i][1]]

OrderInv ==
  /\ Shows(window, sent)
  /\ \A w \in Writers : held[w] # NoText => Shows(held[w], sent)

Counts == [Writers -> Nat]

(* Sending more leaves what is shown in order. *)
LEMMA ShowsGrows ==
  ASSUME NEW text \in Seq(Message), NEW c \in Counts, NEW d \in Counts,
         \A w \in Writers : c[w] <= d[w], Shows(text, c)
  PROVE  Shows(text, d)
<1> SUFFICES ASSUME NEW i \in DOMAIN text PROVE text[i][2] <= d[text[i][1]]
  BY DEF Shows
<1>1. text[i] \in Message /\ text[i][1] \in Writers /\ text[i][2] \in Nat
  BY DEF Message
<1>2. text[i][2] <= c[text[i][1]]
  BY DEF Shows
<1> QED
  BY <1>1, <1>2 DEF Counts

(* A thread's next message, put behind a text that shows none it has not   *)
(* sent, is in order there.                                                *)
LEMMA ShowsNext ==
  ASSUME NEW text \in Seq(Message), NEW c \in Counts, NEW w \in Writers,
         Shows(text, c)
  PROVE  Shows(Append(text, <<w, c[w] + 1>>), [c EXCEPT ![w] = @ + 1])
<1> DEFINE m    == <<w, c[w] + 1>>
           new  == Append(text, m)
           d    == [c EXCEPT ![w] = @ + 1]
<1>1. c[w] \in Nat /\ d \in Counts /\ (\A v \in Writers : c[v] <= d[v]) /\ d[w] = c[w] + 1
  BY DEF Counts
<1>2. m \in Message /\ m[1] = w /\ m[2] = c[w] + 1
  BY <1>1 DEF Message
<1>3. Shows(text, d)
  <2> HIDE DEF d
  <2> QED BY <1>1, ShowsGrows
<1>4. \A i \in DOMAIN text : text[i] \in Message /\ text[i][1] \in Writers /\ text[i][2] \in Nat
                             /\ text[i][2] <= c[text[i][1]]
  BY DEF Message, Shows
<1>5. /\ DOMAIN new = 1 .. Len(text) + 1
      /\ DOMAIN text = 1 .. Len(text)
      /\ Len(text) \in Nat
      /\ \A i \in DOMAIN text : new[i] = text[i]
      /\ new[Len(text) + 1] = m
  <2> HIDE DEF m
  <2> QED BY <1>2
<1> HIDE DEF m, new, d
<1>6. InOrder(new)
  <2> SUFFICES ASSUME NEW i \in DOMAIN new, NEW j \in DOMAIN new,
                      i < j, new[i][1] = new[j][1]
               PROVE  new[i][2] < new[j][2]
    BY DEF InOrder
  <2>1. i \in DOMAIN text
    BY <1>5
  <2>2. CASE j \in DOMAIN text
    BY <1>3, <1>5, <2>1, <2>2 DEF Shows, InOrder
  <2>3. CASE j = Len(text) + 1
    <3>1. new[i] = text[i] /\ new[j] = m
      BY <1>5, <2>1, <2>3
    <3>2. text[i][2] <= c[w] /\ text[i][2] \in Nat
      BY <1>2, <1>4, <2>1, <3>1
    <3> QED
      BY <1>1, <1>2, <3>1, <3>2
  <2> QED
    BY <1>5, <2>2, <2>3
<1>7. \A i \in DOMAIN new : new[i][2] <= d[new[i][1]]
  <2> SUFFICES ASSUME NEW i \in DOMAIN new PROVE new[i][2] <= d[new[i][1]]
    OBVIOUS
  <2>1. CASE i \in DOMAIN text
    BY <1>3, <1>5, <2>1 DEF Shows
  <2>2. CASE i = Len(text) + 1
    BY <1>1, <1>2, <1>5, <2>2
  <2> QED
    BY <1>5, <2>1, <2>2
<1>8. Shows(new, d)
  BY <1>6, <1>7 DEF Shows
<1> QED
  BY <1>8 DEF new, d, m

LEMMA StepOrder == TypeOK /\ OrderInv /\ [Next]_vars => OrderInv'
<1> SUFFICES ASSUME TypeOK, OrderInv, [Next]_vars PROVE OrderInv'
  OBVIOUS
<1> USE WindowAssumption
<1>0. sent \in Counts /\ window \in Seq(Message)
      /\ \A w \in Writers : held[w] # NoText => held[w] \in Seq(Message)
  BY DEF TypeOK, Counts
<1>1. ASSUME NEW w \in Writers, Read(w) PROVE OrderInv'
  BY <1>1 DEF TypeOK, Read, OrderInv
<1>2. ASSUME NEW w \in Writers, Set(w) PROVE OrderInv'
  <2>1. window' = Append(held[w], <<w, sent[w] + 1>>) /\ sent' = [sent EXCEPT ![w] = @ + 1]
    BY <1>2 DEF Set, Appended
  <2>2. held[w] \in Seq(Message) /\ Shows(held[w], sent)
    BY <1>0, <1>2 DEF Set, OrderInv
  <2>3. Shows(window', sent')
    BY <1>0, <2>1, <2>2, ShowsNext
  <2>4. sent' \in Counts /\ \A v \in Writers : sent[v] <= sent'[v]
    BY <1>0, <2>1 DEF Counts
  <2>5. ASSUME NEW v \in Writers, held'[v] # NoText PROVE Shows(held'[v], sent')
    <3>1. held'[v] = held[v] /\ held[v] # NoText
      BY <1>2, <2>5 DEF Set, TypeOK
    <3> QED
      BY <1>0, <2>4, <3>1, ShowsGrows DEF OrderInv
  <2> QED
    BY <2>3, <2>5 DEF OrderInv
<1>3. CASE Replace
  <2> DEFINE e == EventThread
  <2>1. window' = <<<<e, sent[e] + 1>>>> /\ sent' = [sent EXCEPT ![e] = @ + 1] /\ held' = held
    BY <1>3 DEF Replace
  <2>2. sent' \in Counts /\ (\A v \in Writers : sent[v] <= sent'[v]) /\ sent'[e] = sent[e] + 1
    BY <1>0, <2>1 DEF Counts
  <2>3. Shows(window', sent')
    BY <1>0, <2>1, <2>2 DEF Shows, InOrder, Counts
  <2>4. ASSUME NEW v \in Writers, held'[v] # NoText PROVE Shows(held'[v], sent')
    BY <1>0, <2>1, <2>2, <2>4, ShowsGrows DEF OrderInv
  <2> QED
    BY <2>3, <2>4 DEF OrderInv
<1>4. CASE UNCHANGED vars
  BY <1>4 DEF OrderInv, vars
<1> QED
  BY <1>1, <1>2, <1>3, <1>4 DEF Next

(* The window never shows a message twice, nor the messages of one thread  *)
(* out of order, however the threads interleave.                           *)
THEOREM WindowInOrderHolds == Spec => []WindowInOrder
<1>1. Init => OrderInv
  BY DEF Init, OrderInv, Shows, InOrder
<1>2. OrderInv => WindowInOrder
  BY DEF OrderInv, Shows, WindowInOrder
<1> QED
  BY <1>1, <1>2, StepOrder, WindowTypeOK, PTL DEF Spec
===============================================================================
