---------------------------- MODULE UiQueueProof ----------------------------
(***************************************************************************)
(* Theorems about UiQueue for any number of workers and callbacks.          *)
(***************************************************************************)
EXTENDS UiQueue, TLAPS

\* Removing the head of the queue leaves the other callbacks, in order.
LEMMA PopQueue ==
  ASSUME NEW q \in Seq(Callbacks), q # <<>>
  PROVE  /\ Head(q) = q[1] /\ q[1] \in Callbacks /\ Tail(q) \in Seq(Callbacks)
         /\ \A i \in 1..Len(q) : i = 1 \/ (i - 1 \in 1..Len(Tail(q)) /\ Tail(q)[i - 1] = q[i])
  OBVIOUS

\* Putting a callback on the queue adds it behind the others.
LEMMA PutQueue ==
  ASSUME NEW q \in Seq(Callbacks), NEW c \in Callbacks
  PROVE  /\ Append(q, c) \in Seq(Callbacks)
         /\ Len(q) \in Nat /\ Len(Append(q, c)) = Len(q) + 1
         /\ Append(q, c)[Len(q) + 1] = c
         /\ \A i \in 1..Len(q) : Append(q, c)[i] = q[i]
  OBVIOUS

\* The dialog of a thread, as it is queued.
LEMMA DialogCallback ==
  ASSUME NEW t \in Threads
  PROVE  [kind |-> "dialog", from |-> t] \in Callbacks
  BY DEF Callbacks, Kinds

\* A dialog opens where none is open, and closes.
LEMMA OneDialogAndNone ==
  /\ Len(<<>>) = 0
  /\ \A t \in Threads : Append(<<>>, t) = <<t>> /\ <<t>> \in Seq(Threads) /\ Len(<<t>>) = 1
                        /\ <<t>>[1] = t
  /\ \A d \in Seq(Threads) : Len(d) = 1 => SubSeq(d, 1, Len(d) - 1) = <<>> /\ d[1] \in Threads
<1>1. Len(<<>>) = 0
  OBVIOUS
<1>2. ASSUME NEW t \in Threads
      PROVE  /\ Append(<<>>, t) = <<t>> /\ <<t>> \in Seq(Threads) /\ Len(<<t>>) = 1 /\ <<t>>[1] = t
  OBVIOUS
<1>3. ASSUME NEW d \in Seq(Threads), Len(d) = 1
      PROVE  SubSeq(d, 1, Len(d) - 1) = <<>> /\ d[1] \in Threads
  <2>1. SubSeq(d, 1, 0) = <<>>
    OBVIOUS
  <2> QED
    BY <1>3, <2>1
<1> QED
  BY <1>1, <1>2, <1>3

-----------------------------------------------------------------------------
(* Dialogs *)

Types ==
  /\ uiQueue \in Seq(Callbacks) /\ dialogs \in Seq(Threads)
  /\ ui \in {"idle", "drain", "dialog"} /\ armed \in BOOLEAN
  /\ raised \in BOOLEAN /\ timerWanted \in BOOLEAN

ThreadTypes ==
  /\ pc \in [Threads -> {"run", "wait", "poll", "done"}]
  /\ polls \in [Workers -> 0..Polls]
  /\ puts \in [Threads -> 0..MaxPuts]
  /\ event \in [Threads -> BOOLEAN]

TextTypes == text \in StatusKinds \cup {NoText} /\ timers \in Nat

\* The checker runs, and opens dialogs, only where none is open: while it runs or
\* waits for a dialog its timer is not pending.
Modal ==
  /\ ui = "dialog" => ~armed /\ Len(dialogs) = 1
  /\ ui = "drain" => ~armed /\ dialogs = <<>>
  /\ ui = "idle" => dialogs = <<>>

\* The type invariant and the discipline of the checker hold together: a dialog that
\* closes is the one that is open.
LEMMA ModalHolds == Spec => [](TypeOK /\ Modal)
<1> USE BoundAssumption, ThreadAssumption DEF Modal
<1>a. TypeOK <=> Types /\ ThreadTypes /\ TextTypes
  BY DEF TypeOK, Types, ThreadTypes, TextTypes
<1>1. Init => TypeOK /\ Modal
  <2> SUFFICES ASSUME Init PROVE Types /\ ThreadTypes /\ TextTypes /\ Modal
    BY <1>a
  <2> USE DEF Init
  <2>1. uiQueue \in Seq(Callbacks) /\ dialogs \in Seq(Threads)
    OBVIOUS
  <2>2. Types /\ Modal
    BY <2>1 DEF Types
  <2>3. 0 \in 0..Polls /\ 0 \in 0..MaxPuts
    OBVIOUS
  <2>4. pc \in [Threads -> {"run", "wait", "poll", "done"}] /\ event \in [Threads -> BOOLEAN]
    OBVIOUS
  <2>5. polls \in [Workers -> 0..Polls] /\ puts \in [Threads -> 0..MaxPuts]
    BY <2>3
  <2>6. TextTypes
    BY DEF TextTypes
  <2> QED
    BY <2>2, <2>4, <2>5, <2>6 DEF ThreadTypes
<1>2. TypeOK /\ Modal /\ [Next]_vars => (TypeOK /\ Modal)'
  <2> SUFFICES ASSUME Types, ThreadTypes, TextTypes, Modal, [Next]_vars
               PROVE  Types' /\ ThreadTypes' /\ TextTypes' /\ Modal'
    BY <1>a DEF TypeOK, Types, ThreadTypes, TextTypes
  <2> USE DEF status, Threads
  <2>1. ASSUME NEW t \in Threads, Ask(t) PROVE Types' /\ ThreadTypes' /\ TextTypes' /\ Modal'
    <3>1. Types'
      BY <2>1, PutQueue, DialogCallback DEF Ask, Put, Types
    <3>2. ThreadTypes'
      BY <2>1 DEF Ask, ThreadTypes
    <3>3. TextTypes' /\ Modal'
      BY <2>1 DEF Ask, TextTypes
    <3> QED
      BY <3>1, <3>2, <3>3
  <2>2. ASSUME NEW t \in Threads, Answered(t) PROVE Types' /\ ThreadTypes' /\ TextTypes' /\ Modal'
    BY <2>2 DEF Answered, Types, ThreadTypes, TextTypes
  <2>3. ASSUME NEW w \in Workers, WorkerPut(w) PROVE Types' /\ ThreadTypes' /\ TextTypes' /\ Modal'
    <3>1. PICK kind \in Kinds : Put(kind, w)
      BY <2>3 DEF WorkerPut
    <3>2. [kind |-> kind, from |-> w] \in Callbacks
      BY DEF Callbacks
    <3>3. Types'
      BY <2>3, <3>1, <3>2, PutQueue DEF Put, WorkerPut, Types
    <3>4. ThreadTypes' /\ TextTypes' /\ Modal'
      BY <2>3 DEF WorkerPut, ThreadTypes, TextTypes
    <3> QED
      BY <3>3, <3>4
  <2>4. ASSUME NEW w \in Workers, PollBegin(w) PROVE Types' /\ ThreadTypes' /\ TextTypes' /\ Modal'
    BY <2>4 DEF PollBegin, Types, ThreadTypes, TextTypes
  <2>5. ASSUME NEW w \in Workers, Poll(w) PROVE Types' /\ ThreadTypes' /\ TextTypes' /\ Modal'
    <3>1. ThreadTypes'
      BY <2>5 DEF Poll, ThreadTypes
    <3> QED
      BY <2>5, <3>1 DEF Poll, Types, TextTypes
  <2>6. ASSUME NEW w \in Workers, WorkerEnds(w) PROVE Types' /\ ThreadTypes' /\ TextTypes' /\ Modal'
    BY <2>6 DEF WorkerEnds, Types, ThreadTypes, TextTypes
  <2>7. ASSUME CheckerFires PROVE Types' /\ ThreadTypes' /\ TextTypes' /\ Modal'
    BY <2>7 DEF CheckerFires, InEventLoop, Types, ThreadTypes, TextTypes
  <2>8. ASSUME CheckerEnds PROVE Types' /\ ThreadTypes' /\ TextTypes' /\ Modal'
    BY <2>8 DEF CheckerEnds, ToEventLoop, Types, ThreadTypes, TextTypes
  <2>9. ASSUME RunCallback PROVE Types' /\ ThreadTypes' /\ TextTypes' /\ Modal'
    <3>1. TextTypes'
      BY <2>9 DEF RunCallback, ShowStatus, TextTypes, StatusKinds
    <3>2. timerWanted' \in BOOLEAN
      BY <2>9 DEF RunCallback, ShowStatus, Types
    <3> QED
      BY <2>9, <3>1, <3>2, PopQueue DEF RunCallback, Types, ThreadTypes
  <2>10. ASSUME CallbackRaises PROVE Types' /\ ThreadTypes' /\ TextTypes' /\ Modal'
    BY <2>10, PopQueue DEF CallbackRaises, ToEventLoop, Types, ThreadTypes, TextTypes
  <2>11. ASSUME DialogOpens PROVE Types' /\ ThreadTypes' /\ TextTypes' /\ Modal'
    <3>1. uiQueue' \in Seq(Callbacks) /\ Head(uiQueue).from \in Threads
      BY <2>11, PopQueue DEF DialogOpens, Callbacks, Types
    <3>2. dialogs' \in Seq(Threads) /\ Len(dialogs') = 1 /\ ui' = "dialog" /\ armed' = armed
      BY <2>11, <3>1, OneDialogAndNone DEF DialogOpens
    <3> QED
      BY <2>11, <3>1, <3>2 DEF DialogOpens, Types, ThreadTypes, TextTypes
  <2>12. ASSUME DialogCloses PROVE Types' /\ ThreadTypes' /\ TextTypes' /\ Modal'
    <3>1. dialogs' = <<>>
      BY <2>12, OneDialogAndNone DEF DialogCloses, Types
    <3>2. dialogs' \in Seq(Threads)
      BY <3>1
    <3>3. ThreadTypes'
      BY <2>12 DEF DialogCloses, ThreadTypes
    <3> QED
      BY <2>12, <3>1, <3>2, <3>3 DEF DialogCloses, Types, TextTypes
  <2>13. ASSUME StatusTimerFires PROVE Types' /\ ThreadTypes' /\ TextTypes' /\ Modal'
    <3>1. TextTypes'
      BY <2>13 DEF StatusTimerFires, TextTypes
    <3> QED
      BY <2>13, <3>1 DEF StatusTimerFires, Types, ThreadTypes
  <2>14. CASE UNCHANGED vars
    BY <2>14 DEF vars, Types, ThreadTypes, TextTypes
  <2> QED
    BY <2>1, <2>2, <2>3, <2>4, <2>5, <2>6, <2>7, <2>8, <2>9, <2>10, <2>11, <2>12, <2>13, <2>14
       DEF Next, WorkerStep, UiStep
<1> QED
  BY <1>1, <1>2, PTL DEF Spec

\* Every variable keeps its type: waitForUiThreadQueue never counts below zero, and
\* the queue holds callbacks of known threads.
THEOREM TypeCorrect == Spec => []TypeOK
  BY ModalHolds, PTL

\* No dialog opens on top of another, whatever callbacks raise and threads ask: while a
\* modal dialog runs its own event loop, uiThreadChecker is not scheduled.
THEOREM OneDialog == Spec => [](Len(dialogs) <= 1)
<1>1. TypeOK /\ Modal => Len(dialogs) <= 1
  <2> SUFFICES ASSUME TypeOK, Modal PROVE Len(dialogs) <= 1
    OBVIOUS
  <2>1. CASE Len(dialogs) = 1
    BY <2>1
  <2>2. CASE dialogs = <<>>
    BY <2>2, OneDialogAndNone
  <2>3. ui \in {"idle", "drain", "dialog"}
    BY DEF TypeOK
  <2> QED
    BY <2>1, <2>2, <2>3 DEF Modal
<1> QED
  BY <1>1, ModalHolds, PTL

-----------------------------------------------------------------------------
(* Requests *)

\* A thread that waits has its dialog queued, open on top of all others, or answered.
THEOREM NoWaiterForgotten == Spec => []WaiterNotForgotten
<1>1. Init => WaiterNotForgotten
  BY DEF Init, WaiterNotForgotten
<1>2. TypeOK /\ Modal /\ WaiterNotForgotten /\ [Next]_vars => WaiterNotForgotten'
  <2> SUFFICES ASSUME TypeOK, Modal, WaiterNotForgotten, [Next]_vars,
                      NEW t \in Threads, pc'[t] = "wait"
               PROVE  event'[t] \/ Requested(t)'
    BY DEF WaiterNotForgotten
  <2>a. pc[t] = "wait" => event[t] \/ Requested(t)
    BY DEF WaiterNotForgotten
  <2>b. uiQueue \in Seq(Callbacks) /\ dialogs \in Seq(Threads)
    BY DEF TypeOK
  <2>1. ASSUME NEW u \in Threads, Ask(u) PROVE event'[t] \/ Requested(t)'
    <3> DEFINE c == [kind |-> "dialog", from |-> u]
    <3>1. uiQueue' = Append(uiQueue, c) /\ dialogs' = dialogs
      BY <2>1 DEF Ask, Put
    <3>2. /\ Len(uiQueue) \in Nat /\ Len(uiQueue') = Len(uiQueue) + 1
          /\ uiQueue'[Len(uiQueue) + 1] = c
          /\ \A i \in 1..Len(uiQueue) : uiQueue'[i] = uiQueue[i]
      BY <2>b, <3>1, PutQueue, DialogCallback
    <3>3. CASE t = u
      BY <3>2, <3>3 DEF Requested
    <3>4. CASE t # u
      <4>1. pc[t] = "wait" /\ event'[t] = event[t]
        BY <2>1, <3>4 DEF Ask, TypeOK
      <4> QED
        BY <2>a, <3>1, <3>2, <4>1 DEF Requested, Asker
    <3> QED
      BY <3>3, <3>4
  <2>2. ASSUME NEW u \in Threads, Answered(u) PROVE event'[t] \/ Requested(t)'
    BY <2>2, <2>a DEF Answered, TypeOK, Requested, Asker
  <2>3. ASSUME NEW w \in Workers, WorkerPut(w) PROVE event'[t] \/ Requested(t)'
    <3>1. PICK kind \in Kinds : Put(kind, w)
      BY <2>3 DEF WorkerPut
    <3>2. [kind |-> kind, from |-> w] \in Callbacks
      BY DEF Callbacks, Threads
    <3>3. /\ Len(uiQueue) \in Nat /\ Len(uiQueue') = Len(uiQueue) + 1
          /\ \A i \in 1..Len(uiQueue) : uiQueue'[i] = uiQueue[i]
      BY <2>b, <3>1, <3>2, PutQueue DEF Put
    <3>4. dialogs' = dialogs /\ event' = event /\ pc' = pc
      BY <2>3 DEF WorkerPut
    <3> QED
      BY <2>a, <3>3, <3>4 DEF Requested, Asker
  <2>4. ASSUME NEW w \in Workers, PollBegin(w) \/ Poll(w) \/ WorkerEnds(w)
        PROVE  event'[t] \/ Requested(t)'
    BY <2>4, <2>a DEF PollBegin, Poll, WorkerEnds, Requested, Asker, TypeOK, Threads
  <2>5. ASSUME CheckerFires \/ CheckerEnds \/ StatusTimerFires \/ UNCHANGED vars
        PROVE  event'[t] \/ Requested(t)'
    BY <2>5, <2>a DEF CheckerFires, CheckerEnds, StatusTimerFires, vars, Requested, Asker
  <2>6. ASSUME RunCallback \/ CallbackRaises PROVE event'[t] \/ Requested(t)'
    <3>1. /\ uiQueue # <<>> /\ uiQueue' = Tail(uiQueue) /\ uiQueue[1].kind # "dialog"
          /\ dialogs' = dialogs /\ event' = event /\ pc' = pc
      BY <2>6, <2>b, PopQueue DEF RunCallback, CallbackRaises
    <3>2. \A i \in 1..Len(uiQueue) :
             i = 1 \/ (i - 1 \in 1..Len(uiQueue') /\ uiQueue'[i - 1] = uiQueue[i])
      BY <2>b, <3>1, PopQueue
    <3>3. ASSUME NEW i \in 1..Len(uiQueue), uiQueue[i] = [kind |-> "dialog", from |-> t]
          PROVE  Requested(t)'
      <4>1. i - 1 \in 1..Len(uiQueue') /\ uiQueue'[i - 1] = [kind |-> "dialog", from |-> t]
        BY <3>1, <3>2, <3>3
      <4> QED
        BY <4>1 DEF Requested
    <3> QED
      BY <2>a, <3>1, <3>3 DEF Requested, Asker
  <2>7. ASSUME DialogOpens PROVE event'[t] \/ Requested(t)'
    <3>1. /\ uiQueue # <<>> /\ uiQueue' = Tail(uiQueue) /\ dialogs = <<>>
          /\ dialogs' = Append(dialogs, uiQueue[1].from) /\ event' = event /\ pc' = pc
          /\ uiQueue[1].from \in Threads
      BY <2>7, <2>b, PopQueue DEF DialogOpens, Modal, Callbacks
    <3>2. \A i \in 1..Len(uiQueue) :
             i = 1 \/ (i - 1 \in 1..Len(uiQueue') /\ uiQueue'[i - 1] = uiQueue[i])
      BY <2>b, <3>1, PopQueue
    <3>3. dialogs' = <<uiQueue[1].from>> /\ dialogs' # <<>> /\ Asker' = uiQueue[1].from
      BY <3>1, OneDialogAndNone DEF Asker
    <3>5. ASSUME NEW i \in 1..Len(uiQueue), uiQueue[i] = [kind |-> "dialog", from |-> t]
          PROVE  Requested(t)'
      <4>1. CASE i = 1
        <5>1. Asker' = t
          BY <3>3, <3>5, <4>1
        <5> QED
          BY <3>3, <5>1 DEF Requested
      <4>2. CASE i # 1
        <5>1. i - 1 \in 1..Len(uiQueue') /\ uiQueue'[i - 1] = [kind |-> "dialog", from |-> t]
          BY <3>2, <3>5, <4>2
        <5> QED
          BY <5>1 DEF Requested
      <4> QED
        BY <4>1, <4>2
    <3> QED
      BY <2>a, <3>1, <3>5 DEF Requested
  <2>8. ASSUME DialogCloses PROVE event'[t] \/ Requested(t)'
    <3>1. event' = [event EXCEPT ![Asker] = TRUE] /\ uiQueue' = uiQueue /\ pc' = pc
      BY <2>8 DEF DialogCloses
    <3>2. t = Asker => event'[t]
      BY <3>1 DEF TypeOK
    <3>3. event[t] => event'[t]
      BY <3>1 DEF TypeOK
    <3> QED
      BY <2>a, <3>1, <3>2, <3>3 DEF Requested
  <2> QED
    BY <2>1, <2>2, <2>3, <2>4, <2>5, <2>6, <2>7, <2>8 DEF Next, WorkerStep, UiStep
<1> QED
  BY <1>1, <1>2, ModalHolds, PTL DEF Spec

-----------------------------------------------------------------------------
(* The status bar *)

\* A message that is to stay wants no timer.
NoTimerForLasting == text = "lasting" => ~timerWanted

\* No timer of an earlier message wipes a message that is to stay.
THEOREM LastingStays == Spec => LastingMessageStays
<1>1. Init => NoTimerForLasting
  BY DEF Init, NoTimerForLasting
<1>2. NoTimerForLasting /\ [Next]_vars => NoTimerForLasting'
  BY DEF NoTimerForLasting, Next, vars, status, Ask, Answered, WorkerStep, WorkerPut, PollBegin, Poll,
     WorkerEnds, UiStep, CheckerFires, CheckerEnds, RunCallback, ShowStatus, CallbackRaises,
     DialogOpens, DialogCloses, StatusTimerFires
<1>3. NoTimerForLasting /\ [Next]_vars => [text = "lasting" => text' # NoText]_vars
  BY DEF NoTimerForLasting, Next, vars, status, Ask, Answered, WorkerStep, WorkerPut, PollBegin, Poll,
     WorkerEnds, UiStep, CheckerFires, CheckerEnds, RunCallback, ShowStatus, CallbackRaises,
     DialogOpens, DialogCloses, StatusTimerFires, StatusKinds, NoText
<1> QED
  BY <1>1, <1>2, <1>3, PTL DEF Spec, LastingMessageStays

=============================================================================
