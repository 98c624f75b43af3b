------------------------------ MODULE UiQueue ------------------------------
(***************************************************************************)
(* The queue between the worker threads and the UI thread of                *)
(* arelle/CntlrWinMain.py.  Worker threads never touch tk widgets: they put  *)
(* callbacks on uiThreadQueue, and the UI thread's uiThreadChecker runs them *)
(* ten times per second.  A worker that needs a password or a logon puts a   *)
(* modal dialog on the queue and waits on an event that the dialog sets.     *)
(***************************************************************************)
EXTENDS Naturals, Sequences

CONSTANTS
    Workers,        \* background threads: load, validate, compare, rss watch, ...
    UI,             \* the UI thread, which may also ask for a password or a logon
    MaxPuts,        \* bound: callbacks put by each thread
    Polls,          \* turns of the loop of waitForUiThreadQueue (40)
    Raising         \* callbacks may raise (a view of a model closed meanwhile)

ASSUME ThreadAssumption == UI \notin Workers
ASSUME BoundAssumption  == MaxPuts \in Nat /\ Polls \in Nat \ {0}
ASSUME ChoiceAssumption == Raising \in BOOLEAN

Threads == Workers \cup {UI}

\* Callbacks: uiShowStatus with and without clearAfter, the dialogs askUserPassword
\* and askInternetLogon, and any other (uiAddToLog, showLoadedXbrl, a view's reload).
StatusKinds == {"lasting", "clearing"}
NoText == "none"
Kinds == StatusKinds \cup {"dialog", "other"}
Callbacks == [kind : Kinds, from : Threads]

VARIABLES
    uiQueue,    \* uiThreadQueue
    ui,         \* where the UI thread is: in the main event loop, in the checker or
                \* in the event loop of a modal dialog
    dialogs,    \* the threads whose modal dialogs are open, innermost last
    armed,      \* the `after` timer of uiThreadChecker is pending
    pc,         \* thread -> running, waiting for its untilDone event, polling, done
    polls,      \* worker -> turns left in waitForUiThreadQueue
    puts,       \* thread -> callbacks put (bound MaxPuts)
    event,      \* thread -> its untilDone event is set
    text,       \* the status bar: NoText or the kind of the message shown
    timerWanted,\* statusbarTimerId is not None
    timers,     \* number of status timers not fired yet; none is ever cancelled
    raised      \* history: a callback raised

status == <<text, timerWanted, timers>>
vars == <<uiQueue, ui, dialogs, armed, pc, polls, puts, event, status, raised>>

Init ==
    /\ uiQueue = <<>>
    /\ ui = "idle" /\ dialogs = <<>> /\ armed = TRUE
    /\ pc = [t \in Threads |-> "run"]
    /\ polls = [w \in Workers |-> 0]
    /\ puts = [t \in Threads |-> 0]
    /\ event = [t \in Threads |-> FALSE]
    /\ text = NoText /\ timerWanted = FALSE /\ timers = 0
    /\ raised = FALSE

Put(kind, from) == uiQueue' = Append(uiQueue, [kind |-> kind, from |-> from])

----------------------------------------------------------------------------
(* Worker threads *)

\* addToLog, showStatus, reloadViews, rssWatchUpdateOption and the end of a
\* background load, validation or comparison.
WorkerPut(w) ==
    /\ pc[w] = "run" /\ puts[w] < MaxPuts
    /\ \E kind \in Kinds \ {"dialog"} : Put(kind, w)
    /\ puts' = [puts EXCEPT ![w] = @ + 1]
    /\ UNCHANGED <<ui, dialogs, armed, pc, polls, event, status, raised>>

\* internet_user_password and internet_logon: a fresh event, the dialog put on the
\* queue, then untilDone.wait().  Workers retrieve from the web; so does the UI
\* thread, when a menu handler (fileOpenFile, webOpen) opens a web archive.
Ask(t) ==
    /\ pc[t] = "run" /\ puts[t] < MaxPuts
    /\ t = UI => ui = "idle"
    /\ Put("dialog", t)
    /\ event' = [event EXCEPT ![t] = FALSE]
    /\ puts' = [puts EXCEPT ![t] = @ + 1]
    /\ pc' = [pc EXCEPT ![t] = "wait"]
    /\ UNCHANGED <<ui, dialogs, armed, polls, status, raised>>

Answered(t) ==
    /\ pc[t] = "wait" /\ event[t]
    /\ pc' = [pc EXCEPT ![t] = "run"]
    /\ UNCHANGED <<uiQueue, ui, dialogs, armed, polls, puts, event, status, raised>>

\* waitForUiThreadQueue: sleep until the queue is seen empty, a bounded number of
\* times; an empty queue does not mean that the callback taken from it has ended.
PollBegin(w) ==
    /\ pc[w] = "run" /\ puts[w] < MaxPuts
    /\ pc' = [pc EXCEPT ![w] = "poll"]
    /\ polls' = [polls EXCEPT ![w] = Polls]
    /\ UNCHANGED <<uiQueue, ui, dialogs, armed, puts, event, status, raised>>

Poll(w) ==
    /\ pc[w] = "poll"
    /\ IF uiQueue = <<>> \/ polls[w] = 0
         THEN pc' = [pc EXCEPT ![w] = "run"] /\ polls' = [polls EXCEPT ![w] = 0]
         ELSE polls' = [polls EXCEPT ![w] = @ - 1] /\ UNCHANGED pc
    /\ UNCHANGED <<uiQueue, ui, dialogs, armed, puts, event, status, raised>>

\* The worker's task ends.
WorkerEnds(w) ==
    /\ pc[w] = "run"
    /\ pc' = [pc EXCEPT ![w] = "done"]
    /\ UNCHANGED <<uiQueue, ui, dialogs, armed, polls, puts, event, status, raised>>

----------------------------------------------------------------------------
(* The UI thread *)

\* The UI thread runs tk's event loop, the main one or that of a modal dialog.
InEventLoop == ui \in {"idle", "dialog"} /\ pc[UI] = "run"

\* Mutant of CheckerFires: the next check is scheduled before this one drains.
CheckerFiresRearmed ==
    /\ armed /\ InEventLoop
    /\ ui' = "drain"
    /\ UNCHANGED <<uiQueue, dialogs, armed, pc, polls, puts, event, status, raised>>

\* The `after` timer fires in an event loop, that of a modal dialog included:
\* uiThreadChecker starts, and no timer is pending until it has ended.
CheckerFires ==
    /\ armed /\ InEventLoop
    /\ armed' = FALSE /\ ui' = "drain"
    /\ UNCHANGED <<uiQueue, dialogs, pc, polls, puts, event, status, raised>>

\* Back to the event loop the checker was started from.
ToEventLoop == ui' = IF dialogs = <<>> THEN "idle" ELSE "dialog"

\* Mutant of CheckerEnds: nothing schedules the next check.
CheckerEndsUnarmed ==
    /\ ui = "drain" /\ uiQueue = <<>>
    /\ ToEventLoop
    /\ UNCHANGED <<uiQueue, dialogs, armed, pc, polls, puts, event, status, raised>>

\* The queue is empty: schedule the next check.
CheckerEnds ==
    /\ ui = "drain" /\ uiQueue = <<>>
    /\ armed' = TRUE /\ ToEventLoop
    /\ UNCHANGED <<uiQueue, dialogs, pc, polls, puts, event, status, raised>>

\* Mutant of ShowStatus: statusbarTimerId is kept for the next message.
ShowStatusTimerKept(kind) ==
    /\ text' = kind
    /\ IF kind = "clearing"
         THEN timerWanted' = TRUE /\ timers' = timers + 1
         ELSE UNCHANGED <<timerWanted, timers>>

\* uiShowStatus: forget the running timer, which is not cancelled, show the
\* message, and start a timer when clearAfter is given.
ShowStatus(kind) ==
    /\ text' = kind
    /\ timerWanted' = (kind = "clearing")
    /\ timers' = IF kind = "clearing" THEN timers + 1 ELSE timers

\* Take a callback from the queue and run it to its end.
RunCallback ==
    /\ ui = "drain" /\ uiQueue # <<>>
    /\ Head(uiQueue).kind # "dialog"
    /\ uiQueue' = Tail(uiQueue)
    /\ IF Head(uiQueue).kind \in StatusKinds
         THEN ShowStatus(Head(uiQueue).kind)
         ELSE UNCHANGED status
    /\ UNCHANGED <<ui, dialogs, armed, pc, polls, puts, event, raised>>

\* A callback raises: tk reports the exception and returns to the event loop,
\* skipping the line that schedules the next check.
CallbackRaises ==
    /\ Raising
    /\ ui = "drain" /\ uiQueue # <<>>
    /\ Head(uiQueue).kind = "other"
    /\ uiQueue' = Tail(uiQueue)
    /\ raised' = TRUE /\ ToEventLoop
    /\ UNCHANGED <<dialogs, armed, pc, polls, puts, event, status>>

\* askUserPassword or askInternetLogon opens its modal dialog.
DialogOpens ==
    /\ ui = "drain" /\ uiQueue # <<>>
    /\ Head(uiQueue).kind = "dialog"
    /\ uiQueue' = Tail(uiQueue)
    /\ ui' = "dialog" /\ dialogs' = Append(dialogs, Head(uiQueue).from)
    /\ UNCHANGED <<armed, pc, polls, puts, event, status, raised>>

Asker == dialogs[Len(dialogs)]

\* Mutant of DialogCloses: the event is set only when the user accepts.
DialogClosesOnAccept ==
    /\ ui = "dialog"
    /\ \E accepted \in BOOLEAN : event' = [event EXCEPT ![Asker] = accepted]
    /\ dialogs' = SubSeq(dialogs, 1, Len(dialogs) - 1)
    /\ ui' = "drain"
    /\ UNCHANGED <<uiQueue, armed, pc, polls, puts, status, raised>>

\* The user answers or cancels the innermost dialog: the event of its thread is
\* set, and the checker that opened the dialog goes on draining.
DialogCloses ==
    /\ ui = "dialog"
    /\ event' = [event EXCEPT ![Asker] = TRUE]
    /\ dialogs' = SubSeq(dialogs, 1, Len(dialogs) - 1)
    /\ ui' = "drain"
    /\ UNCHANGED <<uiQueue, armed, pc, polls, puts, status, raised>>

\* uiClearStatusTimerEvent: whichever timer fires clears the bar as long as some
\* timer is wanted.
StatusTimerFires ==
    /\ timers > 0 /\ InEventLoop
    /\ timers' = timers - 1
    /\ timerWanted' = FALSE
    /\ text' = IF timerWanted THEN NoText ELSE text
    /\ UNCHANGED <<uiQueue, ui, dialogs, armed, pc, polls, puts, event, raised>>

----------------------------------------------------------------------------
WorkerStep(w) == WorkerPut(w) \/ PollBegin(w) \/ Poll(w) \/ WorkerEnds(w)

UiStep == \/ CheckerFires \/ CheckerEnds \/ RunCallback \/ CallbackRaises
          \/ DialogOpens \/ DialogCloses

Next == \/ \E t \in Threads : Ask(t) \/ Answered(t)
        \/ \E w \in Workers : WorkerStep(w)
        \/ UiStep \/ StatusTimerFires

\* The event loop runs, a user answers a dialog sooner or later, and a thread that
\* can go on does; nothing makes a thread put a callback or end.
Fairness == /\ WF_vars(UiStep)
            /\ \A t \in Threads : WF_vars(Answered(t))
            /\ \A w \in Workers : WF_vars(Poll(w))

Spec == Init /\ [][Next]_vars /\ Fairness

----------------------------------------------------------------------------
(* Properties *)

\* Every variable keeps its type; the queue holds callbacks of known authors.
TypeOK ==
    /\ uiQueue \in Seq(Callbacks)
    /\ ui \in {"idle", "drain", "dialog"}
    /\ dialogs \in Seq(Threads) /\ armed \in BOOLEAN
    /\ pc \in [Threads -> {"run", "wait", "poll", "done"}]
    /\ polls \in [Workers -> 0..Polls]
    /\ puts \in [Threads -> 0..MaxPuts]
    /\ event \in [Threads -> BOOLEAN]
    /\ text \in StatusKinds \cup {NoText}
    /\ timerWanted \in BOOLEAN /\ timers \in Nat
    /\ raised \in BOOLEAN

\* The threads whose request is still on its way to the user, or is the one that the
\* user can answer now.
Requested(t) == \/ \E i \in 1..Len(uiQueue) : uiQueue[i] = [kind |-> "dialog", from |-> t]
                \/ dialogs # <<>> /\ Asker = t

\* A thread that waits for its untilDone event has a dialog queued, open with no other
\* one on top of it, or answered: no request is dropped or covered and no answer goes to
\* another thread, also when two threads ask at a time and when other callbacks raise.
WaiterNotForgotten ==
    \A t \in Threads : pc[t] = "wait" => (event[t] \/ Requested(t))

\* A message shown without clearAfter stays until another message is shown: a timer
\* that an earlier message left running does not wipe it.
LastingMessageStays == [][text = "lasting" => text' # NoText]_vars

\* Every worker that asked for a password or a logon goes on, unless a callback
\* raised and stopped the checker for good, or the UI thread itself waits.
WorkerGoesOn ==
    \A w \in Workers : pc[w] = "wait" ~> (pc[w] = "run" \/ raised \/ pc[UI] = "wait")

\* Every internet_user_password or internet_logon request ends, whichever thread
\* makes it: it is documented to return a user ID and password, or the answer.
EveryRequestEnds == \A t \in Threads : pc[t] = "wait" ~> pc[t] = "run"

=============================================================================
