------------------------------ MODULE RssWatch ------------------------------
(***************************************************************************)
(* The watcher of one RSS feed (arelle/WatchRss.py), the menu commands that  *)
(* start and stop it on the UI thread, and the record of the latest          *)
(* publication date it has processed, which the UI thread writes.            *)
(* Each start() that runs creates a thread; a thread is known by its number.  *)
(* The options ask for some action on the filings: without one, a cycle       *)
(* looks at no item.                                                         *)
(***************************************************************************)
EXTENDS Naturals, Sequences, FiniteSetsExt

CONSTANTS
    MaxItems,       \* bound: items the feed ever publishes
    PubDate,        \* item -> publication date
    MaxStarts,      \* bound: threads started
    MaxChanges,     \* bound: times the user changes an option
    MaxUpdates,     \* bound: dates waiting in the queue of the UI thread
    CalcModes,      \* values of validateCalcs
    FormulaChoices, \* values of validateFormulaAssertions: "unset", and the RunIDs
                    \* that False ("block") and True ("all") force on the formulas
    FeedFails       \* the feed may be unreachable when it is reloaded

Items == 1..MaxItems
Watchers == 1..MaxStarts
RunIDs == {"chosen", "all", "block"}    \* "all" is "", "block" is "**FakeId..."

\* The feed publishes in the order of the dates; some items share a date.
ASSUME DateAssumption ==
    /\ PubDate \in [Items -> Nat \ {0}]
    /\ \A i, j \in Items : i < j => PubDate[i] <= PubDate[j]
ASSUME BoundAssumption ==
    MaxItems \in Nat /\ MaxStarts \in Nat /\ MaxChanges \in Nat /\ MaxUpdates \in Nat
ASSUME ChoiceAssumption ==
    FormulaChoices \subseteq {"unset", "all", "block"} /\ FeedFails \in BOOLEAN

VARIABLES
    published,      \* the feed has published the items 1..published
    loaded,         \* rssModelXbrl.modelDocument is not None
    latest,         \* rssWatchOptions["latestPubDate"], 0 for None
    updates,        \* dates on their way to uiRssWatchUpdateOption
    tried,          \* history: items checked, or given up with an exception
    thread,         \* self.thread, 0 for None
    stopRequested,
    pc, todo, item, \* watcher -> where it is, items left of the cycle, current item
    calcs, runIDs,  \* modelManager.validateCalcs, formulaOptions.runIDs
    priorCalcs, priorRunIDs,    \* what start() saved, NoPrior for None
    rssCalcs,       \* rssWatchOptions["validateCalcs"]
    chosenCalcs,    \* history: the mode last chosen by the user
    changes         \* option changes made (bound MaxChanges)

options == <<calcs, runIDs, priorCalcs, priorRunIDs, rssCalcs, chosenCalcs, changes>>
vars == <<published, loaded, latest, updates, tried, thread, stopRequested,
          pc, todo, item, options>>

NoPrior == "None"
Ended == {"none", "dead"}
Alive(t) == pc[t] \notin Ended
Running == \E t \in Watchers : thread = t /\ Alive(t)

Init ==
    /\ published = 0 /\ loaded = TRUE
    /\ latest = 0 /\ updates = <<>> /\ tried = {}
    /\ thread = 0 /\ stopRequested = FALSE
    /\ pc = [t \in Watchers |-> "none"]
    /\ todo = [t \in Watchers |-> {}]
    /\ item = [t \in Watchers |-> 0]
    /\ calcs \in CalcModes /\ chosenCalcs = calcs /\ rssCalcs \in CalcModes
    /\ runIDs = "chosen"
    /\ priorCalcs = NoPrior /\ priorRunIDs = NoPrior
    /\ changes = 0

Goto(t, label) == pc' = [pc EXCEPT ![t] = label]

----------------------------------------------------------------------------
(* The UI thread *)

\* Mutant of Start: a thread is started whether or not one is alive.
StartAnyway(formulas) ==
    \E t \in Watchers :
        /\ loaded
        /\ pc[t] = "none" /\ \A u \in 1..(t - 1) : pc[u] # "none"
        /\ stopRequested' = FALSE
        /\ thread' = t /\ Goto(t, "loop")
        /\ UNCHANGED <<published, loaded, latest, updates, tried, todo, item, options>>

\* rssWatchControl(start=True) and start().  The command raises, and does nothing,
\* when the feed has no modelDocument.
Start(formulas) ==
    \E t \in Watchers :
        /\ loaded
        /\ ~Running
        /\ pc[t] = "none" /\ \A u \in 1..(t - 1) : pc[u] # "none"
        /\ stopRequested' = FALSE
        /\ thread' = t /\ Goto(t, "loop")
        /\ IF rssCalcs # calcs
             THEN priorCalcs' = calcs /\ calcs' = rssCalcs
             ELSE UNCHANGED <<priorCalcs, calcs>>
        /\ IF formulas = "unset"
             THEN priorRunIDs' = NoPrior /\ UNCHANGED runIDs
             ELSE priorRunIDs' = runIDs /\ runIDs' = formulas
        /\ UNCHANGED <<published, loaded, latest, updates, tried, todo, item,
                       rssCalcs, chosenCalcs, changes>>

\* rssWatchControl(stop=True) and stop().
Stop ==
    /\ loaded
    /\ Running
    /\ stopRequested' = TRUE
    /\ UNCHANGED <<published, loaded, latest, updates, tried, thread, pc, todo, item, options>>

\* uiRssWatchUpdateOption, taken from the queue in the order it was put there.
UiUpdate ==
    /\ updates # <<>>
    /\ latest' = Head(updates) /\ updates' = Tail(updates)
    /\ UNCHANGED <<published, loaded, tried, thread, stopRequested, pc, todo, item, options>>

\* The options dialog is accepted: it shows an empty latestPubDate whatever the
\* options hold, so accepting it unchanged clears the date.
DialogOk ==
    /\ changes < MaxChanges /\ changes' = changes + 1
    /\ latest' = 0
    /\ rssCalcs' \in CalcModes
    /\ UNCHANGED <<published, loaded, updates, tried, thread, stopRequested, pc, todo, item,
                   calcs, runIDs, priorCalcs, priorRunIDs, chosenCalcs>>

\* setCalcChoiceEnumVar: the user chooses another mode in the menu.
ChooseCalcs ==
    /\ changes < MaxChanges /\ changes' = changes + 1
    /\ calcs' \in CalcModes /\ chosenCalcs' = calcs'
    /\ UNCHANGED <<published, loaded, latest, updates, tried, thread, stopRequested, pc, todo,
                   item, runIDs, priorCalcs, priorRunIDs, rssCalcs>>

----------------------------------------------------------------------------
(* The watcher thread *)

LoopTest(t) ==
    /\ pc[t] = "loop"
    /\ Goto(t, IF stopRequested THEN "end" ELSE "reload")
    /\ UNCHANGED <<published, loaded, latest, updates, tried, thread, stopRequested, todo, item, options>>

\* The feed is reloaded.  A stop requested meanwhile ends the loop at once.
Reload(t) ==
    /\ pc[t] = "reload"
    /\ loaded' = TRUE
    /\ IF stopRequested
         THEN Goto(t, "end") /\ UNCHANGED todo
         ELSE Goto(t, "items") /\ todo' = [todo EXCEPT ![t] = 1..published]
    /\ UNCHANGED <<published, latest, updates, tried, thread, stopRequested, item, options>>

\* The reload yields no document: reading its items raises, outside of any try,
\* and the thread dies as it is.
ReloadFails(t) ==
    /\ FeedFails
    /\ pc[t] = "reload"
    /\ loaded' = FALSE
    /\ Goto(t, IF stopRequested THEN "end" ELSE "dead")
    /\ UNCHANGED <<published, latest, updates, tried, thread, stopRequested, todo, item, options>>

\* Mutant of NextItem: the items in the order of the feed, the newest first.
NextItemNewestFirst(t) ==
    /\ pc[t] = "items"
    /\ IF todo[t] = {} \/ stopRequested
         THEN Goto(t, "cycleEnd") /\ UNCHANGED <<todo, item>>
         ELSE LET i == Max(todo[t]) IN
              /\ todo' = [todo EXCEPT ![t] = @ \ {i}]
              /\ IF latest # 0 /\ PubDate[i] < latest
                   THEN UNCHANGED <<pc, item>>
                   ELSE Goto(t, "load") /\ item' = [item EXCEPT ![t] = i]
    /\ UNCHANGED <<published, loaded, latest, updates, tried, thread, stopRequested, options>>

\* The next item in ascending order of date; one older than latestPubDate is skipped.
NextItem(t) ==
    /\ pc[t] = "items"
    /\ IF todo[t] = {} \/ stopRequested
         THEN Goto(t, "cycleEnd") /\ UNCHANGED <<todo, item>>
         ELSE LET i == Min(todo[t]) IN
              /\ todo' = [todo EXCEPT ![t] = @ \ {i}]
              /\ IF latest # 0 /\ PubDate[i] < latest
                   THEN UNCHANGED <<pc, item>>
                   ELSE Goto(t, "load") /\ item' = [item EXCEPT ![t] = i]
    /\ UNCHANGED <<published, loaded, latest, updates, tried, thread, stopRequested, options>>

\* The filing is loaded; a stop requested meanwhile closes it and ends the cycle.
LoadItem(t) ==
    /\ pc[t] = "load"
    /\ Goto(t, IF stopRequested THEN "cycleEnd" ELSE "check")
    /\ UNCHANGED <<published, loaded, latest, updates, tried, thread, stopRequested, todo, item, options>>

\* A stop seen before the validation of a filing that has a document.
StopBeforeCheck(t) ==
    /\ pc[t] = "check" /\ stopRequested
    /\ Goto(t, "cycleEnd")
    /\ UNCHANGED <<published, loaded, latest, updates, tried, thread, stopRequested, todo, item, options>>

\* The filing is validated and matched, its results are set and its date is put on
\* the queue of the UI thread.
CheckItem(t) ==
    /\ pc[t] = "check"
    /\ Len(updates) < MaxUpdates
    /\ tried' = tried \cup {item[t]}
    /\ updates' = Append(updates, PubDate[item[t]])
    /\ Goto(t, "itemEnd")
    /\ UNCHANGED <<published, loaded, latest, thread, stopRequested, todo, item, options>>

\* An exception while loading, validating or reporting is logged and the cycle
\* goes on; the date is not recorded.
ItemFails(t) ==
    /\ pc[t] \in {"load", "check"}
    /\ tried' = tried \cup {item[t]}
    /\ Goto(t, "itemEnd")
    /\ UNCHANGED <<published, loaded, latest, updates, thread, stopRequested, todo, item, options>>

ItemEnd(t) ==
    /\ pc[t] = "itemEnd"
    /\ Goto(t, IF stopRequested THEN "cycleEnd" ELSE "items")
    /\ item' = [item EXCEPT ![t] = 0]
    /\ UNCHANGED <<published, loaded, latest, updates, tried, thread, stopRequested, todo, options>>

\* Mutant of CycleEnd: the watcher ends after one cycle.
CycleEndOnce(t) ==
    /\ pc[t] = "cycleEnd"
    /\ Goto(t, "end")
    /\ UNCHANGED <<published, loaded, latest, updates, tried, thread, stopRequested, todo, item, options>>

\* Mutant of CycleEnd: the stop request is cleared along with the options.
CycleEndForgetsStop(t) ==
    /\ pc[t] = "cycleEnd"
    /\ Goto(t, IF stopRequested THEN "loop" ELSE "sleep")
    /\ stopRequested' = FALSE
    /\ todo' = [todo EXCEPT ![t] = {}] /\ item' = [item EXCEPT ![t] = 0]
    /\ UNCHANGED <<published, loaded, latest, updates, tried, thread, options>>

\* Stopped: restore the options that start() overrode.  Otherwise sleep.
CycleEnd(t) ==
    /\ pc[t] = "cycleEnd"
    /\ IF stopRequested
         THEN /\ Goto(t, "loop")
              /\ calcs' = IF priorCalcs # NoPrior THEN priorCalcs ELSE calcs
              /\ runIDs' = IF priorRunIDs # NoPrior THEN priorRunIDs ELSE runIDs
         ELSE Goto(t, "sleep") /\ UNCHANGED <<calcs, runIDs>>
    /\ todo' = [todo EXCEPT ![t] = {}] /\ item' = [item EXCEPT ![t] = 0]
    /\ UNCHANGED <<published, loaded, latest, updates, tried, thread, stopRequested,
                   priorCalcs, priorRunIDs, rssCalcs, chosenCalcs, changes>>

\* Ten minutes later.
Wake(t) ==
    /\ pc[t] = "sleep"
    /\ Goto(t, "loop")
    /\ UNCHANGED <<published, loaded, latest, updates, tried, thread, stopRequested, todo, item, options>>

\* The last two statements of watchCycle.
ForgetThread(t) ==
    /\ pc[t] = "end"
    /\ thread' = 0
    /\ Goto(t, "reset")
    /\ UNCHANGED <<published, loaded, latest, updates, tried, stopRequested, todo, item, options>>

ForgetStop(t) ==
    /\ pc[t] = "reset"
    /\ stopRequested' = FALSE
    /\ Goto(t, "dead")
    /\ UNCHANGED <<published, loaded, latest, updates, tried, thread, todo, item, options>>

----------------------------------------------------------------------------
\* The feed publishes its next item.
Publish ==
    /\ published < MaxItems
    /\ published' = published + 1
    /\ UNCHANGED <<loaded, latest, updates, tried, thread, stopRequested, pc, todo, item, options>>

Watch(t) == \/ LoopTest(t) \/ Reload(t) \/ ReloadFails(t) \/ NextItem(t) \/ LoadItem(t)
            \/ StopBeforeCheck(t) \/ CheckItem(t) \/ ItemFails(t) \/ ItemEnd(t)
            \/ CycleEnd(t) \/ Wake(t) \/ ForgetThread(t) \/ ForgetStop(t)

Next == \/ \E formulas \in FormulaChoices : Start(formulas)
        \/ Stop \/ UiUpdate \/ DialogOk \/ ChooseCalcs \/ Publish
        \/ \E t \in Watchers : Watch(t)

\* A thread that is alive runs on, and the UI thread empties its queue.
Fairness == WF_vars(UiUpdate) /\ \A t \in Watchers : WF_vars(Watch(t))

Spec == Init /\ [][Next]_vars /\ Fairness

----------------------------------------------------------------------------
(* Properties *)

\* Every variable keeps its type; an item is known to the watcher that works on it.
TypeOK ==
    /\ published \in 0..MaxItems /\ loaded \in BOOLEAN
    /\ latest \in Nat /\ updates \in Seq(Nat) /\ tried \subseteq Items
    /\ thread \in Watchers \cup {0} /\ stopRequested \in BOOLEAN
    /\ pc \in [Watchers -> Ended \cup {"loop", "reload", "items", "load", "check",
                                       "itemEnd", "cycleEnd", "sleep", "end", "reset"}]
    /\ todo \in [Watchers -> SUBSET Items]
    /\ item \in [Watchers -> Items \cup {0}]
    /\ \A t \in Watchers : pc[t] \in {"load", "check"} => item[t] \in Items
    /\ calcs \in CalcModes /\ rssCalcs \in CalcModes /\ chosenCalcs \in CalcModes
    /\ runIDs \in RunIDs
    /\ priorCalcs \in CalcModes \cup {NoPrior} /\ priorRunIDs \in RunIDs \cup {NoPrior}
    /\ changes \in 0..MaxChanges

\* No filing falls behind the recorded date untried: whatever is older than
\* latestPubDate was checked or raised, across stops, restarts, a cleared date and
\* the delay with which the UI thread records it.
NoItemMissed == \A i \in Items : PubDate[i] < latest => i \in tried

\* At most one thread runs watch cycles, also while one ends and another starts.
OneWatcher ==
    \A t, u \in Watchers : Alive(t) /\ Alive(u) /\ t # u => "reset" \in {pc[t], pc[u]}

\* A stop request ends the thread it is meant for, unless the thread before it has
\* still to execute its last statement, which forgets the request.
StopEndsWatch ==
    \A t \in Watchers :
        stopRequested /\ (\A u \in Watchers : Alive(u) => u = t) ~> ~Alive(t)

Cycling == \E t \in Watchers : Alive(t) /\ pc[t] \notin {"end", "reset"}

\* Each filing published while the watch runs is tried in the end, unless a stop is
\* requested or the feed cannot be read.
NewItemsTried ==
    \A i \in Items :
        published >= i /\ Cycling ~> i \in tried \/ stopRequested \/ ~loaded

\* When the watch has ended at the user's request, the validation options are again
\* those it found ("reset prior options for calc and formula running").
OptionsReset == thread = 0 => calcs = chosenCalcs /\ runIDs = "chosen"

=============================================================================
