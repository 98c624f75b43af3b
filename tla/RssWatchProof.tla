--------------------------- MODULE RssWatchProof ---------------------------
(***************************************************************************)
(* Theorems about RssWatch for any feed, number of watchers and options.    *)
(***************************************************************************)
EXTENDS RssWatch, WellFoundedInduction, TLAPS

\* The oldest item left of a cycle is one of them, and none is older.
LEMMA OldestItem ==
  ASSUME NEW S \in SUBSET Items, S # {}
  PROVE  Min(S) \in S /\ \A i \in S : Min(S) <= i
<1>1. S \subseteq Nat
  BY BoundAssumption DEF Items
<1>2. \E i \in S : \A j \in S : <<j, i>> \notin OpToRel(<, Nat)
  BY <1>1, WFMin, NatLessThanWellFounded
<1>3. PICK i \in S : \A j \in S : <<j, i>> \notin OpToRel(<, Nat)
  BY <1>2
<1>4. ASSUME NEW j \in S PROVE i <= j
  <2>1. i \in Nat /\ j \in Nat
    BY <1>1
  <2>2. <<j, i>> \in Nat \X Nat
    BY <2>1
  <2>3. <<j, i>>[1] = j /\ <<j, i>>[2] = i
    OBVIOUS
  <2>4. ~(<<j, i>>[1] < <<j, i>>[2])
    BY <1>3, <2>2 DEF OpToRel
  <2> QED
    BY <2>1, <2>3, <2>4
<1>5. \E k \in S : \A j \in S : k <= j
  BY <1>4
<1> QED
  BY <1>5 DEF Min

-----------------------------------------------------------------------------
(* Types *)

\* Every variable keeps its type; a watcher that loads or checks a filing has one.
THEOREM TypeCorrect == Spec => []TypeOK
<1> USE BoundAssumption, DateAssumption, ChoiceAssumption DEF TypeOK, Items, Watchers, Ended, RunIDs
<1>1. Init => TypeOK
  <2> SUFFICES ASSUME Init PROVE TypeOK
    OBVIOUS
  <2> USE DEF Init, NoPrior
  <2>1. loaded \in BOOLEAN /\ stopRequested \in BOOLEAN
    OBVIOUS
  <2>2. updates \in Seq(Nat)
    OBVIOUS
  <2>3. /\ pc \in [Watchers -> Ended] /\ todo \in [Watchers -> SUBSET Items]
        /\ item \in [Watchers -> Items \cup {0}] /\ \A t \in Watchers : pc[t] = "none"
    OBVIOUS
  <2>4. pc \in [Watchers -> Ended \cup {"loop", "reload", "items", "load", "check",
                                       "itemEnd", "cycleEnd", "sleep", "end", "reset"}]
    BY <2>3
  <2> QED
    BY <2>1, <2>2, <2>3, <2>4
<1>2. TypeOK /\ [Next]_vars => TypeOK'
  <2> SUFFICES ASSUME TypeOK, [Next]_vars PROVE TypeOK'
    OBVIOUS
  <2> USE DEF options, Goto
  <2>1. ASSUME NEW formulas \in FormulaChoices, Start(formulas) PROVE TypeOK'
    BY <2>1 DEF Start, NoPrior
  <2>2. ASSUME Stop PROVE TypeOK'
    BY <2>2 DEF Stop
  <2>3. ASSUME UiUpdate PROVE TypeOK'
    BY <2>3 DEF UiUpdate
  <2>4. ASSUME DialogOk PROVE TypeOK'
    BY <2>4 DEF DialogOk
  <2>5. ASSUME ChooseCalcs PROVE TypeOK'
    BY <2>5 DEF ChooseCalcs
  <2>6. ASSUME Publish PROVE TypeOK'
    BY <2>6 DEF Publish
  <2>7. ASSUME NEW t \in Watchers, LoopTest(t) PROVE TypeOK'
    BY <2>7 DEF LoopTest
  <2>8. ASSUME NEW t \in Watchers, Reload(t) PROVE TypeOK'
    <3>1. 1..published \in SUBSET Items
      OBVIOUS
    <3> QED
      BY <2>8, <3>1 DEF Reload
  <2>9. ASSUME NEW t \in Watchers, ReloadFails(t) PROVE TypeOK'
    BY <2>9 DEF ReloadFails
  <2>10. ASSUME NEW t \in Watchers, NextItem(t) PROVE TypeOK'
    <3>1. CASE todo[t] = {} \/ stopRequested
      BY <2>10, <3>1 DEF NextItem
    <3>2. CASE ~(todo[t] = {} \/ stopRequested)
      <4>1. Min(todo[t]) \in Items
        BY <3>2, OldestItem
      <4>2. todo[t] \ {Min(todo[t])} \in SUBSET Items
        OBVIOUS
      <4> HIDE DEF Items
      <4>3. CASE UNCHANGED <<pc, item>>
        BY <2>10, <3>2, <4>2, <4>3 DEF NextItem
      <4>4. CASE Goto(t, "load") /\ item' = [item EXCEPT ![t] = Min(todo[t])]
        BY <2>10, <3>2, <4>1, <4>2, <4>4 DEF NextItem
      <4> QED
        BY <2>10, <3>2, <4>3, <4>4 DEF NextItem
    <3> QED
      BY <3>1, <3>2
  <2>11. ASSUME NEW t \in Watchers, LoadItem(t) PROVE TypeOK'
    BY <2>11 DEF LoadItem
  <2>12. ASSUME NEW t \in Watchers, StopBeforeCheck(t) PROVE TypeOK'
    BY <2>12 DEF StopBeforeCheck
  <2>13. ASSUME NEW t \in Watchers, CheckItem(t) PROVE TypeOK'
    <3>1. item[t] \in Items /\ PubDate[item[t]] \in Nat
      BY <2>13 DEF CheckItem
    <3>2. updates' = Append(updates, PubDate[item[t]]) /\ tried' = tried \cup {item[t]}
      BY <2>13 DEF CheckItem
    <3>3. updates' \in Seq(Nat)
      BY <3>1, <3>2
    <3>4. tried' \subseteq Items
      BY <3>1, <3>2
    <3> QED
      BY <2>13, <3>3, <3>4 DEF CheckItem
  <2>14. ASSUME NEW t \in Watchers, ItemFails(t) PROVE TypeOK'
    BY <2>14 DEF ItemFails
  <2>15. ASSUME NEW t \in Watchers, ItemEnd(t) PROVE TypeOK'
    BY <2>15 DEF ItemEnd
  <2>16. ASSUME NEW t \in Watchers, CycleEnd(t) PROVE TypeOK'
    BY <2>16 DEF CycleEnd
  <2>17. ASSUME NEW t \in Watchers, Wake(t) PROVE TypeOK'
    BY <2>17 DEF Wake
  <2>18. ASSUME NEW t \in Watchers, ForgetThread(t) PROVE TypeOK'
    BY <2>18 DEF ForgetThread
  <2>19. ASSUME NEW t \in Watchers, ForgetStop(t) PROVE TypeOK'
    BY <2>19 DEF ForgetStop
  <2>20. CASE UNCHANGED vars
    BY <2>20 DEF vars
  <2> QED
    BY <2>1, <2>2, <2>3, <2>4, <2>5, <2>6, <2>7, <2>8, <2>9, <2>10, <2>11, <2>12, <2>13, <2>14,
       <2>15, <2>16, <2>17, <2>18, <2>19, <2>20 DEF Next, Watch
<1> QED
  BY <1>1, <1>2, PTL DEF Spec

-----------------------------------------------------------------------------
(* No filing is missed *)

\* A cycle takes the items in ascending order: what comes before one that it has
\* left, or works on, is tried, or still left as well.
Ascending(t) ==
  /\ pc[t] \in {"items", "load", "check", "itemEnd"} =>
        \A j \in todo[t] : \A i \in Items :
            i < j => i \in todo[t] \/ i \in tried \/ (pc[t] \in {"load", "check"} /\ i = item[t])
  /\ pc[t] \in {"load", "check"} => \A i \in Items : i < item[t] => i \in tried

\* A date waiting for the UI thread is one that may be recorded.
Recordable(date) == \A i \in Items : PubDate[i] < date => i \in tried

InOrder ==
  /\ NoItemMissed
  /\ \A k \in 1..Len(updates) : Recordable(updates[k])
  /\ \A t \in Watchers : Ascending(t)

\* Whatever is older than the recorded date was tried, for any feed and whatever
\* stops, restarts, failures and late records of the date.
THEOREM NothingMissed == Spec => []NoItemMissed
<1> USE BoundAssumption, DateAssumption DEF Items
<1>1. Init => InOrder
  BY DEF Init, InOrder, NoItemMissed, Recordable, Ascending, Watchers
<1>2. TypeOK /\ InOrder /\ [Next]_vars => InOrder'
  <2> SUFFICES ASSUME TypeOK, InOrder, [Next]_vars PROVE InOrder'
    OBVIOUS
  <2> USE DEF TypeOK, InOrder, NoItemMissed, Recordable, Ascending, Goto
  <2>1. ASSUME NEW formulas \in FormulaChoices, Start(formulas) PROVE InOrder'
    BY <2>1 DEF Start
  <2>2. ASSUME Stop PROVE InOrder'
    BY <2>2 DEF Stop
  <2>3. ASSUME UiUpdate PROVE InOrder'
    <3>1. \A k \in 1..Len(updates') : updates'[k] = updates[k + 1] /\ k + 1 \in 1..Len(updates)
      BY <2>3 DEF UiUpdate
    <3>2. latest' = updates[1] /\ 1 \in 1..Len(updates)
      BY <2>3 DEF UiUpdate
    <3> QED
      BY <2>3, <3>1, <3>2 DEF UiUpdate
  <2>4. ASSUME DialogOk PROVE InOrder'
    BY <2>4 DEF DialogOk
  <2>5. ASSUME ChooseCalcs PROVE InOrder'
    BY <2>5 DEF ChooseCalcs
  <2>6. ASSUME Publish PROVE InOrder'
    BY <2>6 DEF Publish
  <2>7. ASSUME NEW t \in Watchers, LoopTest(t) PROVE InOrder'
    BY <2>7 DEF LoopTest
  <2>8. ASSUME NEW t \in Watchers, Reload(t) PROVE InOrder'
    <3>1. UNCHANGED <<latest, updates, tried, item>>
      BY <2>8 DEF Reload
    <3>2. CASE stopRequested
      BY <2>8, <3>1, <3>2 DEF Reload
    <3>3. CASE ~stopRequested
      <4>1. /\ pc' = [pc EXCEPT ![t] = "items"] /\ todo' = [todo EXCEPT ![t] = 1..published]
        BY <2>8, <3>3 DEF Reload
      <4>2. \A j \in 1..published : \A i \in Items : i < j => i \in 1..published
        OBVIOUS
      <4>3. \A u \in Watchers : Ascending(u)'
        BY <3>1, <4>1, <4>2
      <4> QED
        BY <3>1, <4>3
    <3> QED
      BY <3>2, <3>3
  <2>9. ASSUME NEW t \in Watchers, ReloadFails(t) PROVE InOrder'
    BY <2>9 DEF ReloadFails
  <2>10. ASSUME NEW t \in Watchers, NextItem(t) PROVE InOrder'
    <3>1. CASE todo[t] = {} \/ stopRequested
      BY <2>10, <3>1 DEF NextItem
    <3>2. CASE ~(todo[t] = {} \/ stopRequested)
      <4> DEFINE m == Min(todo[t])
      <4>1. m \in todo[t] /\ m \in Items /\ \A i \in todo[t] : m <= i
        BY <3>2, OldestItem
      <4>2. \A i \in Items : i < m => i \in tried
        BY <2>10, <4>1 DEF NextItem
      <4>3. todo' = [todo EXCEPT ![t] = @ \ {m}] /\ UNCHANGED <<latest, updates, tried>>
        BY <2>10, <3>2 DEF NextItem
      <4>4. CASE latest # 0 /\ PubDate[m] < latest
        <5>1. UNCHANGED <<pc, item>> /\ m \in tried /\ pc[t] = "items"
          BY <2>10, <3>2, <4>1, <4>4 DEF NextItem
        <5> HIDE DEF m
        <5> QED
          BY <4>1, <4>2, <4>3, <5>1
      <4>5. CASE ~(latest # 0 /\ PubDate[m] < latest)
        <5>1. pc' = [pc EXCEPT ![t] = "load"] /\ item' = [item EXCEPT ![t] = m] /\ pc[t] = "items"
          BY <2>10, <3>2, <4>1, <4>5 DEF NextItem
        <5> HIDE DEF m
        <5> QED
          BY <4>1, <4>2, <4>3, <5>1
      <4> QED
        BY <4>4, <4>5
    <3> QED
      BY <3>1, <3>2
  <2>11. ASSUME NEW t \in Watchers, LoadItem(t) PROVE InOrder'
    BY <2>11 DEF LoadItem
  <2>12. ASSUME NEW t \in Watchers, StopBeforeCheck(t) PROVE InOrder'
    BY <2>12 DEF StopBeforeCheck
  <2>13. ASSUME NEW t \in Watchers, CheckItem(t) PROVE InOrder'
    <3>1. item[t] \in Items /\ \A i \in Items : PubDate[i] < PubDate[item[t]] => i \in tried
      BY <2>13 DEF CheckItem
    <3>2. \A k \in 1..Len(updates') :
              updates'[k] = PubDate[item[t]] \/ (k \in 1..Len(updates) /\ updates'[k] = updates[k])
      BY <2>13, <3>1 DEF CheckItem
    <3>3. /\ tried' = tried \cup {item[t]} /\ pc' = [pc EXCEPT ![t] = "itemEnd"]
          /\ pc[t] = "check" /\ UNCHANGED <<latest, todo, item>>
      BY <2>13 DEF CheckItem, options
    <3>4. NoItemMissed' /\ (\A k \in 1..Len(updates) : Recordable(updates[k]))'
      BY <3>1, <3>2, <3>3
    <3>5. \A u \in Watchers : Ascending(u)'
      BY <3>3
    <3> QED
      BY <3>4, <3>5
  <2>14. ASSUME NEW t \in Watchers, ItemFails(t) PROVE InOrder'
    BY <2>14 DEF ItemFails
  <2>15. ASSUME NEW t \in Watchers, ItemEnd(t) PROVE InOrder'
    BY <2>15 DEF ItemEnd
  <2>16. ASSUME NEW t \in Watchers, CycleEnd(t) PROVE InOrder'
    BY <2>16 DEF CycleEnd
  <2>17. ASSUME NEW t \in Watchers, Wake(t) PROVE InOrder'
    BY <2>17 DEF Wake
  <2>18. ASSUME NEW t \in Watchers, ForgetThread(t) PROVE InOrder'
    BY <2>18 DEF ForgetThread
  <2>19. ASSUME NEW t \in Watchers, ForgetStop(t) PROVE InOrder'
    BY <2>19 DEF ForgetStop
  <2>20. CASE UNCHANGED vars
    BY <2>20 DEF vars
  <2> QED
    BY <2>1, <2>2, <2>3, <2>4, <2>5, <2>6, <2>7, <2>8, <2>9, <2>10, <2>11, <2>12, <2>13, <2>14,
       <2>15, <2>16, <2>17, <2>18, <2>19, <2>20 DEF Next, Watch
<1>3. InOrder => NoItemMissed
  BY DEF InOrder
<1> QED
  BY <1>1, <1>2, <1>3, TypeCorrect, PTL DEF Spec

-----------------------------------------------------------------------------
(* One watcher *)

\* A live thread that has not forgotten itself is the one self.thread refers to.
Known == \A t \in Watchers : Alive(t) => pc[t] = "reset" \/ thread = t

\* At most one thread runs watch cycles, however starts and stops interleave with
\* the two statements that end a thread.
THEOREM OnlyOneWatcher == Spec => []OneWatcher
<1> USE DEF Known, Alive, Ended
<1>1. Init => Known
  BY DEF Init
<1>2. TypeOK /\ Known /\ [Next]_vars => Known'
  <2> SUFFICES ASSUME TypeOK, Known, [Next]_vars PROVE Known'
    OBVIOUS
  <2> USE DEF TypeOK, Goto
  <2>1. ASSUME NEW formulas \in FormulaChoices, Start(formulas) PROVE Known'
    BY <2>1 DEF Start, Running
  <2>2. ASSUME Stop \/ UiUpdate \/ DialogOk \/ ChooseCalcs \/ Publish \/ UNCHANGED vars PROVE Known'
    BY <2>2 DEF Stop, UiUpdate, DialogOk, ChooseCalcs, Publish, vars
  <2>3. ASSUME NEW t \in Watchers, Watch(t) PROVE Known'
    <3>1. CASE ForgetThread(t)
      BY <3>1 DEF ForgetThread
    <3>2. CASE ~ForgetThread(t)
      <4>1. /\ Alive(t) /\ thread' = thread /\ (pc[t] = "reset" => pc'[t] = "dead")
            /\ \A u \in Watchers \ {t} : pc'[u] = pc[u]
        BY <2>3, <3>2 DEF Watch, LoopTest, Reload, ReloadFails, NextItem, LoadItem, StopBeforeCheck,
            CheckItem, ItemFails, ItemEnd, CycleEnd, Wake, ForgetStop
      <4> QED
        BY <4>1
    <3> QED
      BY <3>1, <3>2
  <2> QED
    BY <2>1, <2>2, <2>3 DEF Next
<1>3. Known => OneWatcher
  BY DEF OneWatcher
<1> QED
  BY <1>1, <1>2, <1>3, TypeCorrect, PTL DEF Spec

=============================================================================
