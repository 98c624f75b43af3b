---------------------------- MODULE ModelManager ----------------------------
(***************************************************************************)
(* The stack of loaded models of arelle/ModelManager.py.  In the GUI it is   *)
(* shared by the UI thread, which closes models and creates the RSS feed's,   *)
(* and by background threads, which load and compare; the command line does   *)
(* all of it in one thread.  A thread's step is one statement of the manager: *)
(* load and create first set self.modelXbrl, then append what they read back  *)
(* from it.  Models are numbered in the order they are made.                 *)
(***************************************************************************)
EXTENDS Naturals, Sequences, SequencesExt

CONSTANTS
    Threads,        \* threads that call the manager
    MaxModels,      \* bound: models made
    None            \* no model, not a number

Models == 1..MaxModels

VARIABLES
    loaded,     \* loadedModelXbrls
    current,    \* self.modelXbrl
    made,       \* models 1..made exist
    closed,     \* models whose own close() has run (isClosed)
    compared,   \* report -> the two models its document compares, {} for none
    pc,         \* thread -> the statement it is at
    arg,        \* thread -> the model it works on
    pair,       \* thread -> fromDTS and toDTS of compareDTSes
    overlapped, \* history: two threads were inside the manager at once
    bypassed    \* history: a stacked model was closed other than by the manager

vars == <<loaded, current, made, closed, compared, pc, arg, pair, overlapped, bypassed>>

Init ==
    /\ loaded = <<>> /\ current = None
    /\ made = 0 /\ closed = {}
    /\ compared = [m \in Models |-> {}]
    /\ pc = [t \in Threads |-> "idle"]
    /\ arg = [t \in Threads |-> None]
    /\ pair = [t \in Threads |-> {}]
    /\ overlapped = FALSE /\ bypassed = FALSE

Inside == {t \in Threads : pc[t] # "idle"}

\* Thread t moves to a statement of the manager, maybe while another is inside.
Enter(t, label) ==
    /\ pc' = [pc EXCEPT ![t] = label]
    /\ overlapped' = (overlapped \/ Inside # {})

Leave(t) ==
    /\ pc' = [pc EXCEPT ![t] = "idle"]
    /\ arg' = [arg EXCEPT ![t] = None]
    /\ pair' = [pair EXCEPT ![t] = {}]
    /\ UNCHANGED overlapped

\* self.modelXbrl = ModelXbrlLoad(...) or ModelXbrlCreate(...)
MakeCurrent ==
    /\ made < MaxModels
    /\ made' = made + 1 /\ current' = made + 1

\* load and create; a model whose document could not be loaded is stacked as well.
Load(t) ==
    /\ pc[t] = "idle"
    /\ MakeCurrent
    /\ Enter(t, "append")
    /\ UNCHANGED <<loaded, closed, compared, arg, pair, bypassed>>

\* compareDTSes: the two models on top of the stack, and a model for the report.
CompareDTSes(t) ==
    /\ pc[t] = "idle" /\ Len(loaded) >= 2
    /\ pair' = [pair EXCEPT ![t] = {loaded[Len(loaded) - 1], loaded[Len(loaded)]}]
    /\ MakeCurrent
    /\ Enter(t, "append")
    /\ UNCHANGED <<loaded, closed, compared, arg, bypassed>>

\* Mutant of AppendCurrent: the newest model goes first.
PrependCurrent(t) ==
    /\ pc[t] = "append"
    /\ loaded' = <<current>> \o loaded
    /\ IF pair[t] = {}
         THEN Leave(t)
         ELSE /\ pc' = [pc EXCEPT ![t] = "diff"]
              /\ arg' = [arg EXCEPT ![t] = current]
              /\ UNCHANGED <<pair, overlapped>>
    /\ UNCHANGED <<current, made, closed, compared, bypassed>>

\* self.loadedModelXbrls.append(self.modelXbrl); return self.modelXbrl
AppendCurrent(t) ==
    /\ pc[t] = "append"
    /\ loaded' = Append(loaded, current)
    /\ IF pair[t] = {}
         THEN Leave(t)
         ELSE /\ pc' = [pc EXCEPT ![t] = "diff"]
              /\ arg' = [arg EXCEPT ![t] = current]
              /\ UNCHANGED <<pair, overlapped>>
    /\ UNCHANGED <<current, made, closed, compared, bypassed>>

\* diffDTSes gives the report its document, which refers to both models.
DiffDTSes(t) ==
    /\ pc[t] = "diff"
    /\ compared' = IF arg[t] = None THEN compared
                   ELSE [compared EXCEPT ![arg[t]] = pair[t] \ {None}]
    /\ Leave(t)
    /\ UNCHANGED <<loaded, current, made, closed, bypassed>>

\* A comparison fails with an exception: the report stays, without a document.
DiffFails(t) ==
    /\ pc[t] = "diff"
    /\ Leave(t)
    /\ UNCHANGED <<loaded, current, made, closed, compared, bypassed>>

\* close, of self.modelXbrl or of a model its caller loaded.
Close(t, m) ==
    /\ pc[t] = "idle" /\ m # None
    /\ arg' = [arg EXCEPT ![t] = m]
    /\ Enter(t, "test")
    /\ UNCHANGED <<loaded, current, made, closed, compared, pair, bypassed>>

\* while modelXbrl in self.loadedModelXbrls
TestLoaded(t) ==
    /\ pc[t] = "test"
    /\ pc' = [pc EXCEPT ![t] = IF arg[t] \in ToSet(loaded) THEN "remove" ELSE "dereference"]
    /\ UNCHANGED <<loaded, current, made, closed, compared, arg, pair, overlapped, bypassed>>

\* The loop's remove; if another thread was faster it raises ValueError.
RemoveLoaded(t) ==
    /\ pc[t] = "remove"
    /\ loaded' = RemoveFirst(loaded, arg[t])
    /\ IF arg[t] \in ToSet(loaded)
         THEN pc' = [pc EXCEPT ![t] = "test"] /\ UNCHANGED <<arg, pair, overlapped>>
         ELSE Leave(t)
    /\ UNCHANGED <<current, made, closed, compared, bypassed>>

\* The closed model is the current one: the first of the stack becomes current.
Dereference(t) ==
    /\ pc[t] = "dereference"
    /\ pc' = [pc EXCEPT ![t] = "close"]
    /\ current' = IF arg[t] # current THEN current
                  ELSE IF loaded = <<>> THEN None ELSE Head(loaded)
    /\ UNCHANGED <<loaded, made, closed, compared, arg, pair, overlapped, bypassed>>

\* modelXbrl.close(): nothing when closed already; the document of a comparison
\* report closes the models it compares, which stay on the stack.
Closing(m) == IF m \in closed THEN {} ELSE {m} \cup compared[m]

CloseModel(t) ==
    /\ pc[t] = "close"
    /\ closed' = closed \cup Closing(arg[t])
    /\ bypassed' = (bypassed \/ \E m \in Closing(arg[t]) : m # arg[t])
    /\ Leave(t)
    /\ UNCHANGED <<loaded, current, made, compared>>

\* The command line closes a second DTS that has errors without the manager.
CloseDirectly(t, m) ==
    /\ pc[t] = "idle" /\ m # None
    /\ closed' = closed \cup Closing(m)
    /\ bypassed' = TRUE
    /\ UNCHANGED <<loaded, current, made, compared, pc, arg, pair, overlapped>>

Next ==
    \E t \in Threads :
        \/ Load(t) \/ CompareDTSes(t) \/ AppendCurrent(t) \/ DiffDTSes(t) \/ DiffFails(t)
        \/ \E m \in ToSet(loaded) \cup {current} : Close(t, m)
        \/ TestLoaded(t) \/ RemoveLoaded(t) \/ Dereference(t) \/ CloseModel(t)
        \/ loaded # <<>> /\ CloseDirectly(t, Last(loaded))

Spec == Init /\ [][Next]_vars

----------------------------------------------------------------------------
(* Properties *)

\* Every variable keeps its type; only models that were made are referred to, and a
\* call of close has one.
TypeOK ==
    /\ made \in 0..MaxModels
    /\ loaded \in Seq(1..made \cup {None}) /\ current \in 1..made \cup {None}
    /\ closed \subseteq 1..made
    /\ compared \in [Models -> SUBSET (1..made)]
    /\ pc \in [Threads -> {"idle", "append", "diff", "test", "remove", "dereference", "close"}]
    /\ arg \in [Threads -> 1..made \cup {None}]
    /\ \A t \in Threads : pc[t] \in {"test", "remove", "dereference", "close"} => arg[t] # None
    /\ pair \in [Threads -> SUBSET (1..made \cup {None})]
    /\ overlapped \in BOOLEAN /\ bypassed \in BOOLEAN

Quiet == Inside = {} /\ ~overlapped

\* Between calls that do not overlap, the stack is in the order of loading, so that
\* compareDTSes compares the two most recently loaded models; it holds the open models,
\* each once, and the current model is one of them: no model is lost or kept after its
\* close, unless a model was closed behind the manager's back.
StackConsistent ==
    Quiet =>
        /\ \A i, j \in DOMAIN loaded : i < j => loaded[i] < loaded[j]
        /\ ~bypassed =>
             /\ ToSet(loaded) = 1..made \ closed
             /\ current \in ToSet(loaded) \/ (loaded = <<>> /\ current = None)

=============================================================================
