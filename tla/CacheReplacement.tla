-------------------------- MODULE CacheReplacement --------------------------
(***************************************************************************)
(* What a cached web document promises its readers: it is absent or it is   *)
(* exactly one document that the server served.  It is replaced in two       *)
(* steps: a process inside a request withdraws the copy, with its successor  *)
(* ready, and then publishes that one.  A reader that comes in between finds *)
(* nothing; so do all later ones if the process ends, or gives up, there.    *)
(***************************************************************************)
CONSTANTS Procs, Documents, None

VARIABLES cache,    \* the document under filepath, or None
          loading,  \* the processes inside a request
          ready     \* the document about to be published, and by whom

rvars == <<cache, loading, ready>>

Init == cache = None /\ loading = {} /\ ready = {}

Begin(p) == /\ p \notin loading
            /\ loading' = loading \cup {p} /\ UNCHANGED <<cache, ready>>

\* A call that returns, or a process that is killed: nothing of it stays ready.
End(p) == /\ p \in loading
          /\ loading' = loading \ {p}
          /\ ready' = {r \in ready : r.by # p} /\ UNCHANGED cache

\* The copy may be there still, if its removal is refused.
Withdraw(p) == /\ p \in loading /\ ready = {}
               /\ \E d \in Documents : ready' = {[by |-> p, document |-> d]}
               /\ cache' \in {cache, None} /\ UNCHANGED loading

Publish(p) == \E r \in ready :
                 /\ r.by = p /\ cache' = r.document
                 /\ ready' = {} /\ UNCHANGED loading

Abandon(p) == /\ \E r \in ready : r.by = p
              /\ ready' = {} /\ UNCHANGED <<cache, loading>>

Next == \E p \in Procs : Begin(p) \/ End(p) \/ Withdraw(p) \/ Publish(p) \/ Abandon(p)

Spec == Init /\ [][Next]_rvars
=============================================================================
