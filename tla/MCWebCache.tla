----------------------------- MODULE MCWebCache -----------------------------
(* Instances of WebCache for TLC. *)
EXTENDS WebCacheReader, TLC

CONSTANT Hung   \* a process whose server connections may hang for ever

FileSymmetry == Permutations(Inodes)

LiveSpec == Spec /\ Fairness(Procs \ {Hung})

\* A process whose own connections do not hang gets an answer from every call.
OtherCallsReturn == CallsReturn(Procs \ {Hung})
=============================================================================
