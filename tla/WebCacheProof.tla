--------------------------- MODULE WebCacheProof ---------------------------
(***************************************************************************)
(* Theorems about WebCache for any number of processes, documents, blocks,  *)
(* retries, calls and cache clearings.                                      *)
(***************************************************************************)
EXTENDS WebCacheReader, TLAPS

\* An empty file is a file of holes.
LEMMA EmptyBody == Empty \in Body
  BY DEF Empty, Body, Blocks

\* Writing one block of a document to a file keeps it a file.
LEMMA BodyUpdate ==
  ASSUME NEW body \in Body, NEW n \in 0..NBlocks, n < NBlocks, NEW v \in Pages
  PROVE  [body EXCEPT ![n + 1] = v] \in Body
  BY SizesAssumption DEF Body, Blocks

\* A process that talks to the server has a try left.
RetriesLeft ==
  \A p \in Procs :
     pc[p] \in {"write", "received", "tooShort", "httpError", "authError", "otherError"}
        => retries[p] # 0

TypeInv == TypeOK /\ RetriesLeft

\* Every variable keeps its type on every path of the download: the guards
\* retries > 0 and written < NBlocks are what keeps the two counters in range.
THEOREM TypeCorrect == Spec => []TypeOK
<1>1. Init => TypeInv
  <2> SUFFICES ASSUME Init PROVE TypeInv
    OBVIOUS
  <2> USE SizesAssumption, EmptyBody DEF Init, PcValues, Entries, Pages
  <2>1. DiskTypes
    BY DEF DiskTypes
  <2>2. CallTypes
    BY DEF CallTypes
  <2>3. ControlTypes
    <3>1. recheck \in [Procs -> BOOLEAN] /\ inCache \in [Procs -> BOOLEAN]
      OBVIOUS
    <3>2. offline \in [Procs -> BOOLEAN] /\ checked \in [Procs -> BOOLEAN]
      OBVIOUS
    <3>3. calls \in [Procs -> 0..MaxCalls] /\ clearing \subseteq Entries /\ clears \in 0..MaxClears
      OBVIOUS
    <3> QED
      BY <3>1, <3>2, <3>3 DEF ControlTypes
  <2>4. RetriesLeft
    BY DEF RetriesLeft
  <2> QED
    BY <2>1, <2>2, <2>3, <2>4 DEF TypeInv, TypeOK
<1>2. TypeInv /\ [Next]_vars => TypeInv'
  <2> SUFFICES ASSUME TypeInv, [Next]_vars PROVE TypeInv'
    OBVIOUS
  <2> USE SizesAssumption DEF TypeInv, TypeOK, DiskTypes, CallTypes, ControlTypes, RetriesLeft, PcValues, Locked, Pages,
          Entries, Goto, Return, disk, call, hist, clr, Finish, Retry
  <2>1. ASSUME NEW p \in Procs, ReadBefore(p) PROVE TypeInv'
    <3>1. DiskTypes'
      BY <2>1 DEF ReadBefore
    <3>2. CallTypes'
      BY <2>1 DEF ReadBefore
    <3>3. ControlTypes'
      BY <2>1 DEF ReadBefore
    <3>4. RetriesLeft'
      BY <2>1 DEF ReadBefore
    <3> QED
      BY <3>1, <3>2, <3>3, <3>4 DEF TypeInv, TypeOK
  <2>2. ASSUME NEW p \in Procs, Acquire(p) PROVE TypeInv'
    <3>1. DiskTypes'
      BY <2>2 DEF Acquire
    <3>2. CallTypes'
      BY <2>2 DEF Acquire
    <3>3. ControlTypes'
      BY <2>2 DEF Acquire
    <3>4. RetriesLeft'
      BY <2>2 DEF Acquire
    <3> QED
      BY <3>1, <3>2, <3>3, <3>4 DEF TypeInv, TypeOK
  <2>3. ASSUME NEW p \in Procs, LockTimeout(p) PROVE TypeInv'
    <3>1. DiskTypes'
      BY <2>3 DEF LockTimeout
    <3>2. CallTypes'
      BY <2>3 DEF LockTimeout
    <3>3. ControlTypes'
      BY <2>3 DEF LockTimeout
    <3>4. RetriesLeft'
      BY <2>3 DEF LockTimeout
    <3> QED
      BY <3>1, <3>2, <3>3, <3>4 DEF TypeInv, TypeOK
  <2>4. ASSUME NEW p \in Procs, Decide(p) PROVE TypeInv'
    <3>1. DiskTypes'
      BY <2>4 DEF Decide
    <3>2. CallTypes'
      BY <2>4 DEF Decide
    <3>3. ControlTypes'
      BY <2>4 DEF Decide
    <3>4. RetriesLeft'
      BY <2>4 DEF Decide
    <3> QED
      BY <3>1, <3>2, <3>3, <3>4 DEF TypeInv, TypeOK
  <2>5. ASSUME NEW p \in Procs, Release(p) PROVE TypeInv'
    <3>1. DiskTypes'
      BY <2>5 DEF Release
    <3>2. CallTypes'
      BY <2>5 DEF Release
    <3>3. ControlTypes'
      BY <2>5 DEF Release
    <3>4. RetriesLeft'
      BY <2>5 DEF Release
    <3> QED
      BY <3>1, <3>2, <3>3, <3>4 DEF TypeInv, TypeOK
  <2>6. ASSUME NEW p \in Procs, RemoveLockFile(p) PROVE TypeInv'
    <3>1. DiskTypes'
      BY <2>6 DEF RemoveLockFile, LockFileRemovable
    <3>2. CallTypes'
      BY <2>6 DEF RemoveLockFile, LockFileRemovable
    <3>3. ControlTypes'
      BY <2>6 DEF RemoveLockFile, LockFileRemovable
    <3>4. RetriesLeft'
      BY <2>6 DEF RemoveLockFile, LockFileRemovable
    <3> QED
      BY <3>1, <3>2, <3>3, <3>4 DEF TypeInv, TypeOK
  <2>7. ASSUME NEW p \in Procs, GiveUp(p) PROVE TypeInv'
    <3>1. DiskTypes'
      BY <2>7 DEF GiveUp
    <3>2. CallTypes'
      BY <2>7 DEF GiveUp
    <3>3. ControlTypes'
      BY <2>7 DEF GiveUp
    <3>4. RetriesLeft'
      BY <2>7 DEF GiveUp
    <3> QED
      BY <3>1, <3>2, <3>3, <3>4 DEF TypeInv, TypeOK
  <2>8. ASSUME NEW p \in Procs, Received(p) PROVE TypeInv'
    <3>1. DiskTypes'
      BY <2>8 DEF Received, Recover
    <3>2. CallTypes'
      BY <2>8 DEF Received, Recover
    <3>3. ControlTypes'
      BY <2>8 DEF Received, Recover
    <3>4. RetriesLeft'
      BY <2>8 DEF Received, Recover
    <3> QED
      BY <3>1, <3>2, <3>3, <3>4 DEF TypeInv, TypeOK
  <2>9. ASSUME NEW p \in Procs, TooShort(p) PROVE TypeInv'
    <3>1. DiskTypes'
      BY <2>9 DEF TooShort, Recover, DiscardTmp
    <3>2. CallTypes'
      BY <2>9 DEF TooShort, Recover, DiscardTmp
    <3>3. ControlTypes'
      BY <2>9 DEF TooShort, Recover, DiscardTmp
    <3>4. RetriesLeft'
      BY <2>9 DEF TooShort, Recover, DiscardTmp
    <3> QED
      BY <3>1, <3>2, <3>3, <3>4 DEF TypeInv, TypeOK
  <2>10. ASSUME NEW p \in Procs, HttpError(p) PROVE TypeInv'
    <3>1. DiskTypes'
      BY <2>10 DEF HttpError, Recover
    <3>2. CallTypes'
      BY <2>10 DEF HttpError, Recover
    <3>3. ControlTypes'
      BY <2>10 DEF HttpError, Recover
    <3>4. RetriesLeft'
      BY <2>10 DEF HttpError, Recover
    <3> QED
      BY <3>1, <3>2, <3>3, <3>4 DEF TypeInv, TypeOK
  <2>11. ASSUME NEW p \in Procs, AuthError(p) PROVE TypeInv'
    <3>1. DiskTypes'
      BY <2>11 DEF AuthError, Recover
    <3>2. CallTypes'
      BY <2>11 DEF AuthError, Recover
    <3>3. ControlTypes'
      BY <2>11 DEF AuthError, Recover
    <3>4. RetriesLeft'
      BY <2>11 DEF AuthError, Recover
    <3> QED
      BY <3>1, <3>2, <3>3, <3>4 DEF TypeInv, TypeOK
  <2>12. ASSUME NEW p \in Procs, OtherError(p) PROVE TypeInv'
    <3>1. DiskTypes'
      BY <2>12 DEF OtherError, Recover, DiscardTmp
    <3>2. CallTypes'
      BY <2>12 DEF OtherError, Recover, DiscardTmp
    <3>3. ControlTypes'
      BY <2>12 DEF OtherError, Recover, DiscardTmp
    <3>4. RetriesLeft'
      BY <2>12 DEF OtherError, Recover, DiscardTmp
    <3> QED
      BY <3>1, <3>2, <3>3, <3>4 DEF TypeInv, TypeOK
  <2>13. ASSUME NEW p \in Procs, UnlinkPrior(p) PROVE TypeInv'
    <3>1. DiskTypes'
      BY <2>13 DEF UnlinkPrior
    <3>2. CallTypes'
      BY <2>13 DEF UnlinkPrior
    <3>3. ControlTypes'
      BY <2>13 DEF UnlinkPrior
    <3>4. RetriesLeft'
      BY <2>13 DEF UnlinkPrior
    <3> QED
      BY <3>1, <3>2, <3>3, <3>4 DEF TypeInv, TypeOK
  <2>14. ASSUME NEW p \in Procs, RenameTmp(p) PROVE TypeInv'
    <3>1. DiskTypes'
      BY <2>14 DEF RenameTmp
    <3>2. CallTypes'
      BY <2>14 DEF RenameTmp
    <3>3. ControlTypes'
      BY <2>14 DEF RenameTmp, NoSuccessor
    <3>4. RetriesLeft'
      BY <2>14 DEF RenameTmp
    <3> QED
      BY <3>1, <3>2, <3>3, <3>4 DEF TypeInv, TypeOK
  <2>15. ASSUME NEW p \in Procs, SetWebTime(p) PROVE TypeInv'
    <3>1. DiskTypes'
      BY <2>15 DEF SetWebTime
    <3>2. CallTypes'
      BY <2>15 DEF SetWebTime
    <3>3. ControlTypes'
      BY <2>15 DEF SetWebTime
    <3>4. RetriesLeft'
      BY <2>15 DEF SetWebTime
    <3> QED
      BY <3>1, <3>2, <3>3, <3>4 DEF TypeInv, TypeOK
  <2>16. ASSUME NEW p \in Procs, CheckIfNewer(p) PROVE TypeInv'
    <3>1. DiskTypes'
      BY <2>16 DEF CheckIfNewer
    <3>2. CallTypes'
      BY <2>16 DEF CheckIfNewer
    <3>3. ControlTypes'
      BY <2>16 DEF CheckIfNewer
    <3>4. RetriesLeft'
      BY <2>16 DEF CheckIfNewer
    <3> QED
      BY <3>1, <3>2, <3>3, <3>4 DEF TypeInv, TypeOK
  <2>17. ASSUME NEW p \in Procs, OpenUrl(p) PROVE TypeInv'
    <3>1. DiskTypes'
      BY <2>17, EmptyBody DEF OpenUrl
    <3>2. CallTypes'
      BY <2>17 DEF OpenUrl
    <3>3. ControlTypes'
      BY <2>17 DEF OpenUrl
    <3>4. RetriesLeft'
      BY <2>17 DEF OpenUrl
    <3> QED
      BY <3>1, <3>2, <3>3, <3>4 DEF TypeInv, TypeOK
  <2>18. ASSUME NEW p \in Procs, OpenUrlFails(p) PROVE TypeInv'
    <3>1. DiskTypes'
      BY <2>18 DEF OpenUrlFails
    <3>2. CallTypes'
      BY <2>18 DEF OpenUrlFails
    <3>3. ControlTypes'
      BY <2>18 DEF OpenUrlFails
    <3>4. RetriesLeft'
      BY <2>18 DEF OpenUrlFails
    <3> QED
      BY <3>1, <3>2, <3>3, <3>4 DEF TypeInv, TypeOK
  <2>19. ASSUME NEW p \in Procs, WriteBlock(p) PROVE TypeInv'
    <3>0. data' \in [Inodes -> Body]
      <4>1. CASE fd[p] \in Inodes
        <5>1. [data[fd[p]] EXCEPT ![written[p] + 1] = page[p]] \in Body
          BY <2>19, <4>1, BodyUpdate DEF WriteBlock
        <5> QED
          BY <5>1, <2>19 DEF WriteBlock
      <4>2. CASE fd[p] \notin Inodes
        BY <4>2, <2>19 DEF WriteBlock
      <4> QED
        BY <4>1, <4>2
    <3>1. DiskTypes'
      BY <2>19, <3>0 DEF WriteBlock
    <3>2. CallTypes'
      BY <2>19 DEF WriteBlock
    <3>3. ControlTypes'
      BY <2>19 DEF WriteBlock
    <3>4. RetriesLeft'
      BY <2>19 DEF WriteBlock
    <3> QED
      BY <3>1, <3>2, <3>3, <3>4 DEF TypeInv, TypeOK
  <2>20. ASSUME NEW p \in Procs, ReadEnds(p) PROVE TypeInv'
    <3>1. DiskTypes'
      BY <2>20 DEF ReadEnds, CloseTmp
    <3>2. CallTypes'
      BY <2>20 DEF ReadEnds, CloseTmp
    <3>3. ControlTypes'
      BY <2>20 DEF ReadEnds, CloseTmp
    <3>4. RetriesLeft'
      BY <2>20 DEF ReadEnds, CloseTmp
    <3> QED
      BY <3>1, <3>2, <3>3, <3>4 DEF TypeInv, TypeOK
  <2>21. ASSUME NEW p \in Procs, ConnectionCut(p) PROVE TypeInv'
    <3>1. DiskTypes'
      BY <2>21 DEF ConnectionCut, CloseTmp
    <3>2. CallTypes'
      BY <2>21 DEF ConnectionCut, CloseTmp
    <3>3. ControlTypes'
      BY <2>21 DEF ConnectionCut, CloseTmp
    <3>4. RetriesLeft'
      BY <2>21 DEF ConnectionCut, CloseTmp
    <3> QED
      BY <3>1, <3>2, <3>3, <3>4 DEF TypeInv, TypeOK
  <2>22. ASSUME NEW p \in Procs, ReadFails(p) PROVE TypeInv'
    <3>1. DiskTypes'
      BY <2>22 DEF ReadFails, CloseTmp
    <3>2. CallTypes'
      BY <2>22 DEF ReadFails, CloseTmp
    <3>3. ControlTypes'
      BY <2>22 DEF ReadFails, CloseTmp
    <3>4. RetriesLeft'
      BY <2>22 DEF ReadFails, CloseTmp
    <3> QED
      BY <3>1, <3>2, <3>3, <3>4 DEF TypeInv, TypeOK
  <2>23. ASSUME NEW p \in Procs, Age(p) PROVE TypeInv'
    <3>1. DiskTypes'
      BY <2>23 DEF Age
    <3>2. CallTypes'
      BY <2>23 DEF Age
    <3>3. ControlTypes'
      BY <2>23 DEF Age
    <3>4. RetriesLeft'
      BY <2>23 DEF Age
    <3> QED
      BY <3>1, <3>2, <3>3, <3>4 DEF TypeInv, TypeOK
  <2>24. ASSUME NEW p \in Procs, Crash(p) PROVE TypeInv'
    <3>1. DiskTypes'
      BY <2>24 DEF Crash, CloseTmp
    <3>2. CallTypes'
      BY <2>24 DEF Crash, CloseTmp
    <3>3. ControlTypes'
      BY <2>24 DEF Crash, CloseTmp, NoSuccessor
    <3>4. RetriesLeft'
      BY <2>24 DEF Crash, CloseTmp
    <3> QED
      BY <3>1, <3>2, <3>3, <3>4 DEF TypeInv, TypeOK
  <2>25. ASSUME NEW p \in Procs, NEW reload \in BOOLEAN, NEW checkModifiedTime \in BOOLEAN,
         GetFilename(p, reload, checkModifiedTime) PROVE TypeInv'
    <3>1. DiskTypes'
      BY <2>25 DEF GetFilename
    <3>2. CallTypes'
      BY <2>25 DEF GetFilename
    <3>3. ControlTypes'
      BY <2>25 DEF GetFilename
    <3>4. RetriesLeft'
      BY <2>25 DEF GetFilename
    <3> QED
      BY <3>1, <3>2, <3>3, <3>4 DEF TypeInv, TypeOK
  <2>26. ASSUME ClearStart PROVE TypeInv'
    <3>1. DiskTypes'
      BY <2>26 DEF ClearStart
    <3>2. CallTypes'
      BY <2>26 DEF ClearStart
    <3>3. ControlTypes'
      BY <2>26 DEF ClearStart
    <3>4. RetriesLeft'
      BY <2>26 DEF ClearStart
    <3> QED
      BY <3>1, <3>2, <3>3, <3>4 DEF TypeInv, TypeOK
  <2>27. ASSUME NEW e \in Entries, ClearEntry(e) PROVE TypeInv'
    <3>1. DiskTypes'
      BY <2>27 DEF ClearEntry, LockFileRemovable
    <3>2. CallTypes'
      BY <2>27 DEF ClearEntry, LockFileRemovable
    <3>3. ControlTypes'
      BY <2>27 DEF ClearEntry, LockFileRemovable
    <3>4. RetriesLeft'
      BY <2>27 DEF ClearEntry, LockFileRemovable
    <3> QED
      BY <3>1, <3>2, <3>3, <3>4 DEF TypeInv, TypeOK
  <2>28. ASSUME ClearStops PROVE TypeInv'
    <3>1. DiskTypes'
      BY <2>28 DEF ClearStops
    <3>2. CallTypes'
      BY <2>28 DEF ClearStops
    <3>3. ControlTypes'
      BY <2>28 DEF ClearStops
    <3>4. RetriesLeft'
      BY <2>28 DEF ClearStops
    <3> QED
      BY <3>1, <3>2, <3>3, <3>4 DEF TypeInv, TypeOK
  <2>29. CASE UNCHANGED vars
    BY <2>29 DEF vars, TypeInv
  <2> QED
    BY <2>1, <2>2, <2>3, <2>4, <2>5, <2>6, <2>7, <2>8, <2>9, <2>10, <2>11, <2>12, <2>13, <2>14, <2>15, <2>16, <2>17, <2>18, <2>19, <2>20, <2>21, <2>22, <2>23, <2>24, <2>25, <2>26, <2>27, <2>28, <2>29
       DEF Next, Step, LocalStep, NetworkStep, Clear
<1>3. TypeInv => TypeOK
  BY DEF TypeInv
<1> QED
  BY <1>1, <1>2, <1>3, PTL DEF Spec

----------------------------------------------------------------------------
(* Locks *)

\* A process is between acquiring and releasing exactly when it holds a lock file,
\* it has a descriptor open exactly while it writes, and no two processes lock the
\* same file.
LocksHeld ==
  /\ \A p \in Procs : pc[p] \in Locked <=> holds[p] # None
  /\ \A p \in Procs : pc[p] = "write" <=> fd[p] # None
  /\ \A p, q \in Procs : (holds[p] # None /\ holds[p] = holds[q]) => p = q

LEMMA LocksHeldHolds == Spec => []LocksHeld
<1>1. Init => LocksHeld
  BY DEF Init, LocksHeld, Locked
<1>2. TypeOK /\ LocksHeld /\ [Next]_vars => LocksHeld'
  <2> SUFFICES ASSUME TypeOK, LocksHeld, [Next]_vars PROVE LocksHeld'
    OBVIOUS
  <2> USE SentinelAssumption DEF TypeOK, DiskTypes, CallTypes, LocksHeld, Locked, PcValues, Goto, Return, disk, call,
          hist, clr, Finish, Retry
  <2>1. ASSUME NEW p \in Procs, ReadBefore(p) PROVE LocksHeld'
    BY <2>1 DEF ReadBefore
  <2>2. ASSUME NEW p \in Procs, Acquire(p) PROVE LocksHeld'
    BY <2>2 DEF Acquire
  <2>3. ASSUME NEW p \in Procs, LockTimeout(p) PROVE LocksHeld'
    BY <2>3 DEF LockTimeout
  <2>4. ASSUME NEW p \in Procs, Decide(p) PROVE LocksHeld'
    BY <2>4 DEF Decide
  <2>5. ASSUME NEW p \in Procs, Release(p) PROVE LocksHeld'
    BY <2>5 DEF Release
  <2>6. ASSUME NEW p \in Procs, RemoveLockFile(p) PROVE LocksHeld'
    BY <2>6 DEF RemoveLockFile, LockFileRemovable
  <2>7. ASSUME NEW p \in Procs, GiveUp(p) PROVE LocksHeld'
    BY <2>7 DEF GiveUp
  <2>8. ASSUME NEW p \in Procs, Received(p) PROVE LocksHeld'
    BY <2>8 DEF Received, Recover
  <2>9. ASSUME NEW p \in Procs, TooShort(p) PROVE LocksHeld'
    BY <2>9 DEF TooShort, Recover, DiscardTmp
  <2>10. ASSUME NEW p \in Procs, HttpError(p) PROVE LocksHeld'
    BY <2>10 DEF HttpError, Recover
  <2>11. ASSUME NEW p \in Procs, AuthError(p) PROVE LocksHeld'
    BY <2>11 DEF AuthError, Recover
  <2>12. ASSUME NEW p \in Procs, OtherError(p) PROVE LocksHeld'
    BY <2>12 DEF OtherError, Recover, DiscardTmp
  <2>13. ASSUME NEW p \in Procs, UnlinkPrior(p) PROVE LocksHeld'
    BY <2>13 DEF UnlinkPrior
  <2>14. ASSUME NEW p \in Procs, RenameTmp(p) PROVE LocksHeld'
    BY <2>14 DEF RenameTmp
  <2>15. ASSUME NEW p \in Procs, SetWebTime(p) PROVE LocksHeld'
    BY <2>15 DEF SetWebTime
  <2>16. ASSUME NEW p \in Procs, CheckIfNewer(p) PROVE LocksHeld'
    BY <2>16 DEF CheckIfNewer
  <2>17. ASSUME NEW p \in Procs, OpenUrl(p) PROVE LocksHeld'
    BY <2>17 DEF OpenUrl
  <2>18. ASSUME NEW p \in Procs, OpenUrlFails(p) PROVE LocksHeld'
    BY <2>18 DEF OpenUrlFails
  <2>19. ASSUME NEW p \in Procs, WriteBlock(p) PROVE LocksHeld'
    BY <2>19 DEF WriteBlock
  <2>20. ASSUME NEW p \in Procs, ReadEnds(p) PROVE LocksHeld'
    BY <2>20 DEF ReadEnds, CloseTmp
  <2>21. ASSUME NEW p \in Procs, ConnectionCut(p) PROVE LocksHeld'
    BY <2>21 DEF ConnectionCut, CloseTmp
  <2>22. ASSUME NEW p \in Procs, ReadFails(p) PROVE LocksHeld'
    BY <2>22 DEF ReadFails, CloseTmp
  <2>23. ASSUME NEW p \in Procs, Age(p) PROVE LocksHeld'
    BY <2>23 DEF Age
  <2>24. ASSUME NEW p \in Procs, Crash(p) PROVE LocksHeld'
    BY <2>24 DEF Crash, CloseTmp
  <2>25. ASSUME NEW p \in Procs, NEW reload \in BOOLEAN, NEW checkModifiedTime \in BOOLEAN,
         GetFilename(p, reload, checkModifiedTime) PROVE LocksHeld'
    BY <2>25 DEF GetFilename
  <2>26. ASSUME ClearStart PROVE LocksHeld'
    BY <2>26 DEF ClearStart
  <2>27. ASSUME NEW e \in Entries, ClearEntry(e) PROVE LocksHeld'
    BY <2>27 DEF ClearEntry, LockFileRemovable
  <2>28. ASSUME ClearStops PROVE LocksHeld'
    BY <2>28 DEF ClearStops
  <2>29. CASE UNCHANGED vars
    BY <2>29 DEF vars
  <2> QED
    BY <2>1, <2>2, <2>3, <2>4, <2>5, <2>6, <2>7, <2>8, <2>9, <2>10, <2>11, <2>12, <2>13, <2>14, <2>15, <2>16, <2>17, <2>18, <2>19, <2>20, <2>21, <2>22, <2>23, <2>24, <2>25, <2>26, <2>27, <2>28, <2>29
       DEF Next, Step, LocalStep, NetworkStep, Clear
<1> QED
  BY <1>1, <1>2, TypeCorrect, PTL DEF Spec

\* Where a file in use cannot be removed, the lock file of a holder stays in place.
HeldLockInPlace == \A p \in Procs : holds[p] # None => holds[p] = lockPath

LEMMA HeldLockInPlaceHolds ==
  ASSUME ~OpenFileRemovable
  PROVE  Spec => []HeldLockInPlace
<1>1. Init => HeldLockInPlace
  BY DEF Init, HeldLockInPlace
<1>2. TypeOK /\ LocksHeld /\ HeldLockInPlace /\ [Next]_vars => HeldLockInPlace'
  <2> SUFFICES ASSUME TypeOK, LocksHeld, HeldLockInPlace, [Next]_vars PROVE HeldLockInPlace'
    OBVIOUS
  <2> USE SentinelAssumption DEF TypeOK, DiskTypes, HeldLockInPlace, LocksHeld, disk, InodesInUse
  <2>1. ASSUME NEW p \in Procs, ReadBefore(p) PROVE HeldLockInPlace'
    BY <2>1 DEF ReadBefore
  <2>2. ASSUME NEW p \in Procs, Acquire(p) PROVE HeldLockInPlace'
    BY <2>2 DEF Acquire
  <2>3. ASSUME NEW p \in Procs, LockTimeout(p) PROVE HeldLockInPlace'
    BY <2>3 DEF LockTimeout
  <2>4. ASSUME NEW p \in Procs, Decide(p) PROVE HeldLockInPlace'
    BY <2>4 DEF Decide
  <2>5. ASSUME NEW p \in Procs, Release(p) PROVE HeldLockInPlace'
    BY <2>5 DEF Release
  <2>6. ASSUME NEW p \in Procs, RemoveLockFile(p) PROVE HeldLockInPlace'
    BY <2>6 DEF RemoveLockFile, LockFileRemovable
  <2>7. ASSUME NEW p \in Procs, GiveUp(p) PROVE HeldLockInPlace'
    BY <2>7 DEF GiveUp
  <2>8. ASSUME NEW p \in Procs, Received(p) PROVE HeldLockInPlace'
    BY <2>8 DEF Received, Recover
  <2>9. ASSUME NEW p \in Procs, TooShort(p) PROVE HeldLockInPlace'
    BY <2>9 DEF TooShort, Recover, DiscardTmp
  <2>10. ASSUME NEW p \in Procs, HttpError(p) PROVE HeldLockInPlace'
    BY <2>10 DEF HttpError, Recover
  <2>11. ASSUME NEW p \in Procs, AuthError(p) PROVE HeldLockInPlace'
    BY <2>11 DEF AuthError, Recover
  <2>12. ASSUME NEW p \in Procs, OtherError(p) PROVE HeldLockInPlace'
    BY <2>12 DEF OtherError, Recover, DiscardTmp
  <2>13. ASSUME NEW p \in Procs, UnlinkPrior(p) PROVE HeldLockInPlace'
    BY <2>13 DEF UnlinkPrior
  <2>14. ASSUME NEW p \in Procs, RenameTmp(p) PROVE HeldLockInPlace'
    BY <2>14 DEF RenameTmp
  <2>15. ASSUME NEW p \in Procs, SetWebTime(p) PROVE HeldLockInPlace'
    BY <2>15 DEF SetWebTime
  <2>16. ASSUME NEW p \in Procs, CheckIfNewer(p) PROVE HeldLockInPlace'
    BY <2>16 DEF CheckIfNewer
  <2>17. ASSUME NEW p \in Procs, OpenUrl(p) PROVE HeldLockInPlace'
    BY <2>17 DEF OpenUrl
  <2>18. ASSUME NEW p \in Procs, OpenUrlFails(p) PROVE HeldLockInPlace'
    BY <2>18 DEF OpenUrlFails
  <2>19. ASSUME NEW p \in Procs, WriteBlock(p) PROVE HeldLockInPlace'
    BY <2>19 DEF WriteBlock
  <2>20. ASSUME NEW p \in Procs, ReadEnds(p) PROVE HeldLockInPlace'
    BY <2>20 DEF ReadEnds, CloseTmp
  <2>21. ASSUME NEW p \in Procs, ConnectionCut(p) PROVE HeldLockInPlace'
    BY <2>21 DEF ConnectionCut, CloseTmp
  <2>22. ASSUME NEW p \in Procs, ReadFails(p) PROVE HeldLockInPlace'
    BY <2>22 DEF ReadFails, CloseTmp
  <2>23. ASSUME NEW p \in Procs, Age(p) PROVE HeldLockInPlace'
    BY <2>23 DEF Age
  <2>24. ASSUME NEW p \in Procs, Crash(p) PROVE HeldLockInPlace'
    BY <2>24 DEF Crash, CloseTmp
  <2>25. ASSUME NEW p \in Procs, NEW reload \in BOOLEAN, NEW checkModifiedTime \in BOOLEAN,
         GetFilename(p, reload, checkModifiedTime) PROVE HeldLockInPlace'
    BY <2>25 DEF GetFilename
  <2>26. ASSUME ClearStart PROVE HeldLockInPlace'
    BY <2>26 DEF ClearStart
  <2>27. ASSUME NEW e \in Entries, ClearEntry(e) PROVE HeldLockInPlace'
    BY <2>27 DEF ClearEntry, LockFileRemovable
  <2>28. ASSUME ClearStops PROVE HeldLockInPlace'
    BY <2>28 DEF ClearStops
  <2>29. CASE UNCHANGED vars
    BY <2>29 DEF vars
  <2> QED
    BY <2>1, <2>2, <2>3, <2>4, <2>5, <2>6, <2>7, <2>8, <2>9, <2>10, <2>11, <2>12, <2>13, <2>14, <2>15, <2>16, <2>17, <2>18, <2>19, <2>20, <2>21, <2>22, <2>23, <2>24, <2>25, <2>26, <2>27, <2>28, <2>29
       DEF Next, Step, LocalStep, NetworkStep, Clear
<1> QED
  BY <1>1, <1>2, TypeCorrect, LocksHeldHolds, PTL DEF Spec

\* Where a file in use cannot be removed (Windows) the download lock really
\* excludes: removing the lock file after the release does no harm there, and
\* neither does clearing the cache.  On POSIX the run webcache_lock_race refutes it.
THEOREM ExclusiveOnWindows ==
  ASSUME ~OpenFileRemovable
  PROVE  Spec => []MutualExclusion
<1>1. LocksHeld /\ HeldLockInPlace => MutualExclusion
  BY DEF LocksHeld, HeldLockInPlace, MutualExclusion, LockHolders
<1> QED
  BY <1>1, LocksHeldHolds, HeldLockInPlaceHolds, PTL

----------------------------------------------------------------------------
(* Contents *)

\* As long as no two processes held locks at once and no short body went unnoticed,
\* the holder's temporary file is out of the readers' sight and carries exactly what
\* the holder has written, and what it is about to put in place is a whole document.
FileComplete ==
  file # None => file # tmp /\ Whole(data[file])

FileNoLogon ==
  (XmlExtension /\ file # None /\ ~accepted) => data[file] # [b \in Blocks |-> Logon]

WriterHidden ==
  \A p \in Procs : pc[p] = "write" =>
     /\ fd[p] # file /\ (tmp = None \/ tmp = fd[p])
     /\ \A b \in Blocks : b <= written[p] => data[fd[p]][b] = page[p]

TmpComplete ==
  \A p \in Procs : pc[p] \in {"received", "unlink", "rename"} =>
     (tmp # None => \A b \in Blocks : data[tmp][b] = page[p])

PageTested ==
  \A p \in Procs : pc[p] \in {"unlink", "rename"} =>
     page[p] # Logon \/ accepted \/ ~XmlExtension

\* The test finds the first block of the response in the temporary file.
BodyRead ==
  \A p \in Procs : pc[p] = "received" => written[p] = NBlocks

Contents == /\ MutualExclusion /\ FileComplete /\ FileNoLogon
            /\ WriterHidden /\ TmpComplete /\ PageTested /\ BodyRead

ContentsInv == spoiled \/ Contents

LEMMA ContentsInvHolds == Spec => []ContentsInv
<1>1. Init => ContentsInv
  BY DEF Init, ContentsInv, Contents, FileComplete, FileNoLogon, WriterHidden, TmpComplete,
         PageTested, BodyRead, MutualExclusion, LockHolders, Locked
<1>2. TypeOK /\ LocksHeld /\ ContentsInv /\ [Next]_vars => ContentsInv'
  <2> SUFFICES ASSUME TypeOK, LocksHeld, ContentsInv, [Next]_vars PROVE ContentsInv'
    OBVIOUS
  <2> USE SentinelAssumption, SizesAssumption DEF TypeOK, DiskTypes, CallTypes, ControlTypes, ContentsInv, Contents,
          FileComplete, FileNoLogon, WriterHidden, TmpComplete, PageTested, BodyRead,
          MutualExclusion,
          LockHolders, LocksHeld, Locked, PcValues, Goto, Return, disk, call, hist, clr, Finish, Retry, InodesInUse
  <2>1. ASSUME NEW p \in Procs, ReadBefore(p) PROVE ContentsInv'
    BY <2>1 DEF ReadBefore
  <2>2. ASSUME NEW p \in Procs, Acquire(p) PROVE ContentsInv'
    <3> SUFFICES ASSUME ~spoiled' PROVE Contents'
      OBVIOUS
    <3>a. Contents /\ LockHolders = {}
      BY <2>2 DEF Acquire
    <3>1. MutualExclusion'
      BY <2>2, <3>a DEF Acquire
    <3>2. FileComplete'
      BY <2>2, <3>a DEF Acquire
    <3>3. FileNoLogon'
      BY <2>2, <3>a DEF Acquire
    <3>4. WriterHidden'
      BY <2>2, <3>a DEF Acquire
    <3>5. TmpComplete'
      BY <2>2, <3>a DEF Acquire
    <3>6. PageTested'
      BY <2>2, <3>a DEF Acquire
    <3>7. BodyRead'
      BY <2>2, <3>a DEF Acquire
    <3> QED
      BY <3>1, <3>2, <3>3, <3>4, <3>5, <3>6, <3>7
  <2>3. ASSUME NEW p \in Procs, LockTimeout(p) PROVE ContentsInv'
    BY <2>3 DEF LockTimeout
  <2>4. ASSUME NEW p \in Procs, Decide(p) PROVE ContentsInv'
    BY <2>4 DEF Decide
  <2>5. ASSUME NEW p \in Procs, Release(p) PROVE ContentsInv'
    BY <2>5 DEF Release
  <2>6. ASSUME NEW p \in Procs, RemoveLockFile(p) PROVE ContentsInv'
    BY <2>6 DEF RemoveLockFile, LockFileRemovable
  <2>7. ASSUME NEW p \in Procs, GiveUp(p) PROVE ContentsInv'
    BY <2>7 DEF GiveUp
  <2>8. ASSUME NEW p \in Procs, Received(p) PROVE ContentsInv'
    BY <2>8 DEF Received, Recover, LogonFound
  <2>9. ASSUME NEW p \in Procs, TooShort(p) PROVE ContentsInv'
    BY <2>9 DEF TooShort, Recover, DiscardTmp
  <2>10. ASSUME NEW p \in Procs, HttpError(p) PROVE ContentsInv'
    BY <2>10 DEF HttpError, Recover
  <2>11. ASSUME NEW p \in Procs, AuthError(p) PROVE ContentsInv'
    BY <2>11 DEF AuthError, Recover
  <2>12. ASSUME NEW p \in Procs, OtherError(p) PROVE ContentsInv'
    BY <2>12 DEF OtherError, Recover, DiscardTmp
  <2>13. ASSUME NEW p \in Procs, UnlinkPrior(p) PROVE ContentsInv'
    BY <2>13 DEF UnlinkPrior
  <2>14. ASSUME NEW p \in Procs, RenameTmp(p) PROVE ContentsInv'
    <3> SUFFICES ASSUME ~spoiled' PROVE Contents'
      OBVIOUS
    <3>a. Contents /\ \A q \in Procs : pc[q] \in Locked => q = p
      BY <2>14 DEF RenameTmp
    <3>1. MutualExclusion'
      BY <2>14, <3>a DEF RenameTmp
    <3>2. FileComplete'
      <4>1. CASE file' = tmp /\ tmp # None /\ tmp' = None
        <5>1. data[tmp] \in Body
          BY <4>1
        <5>2. data[tmp] = [b \in Blocks |-> page[p]]
          BY <2>14, <3>a, <4>1, <5>1 DEF RenameTmp, Body
        <5> QED
          BY <2>14, <4>1, <5>2 DEF RenameTmp, Whole
      <4>2. CASE UNCHANGED <<file, tmp>>
        BY <2>14, <3>a, <4>2 DEF RenameTmp
      <4> QED
        BY <2>14, <4>1, <4>2 DEF RenameTmp
    <3>3. FileNoLogon'
      <4>1. CASE file' = tmp /\ tmp # None /\ ~accepted /\ XmlExtension
        <5>1. page[p] # Logon /\ 1 \in Blocks /\ data[tmp][1] = page[p]
          BY <2>14, <3>a, <4>1 DEF RenameTmp, Blocks
        <5>2. data[tmp] # [b \in Blocks |-> Logon]
          BY <5>1
        <5> QED
          BY <2>14, <4>1, <5>2 DEF RenameTmp
      <4>2. CASE UNCHANGED file \/ accepted \/ ~XmlExtension
        BY <2>14, <3>a, <4>2 DEF RenameTmp
      <4> QED
        BY <2>14, <4>1, <4>2 DEF RenameTmp
    <3>4. WriterHidden'
      BY <2>14, <3>a DEF RenameTmp
    <3>5. TmpComplete'
      BY <2>14, <3>a DEF RenameTmp
    <3>6. PageTested'
      BY <2>14, <3>a DEF RenameTmp
    <3>7. BodyRead'
      BY <2>14, <3>a DEF RenameTmp
    <3> QED
      BY <3>1, <3>2, <3>3, <3>4, <3>5, <3>6, <3>7
  <2>15. ASSUME NEW p \in Procs, SetWebTime(p) PROVE ContentsInv'
    BY <2>15 DEF SetWebTime
  <2>16. ASSUME NEW p \in Procs, CheckIfNewer(p) PROVE ContentsInv'
    BY <2>16 DEF CheckIfNewer
  <2>17. ASSUME NEW p \in Procs, OpenUrl(p) PROVE ContentsInv'
    <3> SUFFICES ASSUME ~spoiled' PROVE Contents'
      OBVIOUS
    <3>a. Contents /\ \A q \in Procs : pc[q] \in Locked => q = p
      BY <2>17 DEF OpenUrl
    <3>b. PICK i \in Inodes :
             /\ IF tmp = None THEN i \notin InodesInUse ELSE i = tmp
             /\ tmp' = i /\ data' = [data EXCEPT ![i] = Empty] /\ fd' = [fd EXCEPT ![p] = i]
      BY <2>17 DEF OpenUrl
    <3>c. i # file /\ file' = file
      BY <2>17, <3>a, <3>b DEF OpenUrl
    <3>1. MutualExclusion'
      BY <2>17, <3>a, <3>b, <3>c DEF OpenUrl, Empty
    <3>2. FileComplete'
      BY <2>17, <3>a, <3>b, <3>c DEF OpenUrl, Empty
    <3>3. FileNoLogon'
      BY <2>17, <3>a, <3>b, <3>c DEF OpenUrl, Empty
    <3>4. WriterHidden'
      <4>1. fd'[p] = i /\ tmp' = i /\ written'[p] = 0 /\ pc' = [pc EXCEPT ![p] = "write"]
        BY <2>17, <3>b DEF OpenUrl
      <4>2. \A b \in Blocks : ~(b <= 0)
        BY DEF Blocks
      <4>3. \A q \in Procs : pc'[q] = "write" => q = p
        BY <3>a, <4>1
      <4> QED
        BY <3>c, <4>1, <4>2, <4>3
    <3>5. TmpComplete'
      BY <2>17, <3>a, <3>b, <3>c DEF OpenUrl, Empty
    <3>6. PageTested'
      BY <2>17, <3>a, <3>b, <3>c DEF OpenUrl, Empty
    <3>7. BodyRead'
      BY <2>17, <3>a, <3>b, <3>c DEF OpenUrl, Empty
    <3> QED
      BY <3>1, <3>2, <3>3, <3>4, <3>5, <3>6, <3>7
  <2>18. ASSUME NEW p \in Procs, OpenUrlFails(p) PROVE ContentsInv'
    BY <2>18 DEF OpenUrlFails
  <2>19. ASSUME NEW p \in Procs, WriteBlock(p) PROVE ContentsInv'
    <3> SUFFICES ASSUME ~spoiled' PROVE Contents'
      OBVIOUS
    <3>a. Contents /\ \A q \in Procs : pc[q] \in Locked => q = p
      BY <2>19 DEF WriteBlock
    <3>b. fd[p] \in Inodes /\ fd[p] # file /\ (tmp = None \/ tmp = fd[p])
      BY <2>19, <3>a DEF WriteBlock
    <3>c. file # None => data'[file] = data[file]
      BY <2>19, <3>b DEF WriteBlock
    <3>1. MutualExclusion'
      BY <2>19, <3>a, <3>b, <3>c DEF WriteBlock, Body, Blocks, Pages
    <3>2. FileComplete'
      BY <2>19, <3>a, <3>b, <3>c DEF WriteBlock, Body, Blocks, Pages
    <3>3. FileNoLogon'
      BY <2>19, <3>a, <3>b, <3>c DEF WriteBlock, Body, Blocks, Pages
    <3>4. WriterHidden'
      BY <2>19, <3>a, <3>b, <3>c DEF WriteBlock, Body, Blocks, Pages
    <3>5. TmpComplete'
      BY <2>19, <3>a, <3>b, <3>c DEF WriteBlock, Body, Blocks, Pages
    <3>6. PageTested'
      BY <2>19, <3>a, <3>b, <3>c DEF WriteBlock, Body, Blocks, Pages
    <3>7. BodyRead'
      BY <2>19, <3>a, <3>b, <3>c DEF WriteBlock, Body, Blocks, Pages
    <3> QED
      BY <3>1, <3>2, <3>3, <3>4, <3>5, <3>6, <3>7
  <2>20. ASSUME NEW p \in Procs, ReadEnds(p) PROVE ContentsInv'
    <3> SUFFICES ASSUME ~spoiled' PROVE Contents'
      OBVIOUS
    <3>a. Contents /\ \A q \in Procs : pc[q] \in Locked => q = p
      BY <2>20 DEF ReadEnds, CloseTmp
    <3>1. MutualExclusion'
      BY <2>20, <3>a DEF ReadEnds, CloseTmp, Blocks
    <3>2. FileComplete'
      BY <2>20, <3>a DEF ReadEnds, CloseTmp, Blocks
    <3>3. FileNoLogon'
      BY <2>20, <3>a DEF ReadEnds, CloseTmp, Blocks
    <3>4. WriterHidden'
      BY <2>20, <3>a DEF ReadEnds, CloseTmp, Blocks
    <3>5. TmpComplete'
      BY <2>20, <3>a DEF ReadEnds, CloseTmp, Blocks
    <3>6. PageTested'
      BY <2>20, <3>a DEF ReadEnds, CloseTmp, Blocks
    <3>7. BodyRead'
      BY <2>20, <3>a DEF ReadEnds, CloseTmp, Blocks
    <3> QED
      BY <3>1, <3>2, <3>3, <3>4, <3>5, <3>6, <3>7
  <2>21. ASSUME NEW p \in Procs, ConnectionCut(p) PROVE ContentsInv'
    BY <2>21 DEF ConnectionCut, CloseTmp
  <2>22. ASSUME NEW p \in Procs, ReadFails(p) PROVE ContentsInv'
    BY <2>22 DEF ReadFails, CloseTmp
  <2>23. ASSUME NEW p \in Procs, Age(p) PROVE ContentsInv'
    BY <2>23 DEF Age
  <2>24. ASSUME NEW p \in Procs, Crash(p) PROVE ContentsInv'
    BY <2>24 DEF Crash, CloseTmp
  <2>25. ASSUME NEW p \in Procs, NEW reload \in BOOLEAN, NEW checkModifiedTime \in BOOLEAN,
         GetFilename(p, reload, checkModifiedTime) PROVE ContentsInv'
    BY <2>25 DEF GetFilename
  <2>26. ASSUME ClearStart PROVE ContentsInv'
    BY <2>26 DEF ClearStart
  <2>27. ASSUME NEW e \in Entries, ClearEntry(e) PROVE ContentsInv'
    BY <2>27 DEF ClearEntry, LockFileRemovable
  <2>28. ASSUME ClearStops PROVE ContentsInv'
    BY <2>28 DEF ClearStops
  <2>29. CASE UNCHANGED vars
    BY <2>29 DEF vars
  <2> QED
    BY <2>1, <2>2, <2>3, <2>4, <2>5, <2>6, <2>7, <2>8, <2>9, <2>10, <2>11, <2>12, <2>13, <2>14, <2>15, <2>16, <2>17, <2>18, <2>19, <2>20, <2>21, <2>22, <2>23, <2>24, <2>25, <2>26, <2>27, <2>28, <2>29
       DEF Next, Step, LocalStep, NetworkStep, Clear
<1> QED
  BY <1>1, <1>2, TypeCorrect, LocksHeldHolds, PTL DEF Spec

\* A reader of the cache finds no file or one complete response, for any number of
\* processes that download, fail, crash and clear the cache at any moment, unless
\* two of them held locks at once or a body sent as gzip, or without a length, was cut
\* unnoticed.
THEOREM CachedFileIsWhole == Spec => []CachedFileWhole
<1>1. ContentsInv => CachedFileWhole
  BY DEF ContentsInv, Contents, FileComplete, CachedFileWhole
<1> QED
  BY <1>1, ContentsInvHolds, PTL

\* Under the same condition the file of a URL that ends in .xsd, .xml or .xbrl, the
\* only ones whose response is searched for <html, is a logon page only after a user
\* said that it is the document asked for.
THEOREM LogonPageIsNotCached == Spec => []NoLogonPageCached
<1>1. ContentsInv => NoLogonPageCached
  BY DEF ContentsInv, Contents, FileNoLogon, NoLogonPageCached
<1> QED
  BY <1>1, ContentsInvHolds, PTL

\* While nobody clears the cache, the holder's temporary file stays under its entry.
TmpInPlace ==
  spoiled \/ clears # 0 \/
    /\ clearing = {}
    /\ \A p \in Procs : pc[p] = "write" => tmp = fd[p]
    /\ \A p \in Procs : pc[p] \in {"received", "unlink", "rename"} => tmp # None

LEMMA TmpInPlaceHolds == Spec => []TmpInPlace
<1>1. Init => TmpInPlace
  BY DEF Init, TmpInPlace
<1>2. TypeOK /\ LocksHeld /\ ContentsInv /\ TmpInPlace /\ [Next]_vars => TmpInPlace'
  <2> SUFFICES ASSUME TypeOK, LocksHeld, ContentsInv, TmpInPlace, [Next]_vars
               PROVE  TmpInPlace'
    OBVIOUS
  <2> USE SentinelAssumption, SizesAssumption DEF TypeOK, DiskTypes, CallTypes, ControlTypes,
          ContentsInv, Contents, TmpInPlace, MutualExclusion, LockHolders, LocksHeld, Locked,
          PcValues, Goto, Return, disk, call, hist, clr, Finish, Retry
  <2>1. ASSUME NEW p \in Procs, ReadBefore(p) PROVE TmpInPlace'
    BY <2>1 DEF ReadBefore
  <2>2. ASSUME NEW p \in Procs, Acquire(p) PROVE TmpInPlace'
    BY <2>2 DEF Acquire
  <2>3. ASSUME NEW p \in Procs, LockTimeout(p) PROVE TmpInPlace'
    BY <2>3 DEF LockTimeout
  <2>4. ASSUME NEW p \in Procs, Decide(p) PROVE TmpInPlace'
    BY <2>4 DEF Decide
  <2>5. ASSUME NEW p \in Procs, Release(p) PROVE TmpInPlace'
    BY <2>5 DEF Release
  <2>6. ASSUME NEW p \in Procs, RemoveLockFile(p) PROVE TmpInPlace'
    BY <2>6 DEF RemoveLockFile, LockFileRemovable
  <2>7. ASSUME NEW p \in Procs, GiveUp(p) PROVE TmpInPlace'
    BY <2>7 DEF GiveUp
  <2>8. ASSUME NEW p \in Procs, Received(p) PROVE TmpInPlace'
    BY <2>8 DEF Received, Recover
  <2>9. ASSUME NEW p \in Procs, TooShort(p) PROVE TmpInPlace'
    BY <2>9 DEF TooShort, Recover, DiscardTmp
  <2>10. ASSUME NEW p \in Procs, HttpError(p) PROVE TmpInPlace'
    BY <2>10 DEF HttpError, Recover
  <2>11. ASSUME NEW p \in Procs, AuthError(p) PROVE TmpInPlace'
    BY <2>11 DEF AuthError, Recover
  <2>12. ASSUME NEW p \in Procs, OtherError(p) PROVE TmpInPlace'
    BY <2>12 DEF OtherError, Recover, DiscardTmp
  <2>13. ASSUME NEW p \in Procs, UnlinkPrior(p) PROVE TmpInPlace'
    BY <2>13 DEF UnlinkPrior
  <2>14. ASSUME NEW p \in Procs, RenameTmp(p) PROVE TmpInPlace'
    BY <2>14 DEF RenameTmp
  <2>15. ASSUME NEW p \in Procs, SetWebTime(p) PROVE TmpInPlace'
    BY <2>15 DEF SetWebTime
  <2>16. ASSUME NEW p \in Procs, CheckIfNewer(p) PROVE TmpInPlace'
    BY <2>16 DEF CheckIfNewer
  <2>17. ASSUME NEW p \in Procs, OpenUrl(p) PROVE TmpInPlace'
    BY <2>17 DEF OpenUrl
  <2>18. ASSUME NEW p \in Procs, OpenUrlFails(p) PROVE TmpInPlace'
    BY <2>18 DEF OpenUrlFails
  <2>19. ASSUME NEW p \in Procs, WriteBlock(p) PROVE TmpInPlace'
    BY <2>19 DEF WriteBlock
  <2>20. ASSUME NEW p \in Procs, ReadEnds(p) PROVE TmpInPlace'
    BY <2>20 DEF ReadEnds, CloseTmp
  <2>21. ASSUME NEW p \in Procs, ConnectionCut(p) PROVE TmpInPlace'
    BY <2>21 DEF ConnectionCut, CloseTmp
  <2>22. ASSUME NEW p \in Procs, ReadFails(p) PROVE TmpInPlace'
    BY <2>22 DEF ReadFails, CloseTmp
  <2>23. ASSUME NEW p \in Procs, Age(p) PROVE TmpInPlace'
    BY <2>23 DEF Age
  <2>24. ASSUME NEW p \in Procs, Crash(p) PROVE TmpInPlace'
    BY <2>24 DEF Crash, CloseTmp
  <2>25. ASSUME NEW p \in Procs, NEW reload \in BOOLEAN, NEW checkModifiedTime \in BOOLEAN,
         GetFilename(p, reload, checkModifiedTime) PROVE TmpInPlace'
    BY <2>25 DEF GetFilename
  <2>26. ASSUME ClearStart PROVE TmpInPlace'
    BY <2>26 DEF ClearStart
  <2>27. ASSUME NEW e \in Entries, ClearEntry(e) PROVE TmpInPlace'
    BY <2>27 DEF ClearEntry, LockFileRemovable
  <2>28. ASSUME ClearStops PROVE TmpInPlace'
    BY <2>28 DEF ClearStops
  <2>29. CASE UNCHANGED vars
    BY <2>29 DEF vars
  <2> QED
    BY <2>1, <2>2, <2>3, <2>4, <2>5, <2>6, <2>7, <2>8, <2>9, <2>10, <2>11, <2>12, <2>13, <2>14, <2>15, <2>16, <2>17, <2>18, <2>19, <2>20, <2>21, <2>22, <2>23, <2>24, <2>25, <2>26, <2>27, <2>28, <2>29
       DEF Next, Step, LocalStep, NetworkStep, Clear
<1> QED
  BY <1>1, <1>2, TypeCorrect, LocksHeldHolds, ContentsInvHolds, PTL DEF Spec

\* While nobody clears the cache, a document that was in it and is missing has a process
\* at the rename: it is the only one that holds the lock, so nobody else removes or
\* overwrites what it is about to put in place.
PriorFollowed ==
  spoiled \/ clears # 0 \/
    (prior = "there" /\ file = None => \E p \in Procs : pc[p] = "rename")

LEMMA PriorFollowedHolds == Spec => []PriorFollowed
<1>1. Init => PriorFollowed
  BY DEF Init, PriorFollowed
<1>2. TypeOK /\ LocksHeld /\ ContentsInv /\ TmpInPlace /\ PriorFollowed /\ [Next]_vars
        => PriorFollowed'
  <2> SUFFICES ASSUME TypeOK, LocksHeld, ContentsInv, TmpInPlace, PriorFollowed, [Next]_vars
               PROVE  PriorFollowed'
    OBVIOUS
  <2> USE SentinelAssumption DEF TypeOK, DiskTypes, CallTypes, ControlTypes, ContentsInv, Contents,
          TmpInPlace, PriorFollowed, MutualExclusion, LockHolders, LocksHeld, Locked, PcValues,
          Goto, Return, disk, call, hist, clr, Finish, Retry, Recover, DiscardTmp, CloseTmp
  <2>1. ASSUME NEW p \in Procs, ReadBefore(p) PROVE PriorFollowed'
    BY <2>1 DEF ReadBefore
  <2>2. ASSUME NEW p \in Procs, Acquire(p) PROVE PriorFollowed'
    BY <2>2 DEF Acquire
  <2>3. ASSUME NEW p \in Procs, LockTimeout(p) PROVE PriorFollowed'
    BY <2>3 DEF LockTimeout
  <2>4. ASSUME NEW p \in Procs, Decide(p) PROVE PriorFollowed'
    BY <2>4 DEF Decide
  <2>5. ASSUME NEW p \in Procs, Release(p) PROVE PriorFollowed'
    BY <2>5 DEF Release
  <2>6. ASSUME NEW p \in Procs, RemoveLockFile(p) PROVE PriorFollowed'
    BY <2>6 DEF RemoveLockFile, LockFileRemovable
  <2>7. ASSUME NEW p \in Procs, GiveUp(p) PROVE PriorFollowed'
    BY <2>7 DEF GiveUp
  <2>8. ASSUME NEW p \in Procs, Received(p) PROVE PriorFollowed'
    BY <2>8 DEF Received
  <2>9. ASSUME NEW p \in Procs, TooShort(p) PROVE PriorFollowed'
    BY <2>9 DEF TooShort
  <2>10. ASSUME NEW p \in Procs, HttpError(p) PROVE PriorFollowed'
    BY <2>10 DEF HttpError
  <2>11. ASSUME NEW p \in Procs, AuthError(p) PROVE PriorFollowed'
    BY <2>11 DEF AuthError
  <2>12. ASSUME NEW p \in Procs, OtherError(p) PROVE PriorFollowed'
    BY <2>12 DEF OtherError
  <2>13. ASSUME NEW p \in Procs, UnlinkPrior(p) PROVE PriorFollowed'
    BY <2>13 DEF UnlinkPrior
  <2>14. ASSUME NEW p \in Procs, RenameTmp(p) PROVE PriorFollowed'
    BY <2>14 DEF RenameTmp, NoSuccessor
  <2>15. ASSUME NEW p \in Procs, SetWebTime(p) PROVE PriorFollowed'
    BY <2>15 DEF SetWebTime
  <2>16. ASSUME NEW p \in Procs, CheckIfNewer(p) PROVE PriorFollowed'
    BY <2>16 DEF CheckIfNewer
  <2>17. ASSUME NEW p \in Procs, OpenUrl(p) PROVE PriorFollowed'
    BY <2>17 DEF OpenUrl
  <2>18. ASSUME NEW p \in Procs, OpenUrlFails(p) PROVE PriorFollowed'
    BY <2>18 DEF OpenUrlFails
  <2>19. ASSUME NEW p \in Procs, WriteBlock(p) PROVE PriorFollowed'
    BY <2>19 DEF WriteBlock
  <2>20. ASSUME NEW p \in Procs, ReadEnds(p) PROVE PriorFollowed'
    BY <2>20 DEF ReadEnds
  <2>21. ASSUME NEW p \in Procs, ConnectionCut(p) PROVE PriorFollowed'
    BY <2>21 DEF ConnectionCut
  <2>22. ASSUME NEW p \in Procs, ReadFails(p) PROVE PriorFollowed'
    BY <2>22 DEF ReadFails
  <2>23. ASSUME NEW p \in Procs, Age(p) PROVE PriorFollowed'
    BY <2>23 DEF Age
  <2>24. ASSUME NEW p \in Procs, Crash(p) PROVE PriorFollowed'
    BY <2>24 DEF Crash, NoSuccessor
  <2>25. ASSUME NEW p \in Procs, NEW reload \in BOOLEAN, NEW checkModifiedTime \in BOOLEAN,
         GetFilename(p, reload, checkModifiedTime) PROVE PriorFollowed'
    BY <2>25 DEF GetFilename
  <2>26. ASSUME ClearStart PROVE PriorFollowed'
    BY <2>26 DEF ClearStart
  <2>27. ASSUME NEW e \in Entries, ClearEntry(e) PROVE PriorFollowed'
    BY <2>27 DEF ClearEntry, LockFileRemovable
  <2>28. ASSUME ClearStops PROVE PriorFollowed'
    BY <2>28 DEF ClearStops
  <2>29. CASE UNCHANGED vars
    BY <2>29 DEF vars
  <2> QED
    BY <2>1, <2>2, <2>3, <2>4, <2>5, <2>6, <2>7, <2>8, <2>9, <2>10, <2>11, <2>12, <2>13, <2>14, <2>15, <2>16, <2>17, <2>18, <2>19, <2>20, <2>21, <2>22, <2>23, <2>24, <2>25, <2>26, <2>27, <2>28, <2>29
       DEF Next, Step, LocalStep, NetworkStep, Clear
<1> QED
  BY <1>1, <1>2, TypeCorrect, LocksHeldHolds, ContentsInvHolds, TmpInPlaceHolds, PTL DEF Spec

\* Under the same condition, and while nobody clears the cache, a document that was in
\* the cache is missing only as long as a process is at its rename with the complete
\* successor under tmp, or after that rename was refused or that process killed there:
\* every other failure, retry, refusal and crash leaves the prior copy where it is.
THEOREM PriorCopyIsReplaced == Spec => []PriorCopyReplaced
<1>1. TypeOK /\ ContentsInv /\ TmpInPlace /\ PriorFollowed => PriorCopyReplaced
  <2> SUFFICES ASSUME TypeOK, ContentsInv, TmpInPlace, PriorFollowed,
                      ~spoiled, clears = 0, prior = "there", file = None
               PROVE  \E p \in Procs : pc[p] = "rename" /\ tmp # None /\ Whole(data[tmp])
    BY DEF PriorCopyReplaced
  <2>1. PICK p \in Procs : pc[p] = "rename"
    BY DEF PriorFollowed
  <2>2. tmp # None
    BY <2>1, SizesAssumption DEF TmpInPlace
  <2>3. data[tmp] \in Body /\ \A b \in Blocks : data[tmp][b] = page[p]
    BY <2>1, <2>2 DEF TypeOK, DiskTypes, ContentsInv, Contents, TmpComplete
  <2>4. data[tmp] = [b \in Blocks |-> page[p]] /\ page[p] \in Pages
    BY <2>3 DEF Body, TypeOK, CallTypes
  <2> QED
    BY <2>1, <2>2, <2>4 DEF Whole
<1> QED
  BY <1>1, TypeCorrect, ContentsInvHolds, TmpInPlaceHolds, PriorFollowedHolds, PTL

----------------------------------------------------------------------------
(* The work of others *)

\* Only while filepath exists can a process have seen an older one, and from the
\* start of a download to its end no newer one appears.
NoneNewer ==
  spoiled \/
    /\ file = None => older = {}
    /\ \A p \in Procs :
         pc[p] \in {"fetch", "write", "received", "tooShort", "httpError", "authError",
                    "otherError"} => p \notin older

LEMMA NoneNewerHolds == Spec => []NoneNewer
<1>1. Init => NoneNewer
  BY DEF Init, NoneNewer
<1>2. TypeOK /\ LocksHeld /\ ContentsInv /\ NoneNewer /\ [Next]_vars => NoneNewer'
  <2> SUFFICES ASSUME TypeOK, LocksHeld, ContentsInv, NoneNewer, [Next]_vars
               PROVE  NoneNewer'
    OBVIOUS
  <2> USE SentinelAssumption DEF TypeOK, DiskTypes, CallTypes, ContentsInv, Contents, NoneNewer,
          MutualExclusion, LockHolders, LocksHeld, Locked, PcValues, Goto, Return, disk, call,
          hist, clr, Finish, Retry, Recover, DiscardTmp, CloseTmp
  <2>1. ASSUME NEW p \in Procs, ReadBefore(p) PROVE NoneNewer'
    BY <2>1 DEF ReadBefore
  <2>2. ASSUME NEW p \in Procs, Acquire(p) PROVE NoneNewer'
    BY <2>2 DEF Acquire
  <2>3. ASSUME NEW p \in Procs, LockTimeout(p) PROVE NoneNewer'
    BY <2>3 DEF LockTimeout
  <2>4. ASSUME NEW p \in Procs, Decide(p) PROVE NoneNewer'
    BY <2>4 DEF Decide
  <2>5. ASSUME NEW p \in Procs, Release(p) PROVE NoneNewer'
    BY <2>5 DEF Release
  <2>6. ASSUME NEW p \in Procs, RemoveLockFile(p) PROVE NoneNewer'
    BY <2>6 DEF RemoveLockFile, LockFileRemovable
  <2>7. ASSUME NEW p \in Procs, GiveUp(p) PROVE NoneNewer'
    BY <2>7 DEF GiveUp
  <2>8. ASSUME NEW p \in Procs, Received(p) PROVE NoneNewer'
    BY <2>8 DEF Received
  <2>9. ASSUME NEW p \in Procs, TooShort(p) PROVE NoneNewer'
    BY <2>9 DEF TooShort
  <2>10. ASSUME NEW p \in Procs, HttpError(p) PROVE NoneNewer'
    BY <2>10 DEF HttpError
  <2>11. ASSUME NEW p \in Procs, AuthError(p) PROVE NoneNewer'
    BY <2>11 DEF AuthError
  <2>12. ASSUME NEW p \in Procs, OtherError(p) PROVE NoneNewer'
    BY <2>12 DEF OtherError
  <2>13. ASSUME NEW p \in Procs, UnlinkPrior(p) PROVE NoneNewer'
    BY <2>13 DEF UnlinkPrior
  <2>14. ASSUME NEW p \in Procs, RenameTmp(p) PROVE NoneNewer'
    BY <2>14 DEF RenameTmp
  <2>15. ASSUME NEW p \in Procs, SetWebTime(p) PROVE NoneNewer'
    BY <2>15 DEF SetWebTime
  <2>16. ASSUME NEW p \in Procs, CheckIfNewer(p) PROVE NoneNewer'
    BY <2>16 DEF CheckIfNewer
  <2>17. ASSUME NEW p \in Procs, OpenUrl(p) PROVE NoneNewer'
    BY <2>17 DEF OpenUrl
  <2>18. ASSUME NEW p \in Procs, OpenUrlFails(p) PROVE NoneNewer'
    BY <2>18 DEF OpenUrlFails
  <2>19. ASSUME NEW p \in Procs, WriteBlock(p) PROVE NoneNewer'
    BY <2>19 DEF WriteBlock
  <2>20. ASSUME NEW p \in Procs, ReadEnds(p) PROVE NoneNewer'
    BY <2>20 DEF ReadEnds
  <2>21. ASSUME NEW p \in Procs, ConnectionCut(p) PROVE NoneNewer'
    BY <2>21 DEF ConnectionCut
  <2>22. ASSUME NEW p \in Procs, ReadFails(p) PROVE NoneNewer'
    BY <2>22 DEF ReadFails
  <2>23. ASSUME NEW p \in Procs, Age(p) PROVE NoneNewer'
    BY <2>23 DEF Age
  <2>24. ASSUME NEW p \in Procs, Crash(p) PROVE NoneNewer'
    BY <2>24 DEF Crash
  <2>25. ASSUME NEW p \in Procs, NEW reload \in BOOLEAN, NEW checkModifiedTime \in BOOLEAN,
         GetFilename(p, reload, checkModifiedTime) PROVE NoneNewer'
    BY <2>25 DEF GetFilename
  <2>26. ASSUME ClearStart PROVE NoneNewer'
    BY <2>26 DEF ClearStart
  <2>27. ASSUME NEW e \in Entries, ClearEntry(e) PROVE NoneNewer'
    BY <2>27 DEF ClearEntry, LockFileRemovable
  <2>28. ASSUME ClearStops PROVE NoneNewer'
    BY <2>28 DEF ClearStops
  <2>29. CASE UNCHANGED vars
    BY <2>29 DEF vars
  <2> QED
    BY <2>1, <2>2, <2>3, <2>4, <2>5, <2>6, <2>7, <2>8, <2>9, <2>10, <2>11, <2>12, <2>13, <2>14, <2>15, <2>16, <2>17, <2>18, <2>19, <2>20, <2>21, <2>22, <2>23, <2>24, <2>25, <2>26, <2>27, <2>28, <2>29
       DEF Next, Step, LocalStep, NetworkStep, Clear
<1> QED
  BY <1>1, <1>2, TypeCorrect, LocksHeldHolds, ContentsInvHolds, PTL DEF Spec

\* Unless two processes held locks at once, no process downloads a document of which
\* it could use the copy that another one put in place while it waited for the lock.
THEOREM NewerCopyIsUsed == Spec => []NewerCopyUsed
<1>1. NoneNewer => NewerCopyUsed
  BY DEF NoneNewer, NewerCopyUsed
<1> QED
  BY <1>1, NoneNewerHolds, PTL

\* Where nothing is refused and nobody clears the cache, the prior copy is gone when
\* the new one is to be put in place, and that one is there from then to the release.
FileInPlace ==
  (~spoiled /\ ~FilesystemErrors /\ clears = 0) =>
    \A p \in Procs :
      /\ pc[p] = "rename" => file = None
      /\ pc[p] = "utime" => file # None
      /\ pc[p] = "release" /\ inCache[p] /\ ~recheck[p] => file # None

LEMMA FileInPlaceHolds == Spec => []FileInPlace
<1>1. Init => FileInPlace
  BY DEF Init, FileInPlace
<1>2. TypeOK /\ LocksHeld /\ ContentsInv /\ TmpInPlace /\ NoneNewer /\ FileInPlace /\ [Next]_vars
        => FileInPlace'
  <2> SUFFICES ASSUME TypeOK, LocksHeld, ContentsInv, TmpInPlace, NoneNewer, FileInPlace,
                      [Next]_vars
               PROVE  FileInPlace'
    OBVIOUS
  <2> USE SentinelAssumption DEF TypeOK, DiskTypes, CallTypes, ControlTypes, ContentsInv, Contents,
          TmpInPlace, NoneNewer, FileInPlace, MutualExclusion, LockHolders, LocksHeld, Locked,
          PcValues, Goto, Return, disk, call, hist, clr, Finish, Retry, Recover, DiscardTmp,
          CloseTmp
  <2>1. ASSUME NEW p \in Procs, ReadBefore(p) PROVE FileInPlace'
    BY <2>1 DEF ReadBefore
  <2>2. ASSUME NEW p \in Procs, Acquire(p) PROVE FileInPlace'
    BY <2>2 DEF Acquire
  <2>3. ASSUME NEW p \in Procs, LockTimeout(p) PROVE FileInPlace'
    BY <2>3 DEF LockTimeout
  <2>4. ASSUME NEW p \in Procs, Decide(p) PROVE FileInPlace'
    BY <2>4 DEF Decide
  <2>5. ASSUME NEW p \in Procs, Release(p) PROVE FileInPlace'
    BY <2>5 DEF Release
  <2>6. ASSUME NEW p \in Procs, RemoveLockFile(p) PROVE FileInPlace'
    BY <2>6 DEF RemoveLockFile, LockFileRemovable
  <2>7. ASSUME NEW p \in Procs, GiveUp(p) PROVE FileInPlace'
    BY <2>7 DEF GiveUp
  <2>8. ASSUME NEW p \in Procs, Received(p) PROVE FileInPlace'
    BY <2>8 DEF Received
  <2>9. ASSUME NEW p \in Procs, TooShort(p) PROVE FileInPlace'
    BY <2>9 DEF TooShort
  <2>10. ASSUME NEW p \in Procs, HttpError(p) PROVE FileInPlace'
    BY <2>10 DEF HttpError
  <2>11. ASSUME NEW p \in Procs, AuthError(p) PROVE FileInPlace'
    BY <2>11 DEF AuthError
  <2>12. ASSUME NEW p \in Procs, OtherError(p) PROVE FileInPlace'
    BY <2>12 DEF OtherError
  <2>13. ASSUME NEW p \in Procs, UnlinkPrior(p) PROVE FileInPlace'
    BY <2>13 DEF UnlinkPrior
  <2>14. ASSUME NEW p \in Procs, RenameTmp(p) PROVE FileInPlace'
    BY <2>14 DEF RenameTmp
  <2>15. ASSUME NEW p \in Procs, SetWebTime(p) PROVE FileInPlace'
    BY <2>15 DEF SetWebTime
  <2>16. ASSUME NEW p \in Procs, CheckIfNewer(p) PROVE FileInPlace'
    BY <2>16 DEF CheckIfNewer
  <2>17. ASSUME NEW p \in Procs, OpenUrl(p) PROVE FileInPlace'
    BY <2>17 DEF OpenUrl
  <2>18. ASSUME NEW p \in Procs, OpenUrlFails(p) PROVE FileInPlace'
    BY <2>18 DEF OpenUrlFails
  <2>19. ASSUME NEW p \in Procs, WriteBlock(p) PROVE FileInPlace'
    BY <2>19 DEF WriteBlock
  <2>20. ASSUME NEW p \in Procs, ReadEnds(p) PROVE FileInPlace'
    BY <2>20 DEF ReadEnds
  <2>21. ASSUME NEW p \in Procs, ConnectionCut(p) PROVE FileInPlace'
    BY <2>21 DEF ConnectionCut
  <2>22. ASSUME NEW p \in Procs, ReadFails(p) PROVE FileInPlace'
    BY <2>22 DEF ReadFails
  <2>23. ASSUME NEW p \in Procs, Age(p) PROVE FileInPlace'
    BY <2>23 DEF Age
  <2>24. ASSUME NEW p \in Procs, Crash(p) PROVE FileInPlace'
    BY <2>24 DEF Crash
  <2>25. ASSUME NEW p \in Procs, NEW reload \in BOOLEAN, NEW checkModifiedTime \in BOOLEAN,
         GetFilename(p, reload, checkModifiedTime) PROVE FileInPlace'
    BY <2>25 DEF GetFilename
  <2>26. ASSUME ClearStart PROVE FileInPlace'
    BY <2>26 DEF ClearStart
  <2>27. ASSUME NEW e \in Entries, ClearEntry(e) PROVE FileInPlace'
    BY <2>27 DEF ClearEntry, LockFileRemovable
  <2>28. ASSUME ClearStops PROVE FileInPlace'
    BY <2>28 DEF ClearStops
  <2>29. CASE UNCHANGED vars
    BY <2>29 DEF vars
  <2> QED
    BY <2>1, <2>2, <2>3, <2>4, <2>5, <2>6, <2>7, <2>8, <2>9, <2>10, <2>11, <2>12, <2>13, <2>14, <2>15, <2>16, <2>17, <2>18, <2>19, <2>20, <2>21, <2>22, <2>23, <2>24, <2>25, <2>26, <2>27, <2>28, <2>29
       DEF Next, Step, LocalStep, NetworkStep, Clear
<1> QED
  BY <1>1, <1>2, TypeCorrect, LocksHeldHolds, ContentsInvHolds, TmpInPlaceHolds, NoneNewerHolds,
     PTL DEF Spec

\* Under these conditions a download that is not a recheck and reports success leaves
\* the file there, whatever other processes do and whichever of them crash.
THEOREM DownloadedFileIsThere == Spec => []DownloadedFileThere
<1>1. FileInPlace => DownloadedFileThere
  BY DEF FileInPlace, DownloadedFileThere
<1> QED
  BY <1>1, FileInPlaceHolds, PTL

----------------------------------------------------------------------------
(* Refinement *)

\* Where a file in use cannot be removed and every body has its size checked,
\* nothing ever spoils the cache.
LEMMA NeverSpoiled ==
  ASSUME ~OpenFileRemovable, {"gzip", "close"} \cap Encodings = {}
  PROVE  Spec => []~spoiled
<1>1. Init => ~spoiled
  BY DEF Init
<1>2. TypeOK /\ LocksHeld /\ HeldLockInPlace /\ ~spoiled /\ [Next]_vars => ~spoiled'
  <2> SUFFICES ASSUME TypeOK, LocksHeld, HeldLockInPlace, ~spoiled, [Next]_vars
               PROVE  ~spoiled'
    OBVIOUS
  <2>1. ASSUME NEW p \in Procs, Acquire(p) PROVE ~spoiled'
    <3>1. LockHolders = {}
      BY <2>1, SentinelAssumption
         DEF Acquire, LockHolders, LocksHeld, HeldLockInPlace, TypeOK, DiskTypes
    <3> QED
      BY <2>1, <3>1 DEF Acquire
  <2>2. ASSUME NEW p \in Procs, ConnectionCut(p) PROVE ~spoiled'
    BY <2>2 DEF ConnectionCut
  <2>3. CASE UNCHANGED spoiled
    BY <2>3
  <2> QED
    BY <2>1, <2>2, <2>3
       DEF Next, Step, LocalStep, NetworkStep, Clear, vars, hist, ReadBefore, LockTimeout,
           Decide, Release, RemoveLockFile, GiveUp, Received, TooShort, HttpError,
           AuthError, OtherError, UnlinkPrior, RenameTmp, SetWebTime, CheckIfNewer, OpenUrl,
           OpenUrlFails, WriteBlock, ReadEnds, ReadFails, Age, Crash, GetFilename,
           ClearStart, ClearEntry, ClearStops
<1> QED
  BY <1>1, <1>2, TypeCorrect, LocksHeldHolds, HeldLockInPlaceHolds, PTL DEF Spec

\* A complete body shows exactly the document it carries.
LEMMA DocumentInComplete ==
  ASSUME NEW v \in Pages, NEW body, body = [b \in Blocks |-> v]
  PROVE  DocumentIn(body) = v
  BY SizesAssumption DEF DocumentIn, Whole, Blocks

\* The download implements the replacement of CacheReplacement: a reader sees no
\* document or a complete one, whatever steps the processes interleave.  Between the
\* removal and the rename it sees none; then the successor is ready, no other process
\* puts another document there, and either that successor comes or, if the rename is
\* refused or its process killed, none does until a later request.
THEOREM DownloadReplaces ==
  ASSUME ~OpenFileRemovable, {"gzip", "close"} \cap Encodings = {}, MaxClears = 0
  PROVE  Spec => ReplacesWhenReady
<1> DEFINE Renaming == {q \in Procs : pc[q] = "rename"}
<1>1. Init => Reader!Init
  BY DEF Init, Reader!Init, Visible, Busy, Ready, InFile
<1>2. TypeOK /\ LocksHeld /\ ContentsInv /\ TmpInPlace /\ ~spoiled /\ [Next]_vars
        => [Reader!Next]_(Reader!rvars)
  <2> SUFFICES ASSUME TypeOK, LocksHeld, ContentsInv, TmpInPlace, ~spoiled, [Next]_vars
               PROVE  [Reader!Next]_(Reader!rvars)
    OBVIOUS
  <2> USE SentinelAssumption, SizesAssumption
      DEF TypeOK, DiskTypes, CallTypes, PcValues, Goto, Return, disk, call, hist, clr, Finish, Retry,
          Recover, DiscardTmp, CloseTmp, Locked
  <2> DEFINE Leaves(p) == p \in Busy /\ Busy' = Busy \ {p}
             Unready == Renaming = {} /\ Renaming' = {}
             Kept(p) == /\ UNCHANGED InFile(tmp) /\ Renaming' = Renaming \ {p}
                        /\ p \in Renaming => Leaves(p)
             Quiet(p) == /\ UNCHANGED Visible
                         /\ UNCHANGED Busy \/ Leaves(p)
                         /\ Unready \/ Kept(p)
  <2>a. \A p, q \in Procs : pc[p] \in Locked /\ pc[q] \in Locked => p = q
    BY DEF ContentsInv, Contents, MutualExclusion, LockHolders
  <2>b. /\ Ready = {[by |-> q, document |-> InFile(tmp)] : q \in Renaming}
        /\ Ready' = {[by |-> q, document |-> InFile(tmp)'] : q \in Renaming'}
    BY DEF Ready
  <2>c. ASSUME NEW p \in Procs, pc[p] \in Locked \ {"rename"}, NEW l, l # "rename",
               pc' = [pc EXCEPT ![p] = l]
        PROVE  Unready
    BY <2>a, <2>c
  <2>d. ASSUME NEW p \in Procs, pc[p] # "rename", NEW l, l # "rename",
               pc' = pc \/ pc' = [pc EXCEPT ![p] = l], UNCHANGED <<tmp, data>>
        PROVE  Kept(p)
    BY <2>d DEF InFile
  <2>1. ASSUME NEW p \in Procs, ReadBefore(p) PROVE Quiet(p)
    <3>1. UNCHANGED Visible /\ (UNCHANGED Busy \/ Leaves(p))
      BY <2>1 DEF ReadBefore, Visible, Busy, InFile
    <3>2. Kept(p)
      BY <2>1, <2>d DEF ReadBefore
    <3> QED
      BY <3>1, <3>2
  <2>2. ASSUME NEW p \in Procs, Acquire(p) PROVE Quiet(p)
    <3>1. UNCHANGED Visible /\ (UNCHANGED Busy \/ Leaves(p))
      BY <2>2 DEF Acquire, Visible, Busy, InFile
    <3>2. Kept(p)
      BY <2>2, <2>d DEF Acquire
    <3> QED
      BY <3>1, <3>2
  <2>3. ASSUME NEW p \in Procs, LockTimeout(p) PROVE Quiet(p)
    <3>1. UNCHANGED Visible /\ (UNCHANGED Busy \/ Leaves(p))
      BY <2>3 DEF LockTimeout, Visible, Busy, InFile
    <3>2. Kept(p)
      BY <2>3, <2>d DEF LockTimeout
    <3> QED
      BY <3>1, <3>2
  <2>4. ASSUME NEW p \in Procs, Decide(p) PROVE Quiet(p)
    <3>1. UNCHANGED Visible /\ (UNCHANGED Busy \/ Leaves(p))
      BY <2>4 DEF Decide, Visible, Busy, InFile
    <3>2. Unready
      BY <2>4, <2>c DEF Decide
    <3> QED
      BY <3>1, <3>2
  <2>5. ASSUME NEW p \in Procs, Release(p) PROVE Quiet(p)
    <3>1. UNCHANGED Visible /\ (UNCHANGED Busy \/ Leaves(p))
      BY <2>5 DEF Release, Visible, Busy, InFile
    <3>2. Unready
      BY <2>5, <2>c DEF Release
    <3> QED
      BY <3>1, <3>2
  <2>6. ASSUME NEW p \in Procs, RemoveLockFile(p) PROVE Quiet(p)
    <3>1. UNCHANGED Visible /\ (UNCHANGED Busy \/ Leaves(p))
      BY <2>6 DEF RemoveLockFile, LockFileRemovable, Visible, Busy, InFile
    <3>2. Kept(p)
      BY <2>6, <2>d DEF RemoveLockFile, LockFileRemovable
    <3> QED
      BY <3>1, <3>2
  <2>7. ASSUME NEW p \in Procs, GiveUp(p) PROVE Quiet(p)
    <3>1. UNCHANGED Visible /\ (UNCHANGED Busy \/ Leaves(p))
      BY <2>7 DEF GiveUp, Visible, Busy, InFile
    <3>2. Unready
      BY <2>7, <2>c DEF GiveUp
    <3> QED
      BY <3>1, <3>2
  <2>8. ASSUME NEW p \in Procs, Received(p) PROVE Quiet(p)
    <3>1. UNCHANGED Visible /\ (UNCHANGED Busy \/ Leaves(p))
      BY <2>8 DEF Received, Visible, Busy, InFile
    <3>2. Unready
      BY <2>8, <2>c DEF Received
    <3> QED
      BY <3>1, <3>2
  <2>9. ASSUME NEW p \in Procs, TooShort(p) PROVE Quiet(p)
    <3>1. UNCHANGED Visible /\ (UNCHANGED Busy \/ Leaves(p))
      BY <2>9 DEF TooShort, Visible, Busy, InFile
    <3>2. Unready
      BY <2>9, <2>c DEF TooShort
    <3> QED
      BY <3>1, <3>2
  <2>10. ASSUME NEW p \in Procs, HttpError(p) PROVE Quiet(p)
    <3>1. UNCHANGED Visible /\ (UNCHANGED Busy \/ Leaves(p))
      BY <2>10 DEF HttpError, Visible, Busy, InFile
    <3>2. Unready
      BY <2>10, <2>c DEF HttpError
    <3> QED
      BY <3>1, <3>2
  <2>11. ASSUME NEW p \in Procs, AuthError(p) PROVE Quiet(p)
    <3>1. UNCHANGED Visible /\ (UNCHANGED Busy \/ Leaves(p))
      BY <2>11 DEF AuthError, Visible, Busy, InFile
    <3>2. Unready
      BY <2>11, <2>c DEF AuthError
    <3> QED
      BY <3>1, <3>2
  <2>12. ASSUME NEW p \in Procs, OtherError(p) PROVE Quiet(p)
    <3>1. UNCHANGED Visible /\ (UNCHANGED Busy \/ Leaves(p))
      BY <2>12 DEF OtherError, Visible, Busy, InFile
    <3>2. Unready
      BY <2>12, <2>c DEF OtherError
    <3> QED
      BY <3>1, <3>2
  <2>13. ASSUME NEW p \in Procs, UnlinkPrior(p) PROVE Reader!Withdraw(p)
    <3>1. UNCHANGED Busy /\ p \in Busy /\ Visible' \in {Visible, None}
      BY <2>13 DEF UnlinkPrior, Busy, Visible, InFile
    <3>2. Renaming = {} /\ Renaming' = {p}
      BY <2>13, <2>a DEF UnlinkPrior
    <3>3. Ready = {} /\ Ready' = {[by |-> p, document |-> InFile(tmp)']}
      BY <2>b, <3>2
    <3>4. InFile(tmp)' \in Pages
      <4>1. UNCHANGED <<tmp, data>> /\ tmp # None
        BY <2>13 DEF UnlinkPrior, TmpInPlace, ControlTypes
      <4>2. data[tmp] \in Body /\ page[p] \in Pages /\ \A b \in Blocks : data[tmp][b] = page[p]
        BY <2>13, <4>1 DEF UnlinkPrior, ContentsInv, Contents, TmpComplete
      <4>3. data[tmp] = [b \in Blocks |-> page[p]]
        BY <4>2 DEF Body
      <4> QED
        BY <4>1, <4>2, <4>3, DocumentInComplete DEF InFile
    <3> QED
      BY <3>1, <3>3, <3>4 DEF Reader!Withdraw
  <2>14. ASSUME NEW p \in Procs, RenameTmp(p) PROVE Reader!Publish(p) \/ Reader!Abandon(p)
    <3>1. UNCHANGED Busy
      BY <2>14 DEF RenameTmp, Busy
    <3>2. Renaming = {p} /\ Renaming' = {}
      BY <2>14, <2>a DEF RenameTmp
    <3>3. Ready = {[by |-> p, document |-> InFile(tmp)]} /\ Ready' = {}
      BY <2>b, <3>2
    <3>4. CASE UNCHANGED <<file, data>>
      <4>1. UNCHANGED Visible
        BY <3>4 DEF Visible, InFile
      <4> QED
        BY <3>1, <3>3, <4>1 DEF Reader!Abandon
    <3>5. CASE file' = tmp /\ UNCHANGED data
      <4>1. Visible' = InFile(tmp)
        BY <3>5 DEF Visible, InFile, DocumentIn
      <4> QED
        BY <3>1, <3>3, <4>1 DEF Reader!Publish
    <3> QED
      BY <2>14, <3>4, <3>5 DEF RenameTmp
  <2>15. ASSUME NEW p \in Procs, SetWebTime(p) PROVE Quiet(p)
    <3>1. UNCHANGED Visible /\ (UNCHANGED Busy \/ Leaves(p))
      BY <2>15 DEF SetWebTime, Visible, Busy, InFile
    <3>2. Unready
      BY <2>15, <2>c DEF SetWebTime
    <3> QED
      BY <3>1, <3>2
  <2>16. ASSUME NEW p \in Procs, CheckIfNewer(p) PROVE Quiet(p)
    <3>1. UNCHANGED Visible /\ (UNCHANGED Busy \/ Leaves(p))
      BY <2>16 DEF CheckIfNewer, Visible, Busy, InFile
    <3>2. Kept(p)
      BY <2>16, <2>d DEF CheckIfNewer
    <3> QED
      BY <3>1, <3>2
  <2>17. ASSUME NEW p \in Procs, OpenUrl(p) PROVE Quiet(p)
    <3>1. UNCHANGED file /\ (file # None => data'[file] = data[file])
      BY <2>17 DEF OpenUrl, InodesInUse, ContentsInv, Contents, FileComplete
    <3>2. UNCHANGED Visible
      BY <3>1 DEF Visible, InFile
    <3>3. UNCHANGED Busy
      BY <2>17 DEF OpenUrl, Busy
    <3>4. Unready
      BY <2>17, <2>c DEF OpenUrl
    <3> QED
      BY <3>2, <3>3, <3>4
  <2>18. ASSUME NEW p \in Procs, OpenUrlFails(p) PROVE Quiet(p)
    <3>1. UNCHANGED Visible /\ (UNCHANGED Busy \/ Leaves(p))
      BY <2>18 DEF OpenUrlFails, Visible, Busy, InFile
    <3>2. Unready
      BY <2>18, <2>c DEF OpenUrlFails
    <3> QED
      BY <3>1, <3>2
  <2>19. ASSUME NEW p \in Procs, WriteBlock(p) PROVE Quiet(p)
    <3>1. UNCHANGED file /\ (file # None => data'[file] = data[file])
      BY <2>19 DEF WriteBlock, ContentsInv, Contents, WriterHidden, LocksHeld
    <3>2. UNCHANGED Visible
      BY <3>1 DEF Visible, InFile
    <3>3. UNCHANGED Busy
      BY <2>19 DEF WriteBlock, Busy
    <3>4. Unready
      BY <2>19, <2>c DEF WriteBlock
    <3> QED
      BY <3>2, <3>3, <3>4
  <2>20. ASSUME NEW p \in Procs, ReadEnds(p) PROVE Quiet(p)
    <3>1. UNCHANGED Visible /\ (UNCHANGED Busy \/ Leaves(p))
      BY <2>20 DEF ReadEnds, Visible, Busy, InFile
    <3>2. Unready
      BY <2>20, <2>c DEF ReadEnds
    <3> QED
      BY <3>1, <3>2
  <2>21. ASSUME NEW p \in Procs, ConnectionCut(p) PROVE Quiet(p)
    <3>1. UNCHANGED Visible /\ (UNCHANGED Busy \/ Leaves(p))
      BY <2>21 DEF ConnectionCut, Visible, Busy, InFile
    <3>2. Unready
      BY <2>21, <2>c DEF ConnectionCut
    <3> QED
      BY <3>1, <3>2
  <2>22. ASSUME NEW p \in Procs, ReadFails(p) PROVE Quiet(p)
    <3>1. UNCHANGED Visible /\ (UNCHANGED Busy \/ Leaves(p))
      BY <2>22 DEF ReadFails, Visible, Busy, InFile
    <3>2. Unready
      BY <2>22, <2>c DEF ReadFails
    <3> QED
      BY <3>1, <3>2
  <2>23. ASSUME NEW p \in Procs, Age(p) PROVE UNCHANGED Reader!rvars
    <3>1. UNCHANGED Visible /\ UNCHANGED Busy
      BY <2>23 DEF Age, Visible, Busy, InFile
    <3>2. UNCHANGED Ready
      BY <2>23 DEF Age, Ready, InFile
    <3> QED
      BY <3>1, <3>2 DEF Reader!rvars
  <2>24. ASSUME NEW p \in Procs, Crash(p) PROVE Quiet(p)
    <3>1. UNCHANGED Visible /\ Leaves(p)
      BY <2>24 DEF Crash, Visible, Busy, InFile
    <3>2. Renaming' = Renaming \ {p} /\ UNCHANGED InFile(tmp)
      BY <2>24 DEF Crash, InFile
    <3> QED
      BY <3>1, <3>2
  <2>25. ASSUME NEW p \in Procs, NEW reload \in BOOLEAN, NEW checkModifiedTime \in BOOLEAN,
         GetFilename(p, reload, checkModifiedTime)
         PROVE  UNCHANGED Reader!rvars \/ Reader!Begin(p)
    <3>1. UNCHANGED Visible
      BY <2>25 DEF GetFilename, Visible, InFile
    <3>2. p \notin Busy /\ (UNCHANGED Busy \/ Busy' = Busy \cup {p})
      BY <2>25 DEF GetFilename, Busy
    <3>3. UNCHANGED Ready
      <4>1. Renaming' = Renaming /\ UNCHANGED InFile(tmp)
        BY <2>25 DEF GetFilename, InFile
      <4> QED
        BY <2>b, <4>1
    <3> QED
      BY <3>1, <3>2, <3>3 DEF Reader!Begin, Reader!rvars
  <2>26. CASE Clear
    BY <2>26 DEF Clear, ClearStart, ClearEntry, ClearStops, TmpInPlace, ControlTypes
  <2>27. CASE UNCHANGED vars
    <3>1. UNCHANGED <<Visible, Busy, Ready>>
      BY <2>27 DEF vars, Visible, Busy, Ready, InFile
    <3> QED
      BY <3>1 DEF Reader!rvars
  <2>28. ASSUME NEW p \in Procs, Quiet(p) PROVE [Reader!Next]_(Reader!rvars)
    <3>1. Ready' = {r \in Ready : r.by # p}
      BY <2>28, <2>b
    <3>2. CASE Leaves(p)
      BY <2>28, <3>1, <3>2 DEF Reader!Next, Reader!End
    <3>3. CASE UNCHANGED Busy /\ ~Leaves(p)
      <4>1. UNCHANGED Ready
        BY <2>28, <2>b, <3>3
      <4> QED
        BY <2>28, <3>3, <4>1 DEF Reader!rvars
    <3> QED
      BY <2>28, <3>2, <3>3
  <2> HIDE DEF Quiet
  <2> QED
    BY <2>1, <2>2, <2>3, <2>4, <2>5, <2>6, <2>7, <2>8, <2>9, <2>10, <2>11, <2>12, <2>13, <2>14, <2>15, <2>16, <2>17, <2>18, <2>19, <2>20, <2>21, <2>22, <2>23, <2>24, <2>25, <2>26, <2>27, <2>28
       DEF Next, Step, LocalStep, NetworkStep, Reader!Next
<1> QED
  BY <1>1, <1>2, TypeCorrect, LocksHeldHolds, ContentsInvHolds, TmpInPlaceHolds, NeverSpoiled, PTL
     DEF Spec, ReplacesWhenReady, Reader!Spec
=============================================================================
