------------------------------ MODULE WebCache ------------------------------
(***************************************************************************)
(* The download side of arelle/WebCache.py: several Arelle processes share  *)
(* one cache directory, and each may ask for the same URL at the same time. *)
(* One URL, hence one cache file `filepath`, is modelled: the cache files of *)
(* two URLs share no state.  Three directory entries matter:                *)
(*   file      filepath        (what every reader of the cache opens)       *)
(*   tmp       filepath.tmp    (where retrieve writes the response)         *)
(*   lockPath  filepath.lock   (the FileLock that _downloadFileWithLock      *)
(*                              acquires around the download)               *)
(* A directory entry names an inode or is absent; an open file descriptor   *)
(* keeps naming its inode when the entry is renamed or removed.             *)
(*                                                                         *)
(* A process runs one getfilename call at a time.  Its steps are cut where   *)
(* the file system is touched, so every interleaving of two processes at    *)
(* that grain is a behaviour.                                               *)
(***************************************************************************)
EXTENDS Naturals, FiniteSets

CONSTANTS
    Procs,              \* the Arelle processes sharing the cache directory
    Inodes,             \* identities of the files that can exist on the disk
    Versions,           \* documents the server may answer with
    Logon,              \* a wifi or web logon's page, <html in its first block
    Hole,               \* a block of a file that nothing was written to
    None,               \* an absent directory entry, no descriptor, no lock
    NBlocks,            \* blocks of a response body
    RetryCount,         \* RETRIEVAL_RETRY_COUNT
    Gui,                \* the processes with cntlr.hasGui
    XmlExtension,       \* the URL ends in .xsd, .xml or .xbrl
    Encodings,          \* how bodies are framed: "length" (or in chunks), "gzip"
                        \* with a length, "close" (ended by closing the connection)
    OpenFileRemovable,  \* POSIX: an open file may be removed; FALSE: Windows
    FilesystemErrors,   \* removing or renaming filepath may be refused
    MaxCalls,           \* bound: getfilename calls made by each process
    MaxClears           \* bound: WebCache.clear calls

Blocks  == 1..NBlocks
Pages   == Versions \cup {Logon}
Body    == [Blocks -> Pages \cup {Hole}]

ASSUME SizesAssumption == /\ NBlocks \in Nat \ {0}
                          /\ RetryCount \in Nat \ {0}
                          /\ MaxCalls \in Nat
                          /\ MaxClears \in Nat
ASSUME SentinelAssumption == /\ None \notin Inodes
                             /\ Hole \notin Pages
                             /\ Logon \notin Versions
ASSUME ChoiceAssumption == /\ Gui \subseteq Procs
                           /\ XmlExtension \in BOOLEAN
                           /\ Encodings \subseteq {"length", "gzip", "close"}
                           /\ OpenFileRemovable \in BOOLEAN
                           /\ FilesystemErrors \in BOOLEAN

VARIABLES
    data,       \* inode -> the blocks written to it
    file,       \* the entry filepath
    tmp,        \* the entry filepath.tmp
    lockPath,   \* the entry filepath.lock
    holds,      \* process -> the lock file inode it has locked
    older,      \* processes whose before_timestamp is below filepath's
    pc,         \* process -> where it is
    recheck,    \* process -> retrievingDueToRecheckInterval
    retries,    \* process -> retryCount
    fd,         \* process -> inode open for writing (tfp)
    page,       \* process -> document the current response carries
    written,    \* process -> blocks written so far
    inCache,    \* process -> fileInCache
    offline,    \* process -> workOffline
    checked,    \* process -> the check time of the url is younger than maxAge
    calls,      \* process -> getfilename calls made (bound MaxCalls)
    clearing,   \* entries WebCache.clear still has to remove
    clears,     \* clear calls made (bound MaxClears)
    spoiled,    \* history: two lock holders at once, or an undetected short body
    accepted,   \* history: a user said that a logon-like page is the document
    prior       \* history: a copy was put in place, and it or its successor is
                \* "there" or about to be, or the successor did not come ("lost")

disk == <<data, file, tmp, lockPath>>
call == <<recheck, retries, fd, page, written, inCache>>
hist == <<spoiled, accepted, prior>>
clr  == <<clearing, clears>>
vars == <<data, file, tmp, lockPath, holds, older, pc, recheck, retries, fd, page,
          written, inCache, offline, checked, calls, clearing, clears,
          spoiled, accepted, prior>>

Empty == [b \in Blocks |-> Hole]

\* The body of one complete response, nothing missing and nothing mixed in.
Whole(body) == \E v \in Pages : body = [b \in Blocks |-> v]

\* The stages of a call between acquiring and releasing the lock.
Locked == {"decide", "fetch", "write", "received", "tooShort", "httpError",
           "authError", "otherError", "unlink", "rename", "utime", "release",
           "releaseRaised"}
PcValues == Locked \cup {"idle", "headers", "stamp", "acquire", "rmLock"}
Entries == {"file", "tmp", "lock"}

LockHolders == {p \in Procs : pc[p] \in Locked}
InodesInUse == {file, tmp, lockPath} \cup {fd[p] : p \in Procs} \cup {holds[p] : p \in Procs}

Init ==
    /\ data = [i \in Inodes |-> Empty]
    /\ file = None /\ tmp = None /\ lockPath = None
    /\ holds = [p \in Procs |-> None]
    /\ older = {}
    /\ pc = [p \in Procs |-> "idle"]
    /\ recheck = [p \in Procs |-> FALSE]
    /\ retries = [p \in Procs |-> 0]
    /\ fd = [p \in Procs |-> None]
    /\ page = [p \in Procs |-> Logon]
    /\ written = [p \in Procs |-> 0]
    /\ inCache = [p \in Procs |-> FALSE]
    /\ offline = [p \in Procs |-> FALSE]
    /\ checked = [p \in Procs |-> FALSE]
    /\ calls = [p \in Procs |-> 0]
    /\ clearing = {} /\ clears = 0
    /\ spoiled = FALSE /\ accepted = FALSE /\ prior = "none"

Goto(p, label) == pc' = [pc EXCEPT ![p] = label]

----------------------------------------------------------------------------
(* getfilename: decide whether the network is needed at all *)

\* The call returns to its caller or raises; its local variables are gone.
Return(p) ==
    /\ Goto(p, "idle")
    /\ recheck' = [recheck EXCEPT ![p] = FALSE]
    /\ retries' = [retries EXCEPT ![p] = 0]
    /\ page' = [page EXCEPT ![p] = Logon]
    /\ written' = [written EXCEPT ![p] = 0]
    /\ inCache' = [inCache EXCEPT ![p] = FALSE]

\* A call of getfilename, up to its first use of the network or the lock.  The
\* reload and checkModifiedTime arguments are the caller's.  Offline, and with a
\* check time younger than maxAgeSeconds, filepath is returned at once.
GetFilename(p, reload, checkModifiedTime) ==
    /\ pc[p] = "idle"
    /\ calls[p] < MaxCalls
    /\ calls' = [calls EXCEPT ![p] = @ + 1]
    /\ \/ offline[p] /\ UNCHANGED pc
       \/ ~offline[p] /\ (reload \/ file = None) /\ Goto(p, "stamp")
       \/ /\ ~offline[p] /\ ~reload /\ file # None
          /\ IF checked[p] /\ ~checkModifiedTime THEN UNCHANGED pc ELSE Goto(p, "headers")
    /\ UNCHANGED <<disk, holds, older, call, offline, checked, clr, hist>>

\* _checkIfNewerOnWeb; a failure of any kind, the file having disappeared
\* included, counts as "not newer".
CheckIfNewer(p) ==
    /\ pc[p] = "headers"
    /\ \/ /\ file # None
          /\ Goto(p, "stamp")
          /\ recheck' = [recheck EXCEPT ![p] = TRUE]
          /\ UNCHANGED <<retries, page, written, inCache, checked>>
       \/ /\ checked' = [checked EXCEPT ![p] = TRUE]
          /\ Return(p)
    /\ UNCHANGED <<disk, holds, older, fd, offline, calls, clr, hist>>

\* The recorded check time grows older than maxAgeSeconds.
Age(p) ==
    /\ checked[p]
    /\ checked' = [checked EXCEPT ![p] = FALSE]
    /\ UNCHANGED <<disk, holds, older, pc, call, offline, calls, clr, hist>>

----------------------------------------------------------------------------
(* _downloadFileWithLock *)

\* before_timestamp is read before the lock is taken.
ReadBefore(p) ==
    /\ pc[p] = "stamp"
    /\ older' = older \ {p}
    /\ inCache' = [inCache EXCEPT ![p] = FALSE]
    /\ Goto(p, "acquire")
    /\ UNCHANGED <<disk, holds, recheck, retries, fd, page, written, offline, checked, calls, clr, hist>>

\* lock.acquire(): open filepath.lock, creating it when it is absent, and lock it.
Acquire(p) ==
    /\ pc[p] = "acquire"
    /\ \E i \in Inodes :
          /\ IF lockPath = None THEN i \notin InodesInUse ELSE i = lockPath
          /\ \A q \in Procs : holds[q] # i
          /\ lockPath' = i
          /\ holds' = [holds EXCEPT ![p] = i]
    /\ spoiled' = (spoiled \/ LockHolders # {})
    /\ Goto(p, "decide")
    /\ UNCHANGED <<data, file, tmp, older, call, offline, checked, calls, clr,
                   accepted, prior>>

\* Mutant of LockTimeout: the lock is awaited for ever.
LockTimeoutNever(p) == FALSE /\ UNCHANGED vars

\* Mutant of LockTimeout: the download goes on without the lock.
LockTimeoutGoesOn(p) ==
    /\ pc[p] = "acquire"
    /\ lockPath # None /\ \E q \in Procs : holds[q] = lockPath
    /\ Goto(p, "decide")
    /\ UNCHANGED <<disk, holds, older, call, offline, checked, calls, clr, hist>>

\* FILE_LOCK_TIMEOUT passed while another process held the lock.
LockTimeout(p) ==
    /\ pc[p] = "acquire"
    /\ lockPath # None /\ \E q \in Procs : holds[q] = lockPath
    /\ Return(p)
    /\ UNCHANGED <<disk, holds, older, fd, offline, checked, calls, clr, hist>>

\* Mutant of Decide: the timestamps are not compared.
DecideAlwaysDownload(p) ==
    /\ pc[p] = "decide"
    /\ retries' = [retries EXCEPT ![p] = RetryCount]
    /\ Goto(p, "fetch")
    /\ UNCHANGED <<disk, holds, older, recheck, fd, page, written, inCache, offline,
                   checked, calls, clr, hist>>

\* after_timestamp > before_timestamp: use what another process downloaded.
Decide(p) ==
    /\ pc[p] = "decide"
    /\ \/ /\ p \in older
          /\ inCache' = [inCache EXCEPT ![p] = TRUE]
          /\ Goto(p, "release")
          /\ UNCHANGED retries
       \/ /\ p \notin older
          /\ retries' = [retries EXCEPT ![p] = RetryCount]
          /\ Goto(p, "fetch")
          /\ UNCHANGED inCache
    /\ UNCHANGED <<disk, holds, older, recheck, fd, page, written, offline, checked, calls, clr, hist>>

\* Leaving the with block releases the lock and leaves the lock file behind; an
\* exception skips the removal of the lock file.
Release(p) ==
    /\ pc[p] \in {"release", "releaseRaised"}
    /\ holds' = [holds EXCEPT ![p] = None]
    /\ IF pc[p] = "release"
         THEN Goto(p, "rmLock") /\ UNCHANGED <<recheck, retries, page, written, inCache>>
         ELSE Return(p)
    /\ UNCHANGED <<disk, older, fd, offline, checked, calls, clr, hist>>

LockFileRemovable == OpenFileRemovable \/ \A q \in Procs : holds[q] # lockPath

\* os.remove(lock.lock_file), an OSError of which is suppressed.
RemoveLockFile(p) ==
    /\ pc[p] = "rmLock"
    /\ lockPath' = IF LockFileRemovable THEN None ELSE lockPath
    /\ Return(p)
    /\ UNCHANGED <<data, file, tmp, holds, older, fd, offline, checked, calls, clr, hist>>

----------------------------------------------------------------------------
(* _downloadFile: the retrieval loop *)

\* Leave _downloadFile returning ok.
Finish(p, ok) ==
    /\ inCache' = [inCache EXCEPT ![p] = ok]
    /\ Goto(p, "release")

\* One more turn of the loop.
Retry(p) ==
    /\ retries' = [retries EXCEPT ![p] = @ - 1]
    /\ Goto(p, "fetch")

\* internetRecheckFailedRecovery: keep the prior file, skip this checking cycle.
Recover(p) ==
    /\ recheck[p]
    /\ checked' = [checked EXCEPT ![p] = TRUE]
    /\ Finish(p, TRUE)

\* temporaryFilename.unlink(missing_ok=True)
DiscardTmp == tmp' = None

\* Mutant of GiveUp: the loop falls through to the final "return True".
GiveUpReturnsTrue(p) ==
    /\ pc[p] = "fetch" /\ retries[p] = 0
    /\ Finish(p, TRUE)
    /\ UNCHANGED <<disk, holds, older, recheck, retries, fd, page, written, offline,
                   checked, calls, clr, hist>>

\* while retryCount > 0 is exhausted.
GiveUp(p) ==
    /\ pc[p] = "fetch" /\ retries[p] = 0
    /\ Finish(p, FALSE)
    /\ UNCHANGED <<disk, holds, older, recheck, retries, fd, page, written, offline,
                   checked, calls, clr, hist>>

\* Mutant of OpenUrl: the prior file makes room before the response is there.
OpenUrlRemovesPrior(p) ==
    /\ pc[p] = "fetch" /\ retries[p] > 0
    /\ \E i \in Inodes, v \in Pages :
          /\ IF tmp = None THEN i \notin InodesInUse ELSE i = tmp
          /\ tmp' = i
          /\ data' = [data EXCEPT ![i] = Empty]
          /\ fd' = [fd EXCEPT ![p] = i]
          /\ page' = [page EXCEPT ![p] = v]
    /\ file' = None /\ older' = {}
    /\ written' = [written EXCEPT ![p] = 0]
    /\ Goto(p, "write")
    /\ UNCHANGED <<lockPath, holds, recheck, retries, inCache, offline, checked, calls,
                   clr, hist>>

\* retrieve: the server answers, open(filename, "wb") truncates the temporary
\* file or creates it.
OpenUrl(p) ==
    /\ pc[p] = "fetch" /\ retries[p] > 0
    /\ \E i \in Inodes, v \in Pages :
          /\ IF tmp = None THEN i \notin InodesInUse ELSE i = tmp
          /\ tmp' = i
          /\ data' = [data EXCEPT ![i] = Empty]
          /\ fd' = [fd EXCEPT ![p] = i]
          /\ page' = [page EXCEPT ![p] = v]
    /\ written' = [written EXCEPT ![p] = 0]
    /\ Goto(p, "write")
    /\ UNCHANGED <<file, lockPath, holds, older, recheck, retries, inCache, offline,
                   checked, calls, clr, hist>>

\* opener.open raises: nothing of the temporary file is touched.
OpenUrlFails(p) ==
    /\ pc[p] = "fetch" /\ retries[p] > 0
    /\ \E error \in {"httpError", "authError", "otherError"} : Goto(p, error)
    /\ UNCHANGED <<disk, holds, older, call, offline, checked, calls, clr, hist>>

WriteBlock(p) ==
    /\ pc[p] = "write" /\ written[p] < NBlocks
    /\ written' = [written EXCEPT ![p] = @ + 1]
    /\ data' = [data EXCEPT ![fd[p]][written[p] + 1] = page[p]]
    /\ UNCHANGED <<file, tmp, lockPath, holds, older, pc, recheck, retries, fd, page,
                   inCache, offline, checked, calls, clr, hist>>

CloseTmp(p) == fd' = [fd EXCEPT ![p] = None]

\* The whole response was read.
ReadEnds(p) ==
    /\ pc[p] = "write" /\ written[p] = NBlocks
    /\ CloseTmp(p)
    /\ Goto(p, "received")
    /\ UNCHANGED <<disk, holds, older, recheck, retries, page, written, inCache, offline,
                   checked, calls, clr, hist>>

\* Mutant of ConnectionCut: the size is not compared with Content-Length.
ConnectionCutUnnoticed(p) ==
    /\ pc[p] = "write" /\ written[p] < NBlocks
    /\ CloseTmp(p)
    /\ Goto(p, "received")
    /\ UNCHANGED <<disk, holds, older, recheck, retries, page, written, inCache, offline,
                   checked, calls, clr, hist>>

\* The connection closes early.  The number of bytes written is compared with
\* Content-Length if there is one; of a gzip response the bytes written are the
\* decompressed ones and the header counts the compressed ones, so the test may pass.
ConnectionCut(p) ==
    /\ pc[p] = "write" /\ written[p] < NBlocks
    /\ CloseTmp(p)
    /\ \/ {"length", "gzip"} \cap Encodings # {}
          /\ Goto(p, "tooShort") /\ UNCHANGED spoiled
       \/ {"gzip", "close"} \cap Encodings # {}
          /\ Goto(p, "received") /\ spoiled' = TRUE
    /\ UNCHANGED <<disk, holds, older, recheck, retries, page, written, inCache, offline,
                   checked, calls, clr, accepted, prior>>

\* Mutant of ReadFails: the exception is swallowed inside retrieve.
ReadFailsIgnored(p) ==
    /\ pc[p] = "write"
    /\ CloseTmp(p)
    /\ Goto(p, "received")
    /\ UNCHANGED <<disk, holds, older, recheck, retries, page, written, inCache, offline,
                   checked, calls, clr, hist>>

\* Any other exception while reading or writing (a socket timeout, a full disk).
ReadFails(p) ==
    /\ pc[p] = "write"
    /\ CloseTmp(p)
    /\ Goto(p, "otherError")
    /\ UNCHANGED <<disk, holds, older, recheck, retries, page, written, inCache, offline,
                   checked, calls, clr, hist>>

\* Only of three kinds of URLs are the initial bytes searched for <html.
LogonFound(p) == XmlExtension /\ page[p] = Logon /\ written[p] > 0

\* Mutant of Received: during a recheck the test for a logon page is skipped.
ReceivedRecheckUntested(p) ==
    /\ pc[p] = "received"
    /\ \/ /\ ~LogonFound(p) \/ recheck[p]
          /\ Goto(p, "unlink")
          /\ UNCHANGED <<retries, inCache, checked, accepted>>
       \/ /\ LogonFound(p) /\ ~recheck[p]
          /\ Finish(p, FALSE)
          /\ UNCHANGED <<retries, checked, accepted>>
    /\ UNCHANGED <<disk, holds, older, recheck, fd, page, written, offline, calls, clr, spoiled,
                   prior>>

\* Is this the document, or a logon page?  "no" means that the user recognised
\* the expected content; without a GUI nobody is asked and the page is refused.
Received(p) ==
    /\ pc[p] = "received"
    /\ \/ /\ ~LogonFound(p)
          /\ Goto(p, "unlink")
          /\ UNCHANGED <<retries, inCache, checked, accepted>>
       \/ /\ LogonFound(p) /\ Recover(p)
          /\ UNCHANGED <<retries, accepted>>
       \/ /\ LogonFound(p) /\ ~recheck[p] /\ p \in Gui
          /\ \/ Retry(p) /\ UNCHANGED accepted
             \/ Goto(p, "unlink") /\ accepted' = TRUE /\ UNCHANGED retries
          /\ UNCHANGED <<inCache, checked>>
       \/ /\ LogonFound(p) /\ ~recheck[p]
          /\ Finish(p, FALSE)
          /\ UNCHANGED <<retries, checked, accepted>>
    /\ UNCHANGED <<disk, holds, older, recheck, fd, page, written, offline, calls, clr, spoiled,
                   prior>>

\* except (ContentTooShortError, IncompleteRead)
TooShort(p) ==
    /\ pc[p] = "tooShort"
    /\ \/ /\ Recover(p)
          /\ UNCHANGED <<tmp, retries>>
       \/ /\ ~recheck[p] /\ retries[p] > 1
          /\ Retry(p)
          /\ UNCHANGED <<tmp, inCache, checked>>
       \/ /\ ~recheck[p] /\ retries[p] <= 1
          /\ DiscardTmp /\ Finish(p, FALSE)
          /\ UNCHANGED <<retries, checked>>
    /\ UNCHANGED <<data, file, lockPath, holds, older, recheck, fd, page, written, offline, calls, clr, hist>>

\* except (HTTPError, URLError), no authentication asked for
HttpError(p) ==
    /\ pc[p] = "httpError"
    /\ \/ Recover(p)
       \/ /\ ~recheck[p] /\ Finish(p, FALSE)
          /\ UNCHANGED checked
    /\ UNCHANGED <<disk, holds, older, recheck, retries, fd, page, written, offline, calls, clr, hist>>

\* HTTP 401 and 407: a basic realm's password, single sign on by a plug-in on the
\* first try, a browser logon in a GUI; "no" and every other answer give up.
AuthError(p) ==
    /\ pc[p] = "authError"
    /\ \/ Retry(p) /\ UNCHANGED <<inCache, checked>>          \* password
       \/ Recover(p) /\ UNCHANGED retries
       \/ /\ ~recheck[p]
          /\ \/ retries[p] = RetryCount                       \* single sign on
             \/ p \in Gui                                     \* "retry"
          /\ Retry(p) /\ UNCHANGED <<inCache, checked>>
       \/ /\ ~recheck[p] /\ Finish(p, FALSE)
          /\ UNCHANGED <<retries, checked>>
    /\ UNCHANGED <<disk, holds, older, recheck, fd, page, written, offline, calls, clr, hist>>

\* except Exception; in a GUI the process goes offline and keeps the leftover
\* temporary file, in scripted operation it removes it.
OtherError(p) ==
    /\ pc[p] = "otherError"
    /\ \/ /\ retries[p] > 1
          /\ Retry(p)
          /\ UNCHANGED <<tmp, inCache, offline, checked>>
       \/ /\ retries[p] <= 1 /\ Recover(p)
          /\ UNCHANGED <<tmp, retries, offline>>
       \/ /\ retries[p] <= 1 /\ ~recheck[p]
          /\ IF p \in Gui
               THEN offline' = [offline EXCEPT ![p] = TRUE] /\ UNCHANGED tmp
               ELSE DiscardTmp /\ UNCHANGED offline
          /\ Finish(p, FALSE)
          /\ UNCHANGED <<retries, checked>>
    /\ UNCHANGED <<data, file, lockPath, holds, older, recheck, fd, page, written, calls, clr, hist>>

----------------------------------------------------------------------------
(* _downloadFile: putting the temporary file in place *)

\* The prior file is removed first; a failure is logged and the code goes on.
UnlinkPrior(p) ==
    /\ pc[p] = "unlink"
    /\ \/ file' = None /\ older' = {}
       \/ FilesystemErrors /\ file # None /\ UNCHANGED <<file, older>>
    /\ Goto(p, "rename")
    /\ UNCHANGED <<data, tmp, lockPath, holds, call, offline, checked, calls, clr,
                   hist>>

\* Nothing follows a prior copy that was removed.
NoSuccessor == IF prior = "there" /\ file = None THEN "lost" ELSE prior

\* rename replaces an existing target on POSIX only; a failure (a target, no
\* source, a file held by a scanner) is logged and the code goes on.
RenameTmp(p) ==
    /\ pc[p] = "rename"
    /\ \/ /\ tmp # None /\ (file = None \/ OpenFileRemovable)
          /\ file' = tmp /\ tmp' = None /\ older' = Procs /\ prior' = "there"
       \/ /\ FilesystemErrors \/ tmp = None \/ (file # None /\ ~OpenFileRemovable)
          /\ prior' = IF tmp = None THEN prior ELSE NoSuccessor
          /\ UNCHANGED <<file, tmp, older>>
    /\ Goto(p, "utime")
    /\ UNCHANGED <<data, lockPath, holds, call, offline, checked, calls, clr, spoiled,
                   accepted>>

\* os.utime when the server named a time: it raises when the file is absent, and
\* on POSIX makes the inode change time, hence the timestamp, the present.
SetWebTime(p) ==
    /\ pc[p] = "utime"
    /\ \/ /\ file = None
          /\ Goto(p, "releaseRaised")
          /\ UNCHANGED <<older, inCache, checked>>
       \/ /\ file # None /\ OpenFileRemovable
          /\ older' = Procs
          /\ Finish(p, TRUE) /\ checked' = [checked EXCEPT ![p] = TRUE]
       \/ /\ Finish(p, TRUE) /\ checked' = [checked EXCEPT ![p] = TRUE]
          /\ UNCHANGED older
    /\ UNCHANGED <<disk, holds, recheck, retries, fd, page, written, offline, calls, clr, hist>>

----------------------------------------------------------------------------
(* clear, and the environment *)

\* WebCache.clear starts: shutil.rmtree removes the entries one by one, in the
\* order the directory lists them.
ClearStart ==
    /\ clearing = {} /\ clears < MaxClears
    /\ clearing' = Entries /\ clears' = clears + 1
    /\ UNCHANGED <<disk, holds, older, pc, call, offline, checked, calls, hist>>

\* rmtree stops at the first entry it cannot remove: one that disappeared, or
\* on Windows one that is open.
ClearEntry(e) ==
    /\ e \in clearing
    /\ \/ /\ e = "file"
          /\ file' = None /\ older' = {}
          /\ UNCHANGED <<tmp, lockPath>>
       \/ /\ e = "tmp"
          /\ OpenFileRemovable \/ \A p \in Procs : fd[p] # tmp
          /\ tmp' = None
          /\ UNCHANGED <<file, lockPath, older>>
       \/ /\ e = "lock"
          /\ LockFileRemovable
          /\ lockPath' = None
          /\ UNCHANGED <<file, tmp, older>>
    /\ clearing' = clearing \ {e}
    /\ UNCHANGED <<data, holds, pc, call, offline, checked, calls, clears, hist>>

ClearStops ==
    /\ clearing # {}
    /\ clearing' = {}
    /\ UNCHANGED <<disk, holds, older, pc, call, offline, checked, calls, clears,
                   hist>>

\* A process is killed and started again: its descriptors and its lock go, the
\* entries it made stay, and its next run reads the check times last saved.
Crash(p) ==
    /\ pc[p] # "idle"
    /\ Return(p)
    /\ holds' = [holds EXCEPT ![p] = None]
    /\ CloseTmp(p)
    /\ offline' = [offline EXCEPT ![p] = FALSE]
    /\ \E saved \in BOOLEAN : checked' = [checked EXCEPT ![p] = @ /\ saved]
    /\ prior' = IF pc[p] = "rename" THEN NoSuccessor ELSE prior
    /\ UNCHANGED <<disk, older, calls, clr, spoiled, accepted>>

----------------------------------------------------------------------------
\* The steps a process takes without waiting for the network.
LocalStep(p) ==
    \/ ReadBefore(p) \/ Acquire(p) \/ LockTimeout(p) \/ Decide(p)
    \/ Release(p) \/ RemoveLockFile(p) \/ GiveUp(p)
    \/ Received(p) \/ TooShort(p) \/ HttpError(p) \/ AuthError(p) \/ OtherError(p)
    \/ UnlinkPrior(p) \/ RenameTmp(p) \/ SetWebTime(p)

\* The steps that wait for the server.
NetworkStep(p) ==
    \/ CheckIfNewer(p) \/ OpenUrl(p) \/ OpenUrlFails(p)
    \/ WriteBlock(p) \/ ReadEnds(p) \/ ConnectionCut(p) \/ ReadFails(p)

Step(p) == LocalStep(p) \/ NetworkStep(p)

Clear == ClearStart \/ (\E e \in Entries : ClearEntry(e)) \/ ClearStops

Next ==
    \/ \E p \in Procs :
          \/ Step(p) \/ Age(p) \/ Crash(p)
          \/ \E reload, checkModifiedTime \in BOOLEAN :
                GetFilename(p, reload, checkModifiedTime)
    \/ Clear

Spec == Init /\ [][Next]_vars

\* A process that runs keeps running; the server answers, or the socket timeout
\* fires, for the processes of Responsive.
Fairness(Responsive) ==
    /\ \A p \in Procs : WF_vars(LocalStep(p))
    /\ \A p \in Responsive : WF_vars(NetworkStep(p))

----------------------------------------------------------------------------
(* Properties *)

DiskTypes ==
    /\ data \in [Inodes -> Body]
    /\ file \in Inodes \cup {None} /\ tmp \in Inodes \cup {None}
    /\ lockPath \in Inodes \cup {None}
    /\ holds \in [Procs -> Inodes \cup {None}]
    /\ older \subseteq Procs

CallTypes ==
    /\ pc \in [Procs -> PcValues]
    /\ retries \in [Procs -> 0..RetryCount]
    /\ fd \in [Procs -> Inodes \cup {None}]
    /\ page \in [Procs -> Pages]
    /\ written \in [Procs -> 0..NBlocks]

ControlTypes ==
    /\ recheck \in [Procs -> BOOLEAN]
    /\ inCache \in [Procs -> BOOLEAN]
    /\ offline \in [Procs -> BOOLEAN]
    /\ checked \in [Procs -> BOOLEAN]
    /\ calls \in [Procs -> 0..MaxCalls]
    /\ clearing \subseteq Entries /\ clears \in 0..MaxClears
    /\ spoiled \in BOOLEAN /\ accepted \in BOOLEAN
    /\ prior \in {"none", "there", "lost"}

\* Every variable keeps its type; in particular retryCount never goes below zero
\* and a write never runs past the end of the response.
TypeOK == DiskTypes /\ CallTypes /\ ControlTypes

\* Two processes never download into the same temporary file at a time: the
\* "exclusive write access" that _downloadFileWithLock takes the lock for.
MutualExclusion == \A p, q \in LockHolders : p = q

\* What a reader of the cache finds is one complete response, whatever fails,
\* crashes or is cleared in between: "download to a temporary name so it is not
\* left readable corrupted if download fails".  The two ways out are named by the
\* history variable: two lock holders at once, and a body that was sent as gzip or
\* without a length and cut unnoticed.
CachedFileWhole == spoiled \/ file = None \/ Whole(data[file])

\* Of a URL that ends in .xsd, .xml or .xbrl no logon page is ever in the cache, on a
\* first download, a recheck or a retry, unless a user said it is the document; of
\* any other URL the page is not looked at, and is cached like a document.
NoLogonPageCached ==
    (XmlExtension /\ ~spoiled /\ ~accepted /\ file # None) =>
        data[file] # [b \in Blocks |-> Logon]

\* Once a document is in the cache it is missing only between the removal and the
\* rename of a process that has the complete new response under tmp, or after that
\* rename was refused or its process killed just then, which is the gap that the code
\* leaves ("lost").  No other failure, crash or refusal costs the prior copy.
PriorCopyReplaced ==
    (~spoiled /\ clears = 0 /\ prior = "there" /\ file = None) =>
        \E p \in Procs : pc[p] = "rename" /\ tmp # None /\ Whole(data[tmp])

\* A process that is about to download did not see a newer copy arrive since it
\* read before_timestamp: the work of another process is used, not repeated.
NewerCopyUsed ==
    spoiled \/ \A p \in Procs : pc[p] \in {"fetch", "write"} => p \notin older

\* When a download that is not a recheck reports success, the file is there as
\* long as the lock is held, even if other processes crashed on the way.  (A
\* refused removal or rename and a concurrent clear are left out: after those the
\* code does report success without a file.)
DownloadedFileThere ==
    (~spoiled /\ ~FilesystemErrors /\ clears = 0) =>
        \A p \in Procs : (pc[p] = "release" /\ inCache[p] /\ ~recheck[p]) => file # None

\* Every getfilename call of a process whose server connections do not hang ends,
\* even when a process that holds the lock hangs for ever.
CallsReturn(Responsive) == \A p \in Responsive : pc[p] # "idle" ~> pc[p] = "idle"

=============================================================================
