------------------------------ MODULE Packages ------------------------------
(***************************************************************************)
(* The taxonomy package manager (arelle/packages/_package_manager.py): the   *)
(* list of packages, the remappings of URLs that they define, the file in    *)
(* which the GUI keeps both, and the two that work on the list: the dialog    *)
(* (DialogPackageManager.py), which edits the live list, and the command     *)
(* line (CntlrCmdLine.loadPackages) or a load with packages                  *)
(* (ModelManager.load).  In the GUI a background thread maps URLs while the   *)
(* UI thread rebuilds the remappings, one package at a time.                 *)
(***************************************************************************)
EXTENDS Cntlr, Sequences, FiniteSets, SequencesExt

CONSTANTS
    Urls,         \* where package files are
    Contents,     \* what a package file may hold
    Ids,          \* identifiers of packages
    Versions,     \* versions of packages
    Characters,
    StartStrings, \* start strings that packages rewrite, as sequences of characters
    Targets,      \* what they are remapped to, as sequences of characters
    Identifier,   \* content -> identifier (and name) in its manifest
    Version,      \* content -> version in its manifest
    Remapping,    \* content -> start string -> target or None
    Asked         \* URLs that are mapped, as sequences of characters

ASSUME PackagesAssumption ==
    /\ Identifier \in [Contents -> Ids]
    /\ Version \in [Contents -> Versions]
    /\ Remapping \in [Contents -> [StartStrings -> Targets \cup {None}]]
    /\ StartStrings \cup Targets \cup Asked \subseteq Seq(Characters)
    /\ IsFiniteSet(StartStrings)
    /\ None \notin Contents /\ None \notin Targets /\ None \notin StartStrings

VARIABLES
    packages,     \* packagesConfig["packages"]
    remappings,   \* packagesConfig["remappings"], None where there is no key
    keyed,        \* packagesConfig has these two keys: not after close()
    changed,      \* packagesConfigChanged
    edited,       \* the dialog's packagesConfigChanged
    task,         \* what the main thread is doing
    next,         \* package whose remappings rebuildRemappings adds next
    then,         \* what follows that rebuild
    keep,         \* savePackagesChanges of loadPackages
    added,        \* resetPackageMappings of ModelManager.load
    file,         \* taxonomyPackages.json
    disk,         \* URL -> what the package file there holds now
    look          \* the mapping of a URL by another thread

memory == <<packages, remappings, keyed, changed, edited>>
work == <<task, next, then, keep, added>>
packageVars == <<packages, remappings, keyed, changed, edited, task, next, then, keep,
                 added, file, disk, look>>

Entry == [url : Urls, content : Contents, on : BOOLEAN]
NoRemappings == [p \in StartStrings |-> None]

\* The file with a saved configuration; it is absent at first, and broken from the
\* moment it is opened for writing until all is written.
File == [state : {"absent", "broken", "whole"}, packages : Seq(Entry),
         remappings : [StartStrings -> Targets \cup {None}]]
Unreadable(state) == [state |-> state, packages |-> <<>>, remappings |-> NoRemappings]

\* Package e remaps the start string p.
Maps(e, p) == e.on /\ Remapping[e.content][p] # None

\* Key and value of the remappings of the enabled packages of pk.
Pairs(pk) ==
    UNION {{<<p, Remapping[pk[i].content][p]>> : p \in {q \in StartStrings : Maps(pk[i], q)}} :
           i \in DOMAIN pk}
Keys(rm) == {p \in StartStrings : rm[p] # None}
Items(rm) == {<<p, rm[p]>> : p \in Keys(rm)}

PackagesInit ==
    /\ packages = <<>> /\ remappings = NoRemappings
    /\ keyed = TRUE /\ changed = FALSE /\ edited = FALSE
    /\ task = "idle" /\ next = 0 /\ then = "idle"
    /\ keep = TRUE /\ added = FALSE
    /\ file = Unreadable("absent")
    /\ disk \in [Urls -> Contents \cup {None}]
    /\ look = None

\* The main thread is between two operations.  Only the GUI has another thread
\* that maps URLs: elsewhere an operation waits for the mapping to end.
Ready ==
    /\ task = "idle"
    /\ mode \in {"cmd", "close"} => look = None

------------------------------------------------------------------------------
\* Changing the list

\* A mapping that is going on may now meet these packages, too.
Offer(pk) ==
    look' = IF look = None THEN None
            ELSE [look EXCEPT !.offered = @ \cup Pairs(pk), !.disturbed = TRUE]

\* packageInfo: what a package file holds becomes an enabled entry.
PackageInfo(u) == [url |-> u, content |-> disk[u], on |-> TRUE]

\* addPackage: the first package of this identifier is replaced in its place.
First(indices) == CHOOSE i \in indices : \A j \in indices : i <= j
AddPackage(u) ==
    LET same == {i \in DOMAIN packages :
                   Identifier[packages[i].content] = Identifier[disk[u]]}
    IN  IF same = {} THEN Append(packages, PackageInfo(u))
        ELSE [packages EXCEPT ![First(same)] = PackageInfo(u)]

\* The dialog changes the live list and then rebuilds the remappings.
DialogEdit(pk) ==
    /\ mode = "gui" /\ dialog = "packages" /\ Ready
    /\ Operation("packages")
    /\ packages' = pk /\ edited' = TRUE
    /\ task' = "clear" /\ then' = "idle"
    /\ Offer(pk)
    /\ UNCHANGED <<remappings, keyed, changed, next, keep, added, file, disk, mode, dialog>>

\* removePackageInfo: the first of this name and version goes.
WithoutInfo(pk, id, version) ==
    LET same == {i \in DOMAIN pk : /\ Identifier[pk[i].content] = id
                                   /\ Version[pk[i].content] = version}
    IN  IF same = {} THEN pk ELSE RemoveAt(pk, First(same))

\* addPackageInfo: a package found by the user, or reloaded, goes to the end.
AddPackageInfo(u) ==
    /\ disk[u] # None
    /\ DialogEdit(Append(WithoutInfo(packages, Identifier[disk[u]], Version[disk[u]]),
                         PackageInfo(u)))

\* packageReload: the entry is found again by the name and version that the file
\* has now.
PackageReload(i) == AddPackageInfo(packages[i].url)

PackageRemove(i) ==
    DialogEdit(WithoutInfo(packages, Identifier[packages[i].content],
                           Version[packages[i].content]))

PackageEnable(i) == DialogEdit([packages EXCEPT ![i].on = ~@])

\* packageMoveUp of i + 1, packageMoveDown of i
PackageMove(i) ==
    /\ i + 1 \in DOMAIN packages
    /\ DialogEdit([packages EXCEPT ![i] = packages[i + 1], ![i + 1] = packages[i]])

EnableDisableAll(doEnable) ==
    DialogEdit([i \in DOMAIN packages |-> [packages[i] EXCEPT !.on = doEnable]])

OpenDialog ==
    /\ mode = "gui" /\ dialog = "none" /\ Ready
    /\ dialog' = "packages" /\ edited' = FALSE
    /\ UNCHANGED <<packages, remappings, keyed, changed, work, file, disk, look, mode, ops>>

\* close(), also the Cancel button: what was edited stays.
Cancel ==
    /\ dialog = "packages" /\ Ready
    /\ dialog' = "none" /\ edited' = FALSE
    /\ UNCHANGED <<packages, remappings, keyed, changed, work, file, disk, look, mode, ops>>

\* save() opens the file, which empties it.
OpenFile ==
    /\ task' = "write" /\ file' = Unreadable("broken")
    /\ UNCHANGED <<packages, remappings, keyed, next, then, keep, added, disk, look>>

\* ok() with changes: they are saved.  Without, it only closes the dialog.
OK ==
    /\ dialog = "packages" /\ Ready /\ edited
    /\ OpenFile
    /\ changed' = TRUE /\ dialog' = "none" /\ edited' = FALSE
    /\ UNCHANGED <<mode, ops>>

\* save() writes the configuration.
WriteFile ==
    /\ task = "write"
    /\ task' = "idle" /\ changed' = FALSE
    /\ file' = [state |-> "whole", packages |-> packages, remappings |-> remappings]
    /\ UNCHANGED <<packages, remappings, keyed, edited, next, then, keep, added, disk, look,
                   mode, dialog, ops>>

------------------------------------------------------------------------------
\* rebuildRemappings

Disturb == look' = IF look = None THEN None ELSE [look EXCEPT !.disturbed = TRUE]

\* Mutant of Clear: the remappings of before stay.
ClearNothing ==
    /\ task = "clear"
    /\ task' = "fill" /\ next' = 1
    /\ Disturb
    /\ UNCHANGED <<packages, remappings, keyed, changed, edited, then, keep, added, file, disk,
                   mode, dialog, ops>>

\* remappings.clear()
Clear ==
    /\ task = "clear"
    /\ remappings' = NoRemappings
    /\ task' = "fill" /\ next' = 1
    /\ Disturb
    /\ UNCHANGED <<packages, keyed, changed, edited, then, keep, added, file, disk,
                   mode, dialog, ops>>

\* The remappings of the next package are added if it is enabled, in place of
\* those that an earlier one has for the same start string.
Fill ==
    /\ task = "fill" /\ next <= Len(packages)
    /\ remappings' = [p \in StartStrings |->
                        IF Maps(packages[next], p) THEN Remapping[packages[next].content][p]
                        ELSE remappings[p]]
    /\ next' = next + 1
    /\ Disturb
    /\ UNCHANGED <<packages, keyed, changed, edited, task, then, keep, added, file, disk,
                   mode, dialog, ops>>

\* The end of the rebuild.  loadPackages then saves if only + ~ - were given:
\* a command line has no file to save to and the assertion in save() fails.
\* Otherwise it forgets the change.
Rebuilt ==
    /\ task = "fill" /\ next > Len(packages)
    /\ task' = "idle" /\ next' = 0 /\ then' = "idle"
    /\ changed' = (changed /\ (then = "idle" \/ keep))
    /\ UNCHANGED <<packages, remappings, keyed, edited, keep, added, file, disk, look,
                   mode, dialog, ops>>

------------------------------------------------------------------------------
\* The command line and loads with packages

\* loadPackages, for the packages option of a run.
BeginOptions ==
    /\ mode = "cmd" /\ Ready
    /\ task' = "options" /\ keep' = TRUE
    /\ UNCHANGED <<memory, next, then, added, file, disk, look, mode, dialog, ops>>

\* ModelManager.load with taxonomyPackages.
BeginLoad ==
    /\ mode = "cmd" /\ Ready
    /\ task' = "load" /\ added' = FALSE
    /\ UNCHANGED <<memory, next, then, keep, file, disk, look, mode, dialog, ops>>

\* A package of either: "+url" is to be kept, a plain url is for this run.  One
\* that cannot be read is passed over.
Add(u, plain) ==
    /\ task \in {"options", "load"} /\ keyed /\ Operation("packages")
    /\ keep' = (keep /\ ~(task = "options" /\ plain))
    /\ IF disk[u] = None
         THEN UNCHANGED <<packages, changed, added>>
         ELSE /\ packages' = AddPackage(u)
              /\ changed' = TRUE
              /\ added' = (added \/ task = "load")
    /\ UNCHANGED <<remappings, keyed, edited, task, next, then, file, disk, look, mode, dialog>>

\* "~name" reads the file of the package again.
OptionReload(i) ==
    /\ task = "options" /\ keyed /\ Operation("packages")
    /\ disk[packages[i].url] # None
    /\ packages' = AddPackage(packages[i].url) /\ changed' = TRUE
    /\ UNCHANGED <<remappings, keyed, edited, work, file, disk, look, mode, dialog>>

\* "-name": addPackage keeps one package per identifier, so there is one to remove.
OptionRemove(i) ==
    /\ task = "options" /\ keyed /\ Operation("packages")
    /\ packages' = RemoveAt(packages, i) /\ changed' = TRUE
    /\ UNCHANGED <<remappings, keyed, edited, work, file, disk, look, mode, dialog>>

\* "temp"
OptionTemp ==
    /\ task = "options" /\ keep
    /\ keep' = FALSE
    /\ UNCHANGED <<memory, task, next, then, added, file, disk, look, mode, dialog, ops>>

\* In a second run of a session the configuration has no lists: the first
\* option that needs one raises KeyError, and so does a rebuild.
KeyError ==
    /\ task \in {"options", "load"} /\ ~keyed
    /\ task' = "idle"
    /\ UNCHANGED <<memory, next, then, keep, added, file, disk, look, mode, dialog, ops>>

\* The end of the options: the rebuild, if anything changed.
EndOptions ==
    /\ task = "options" /\ (keyed \/ ~changed)
    /\ task' = IF changed THEN "clear" ELSE "idle"
    /\ then' = IF changed THEN "save" ELSE "idle"
    /\ UNCHANGED <<memory, next, keep, added, file, disk, look, mode, dialog, ops>>

EndLoad ==
    /\ task = "load"
    /\ task' = IF added THEN "clear" ELSE "idle"
    /\ then' = "idle"
    /\ UNCHANGED <<memory, next, keep, added, file, disk, look, mode, dialog, ops>>

------------------------------------------------------------------------------
\* mappedUrl, in another thread: an iteration over the live remappings

Lookups ==
    [url : Asked, state : {"run", "mapped", "same", "raised"}, size : Nat,
     seen : SUBSET StartStrings, best : StartStrings \cup {None}, to : Targets \cup {None},
     \* history: remappings it may have met; the remappings changed meanwhile
     offered : SUBSET (StartStrings \X Targets), disturbed : BOOLEAN]

BeginLookup(url) ==
    /\ mode \in {"gui", "cmd"} /\ look = None
    /\ mode = "cmd" => task = "idle"
    /\ look' = [url |-> url, state |-> "run", size |-> Cardinality(Keys(remappings)),
                seen |-> {}, best |-> None, to |-> None,
                offered |-> Items(remappings) \cup Pairs(packages),
                disturbed |-> task \in {"clear", "fill"}]
    /\ UNCHANGED <<memory, work, file, disk, mode, dialog, ops>>

Running == look # None /\ look.state = "run"

\* Python notices that the dictionary has another size than at the start.
LookupRaises ==
    /\ Running /\ Cardinality(Keys(remappings)) # look.size
    /\ look' = [look EXCEPT !.state = "raised"]
    /\ UNCHANGED <<memory, work, file, disk, mode, dialog, ops>>

\* Mutant of LookupItem: the last start string that fits wins, not the longest.
LookupItemLast(p) ==
    /\ Running /\ Cardinality(Keys(remappings)) = look.size
    /\ p \in Keys(remappings) \ look.seen
    /\ look' =
         [look EXCEPT
            !.seen = @ \cup {p},
            !.state = IF IsPrefix(p, look.url) /\ IsPrefix(remappings[p], look.url)
                        THEN "same" ELSE @,
            !.best = IF IsPrefix(p, look.url) THEN p ELSE @,
            !.to = IF IsPrefix(p, look.url) THEN remappings[p] ELSE @]
    /\ UNCHANGED <<memory, work, file, disk, mode, dialog, ops>>

\* A remapping of the start string p that the iteration has not met.  A url that
\* is already mapped is returned; otherwise the longest start string wins.
LookupItem(p) ==
    /\ Running /\ Cardinality(Keys(remappings)) = look.size
    /\ p \in Keys(remappings) \ look.seen
    /\ look' =
         [look EXCEPT
            !.seen = @ \cup {p},
            !.state = IF IsPrefix(p, look.url) /\ IsPrefix(remappings[p], look.url)
                        THEN "same" ELSE @,
            !.best = IF IsPrefix(p, look.url) /\ (@ = None \/ Len(p) > Len(@)) THEN p ELSE @,
            !.to = IF IsPrefix(p, look.url) /\ (look.best = None \/ Len(p) > Len(look.best))
                     THEN remappings[p] ELSE @]
    /\ UNCHANGED <<memory, work, file, disk, mode, dialog, ops>>

\* The end of the iteration.  When the dictionary was refilled to its size the
\* iterator may have passed over entries that moved.
LookupEnd ==
    /\ Running /\ Cardinality(Keys(remappings)) = look.size
    /\ Keys(remappings) \subseteq look.seen \/ look.disturbed
    /\ look' = [look EXCEPT !.state = IF look.best = None THEN "same" ELSE "mapped"]
    /\ UNCHANGED <<memory, work, file, disk, mode, dialog, ops>>

\* The url to read instead.
MappedUrl ==
    IF look.state = "mapped"
    THEN look.to \o SubSeq(look.url, Len(look.best) + 1, Len(look.url))
    ELSE look.url

LookupReturns ==
    /\ look # None /\ look.state # "run"
    /\ look' = None
    /\ UNCHANGED <<memory, work, file, disk, mode, dialog, ops>>

------------------------------------------------------------------------------
\* The life of the process

\* What a process has before init and after it ended.
NoMemory ==
    /\ packages' = <<>> /\ remappings' = NoRemappings
    /\ keyed' = TRUE /\ changed' = FALSE /\ edited' = FALSE
    /\ task' = "idle" /\ next' = 0 /\ then' = "idle"
    /\ keep' = TRUE /\ added' = FALSE /\ look' = None
    /\ UNCHANGED disk

\* init: only the GUI reads the file, with the remappings of that time; one that
\* is absent or cannot be parsed is passed over.
PackagesStart ==
    IF mode' = "gui" /\ file.state = "whole"
    THEN /\ packages' = file.packages /\ remappings' = file.remappings
         /\ UNCHANGED <<keyed, changed, edited, work, file, disk, look>>
    ELSE UNCHANGED packageVars

\* Session.run again: PackageManager.close() empties the configuration.
PackagesClose ==
    /\ Ready /\ look = None
    /\ packages' = <<>> /\ remappings' = NoRemappings /\ keyed' = FALSE
    /\ UNCHANGED <<changed, edited, work, file, disk, look>>

\* Mutant of SaveAtQuit: whoever closes saves.
SaveAtEveryClose ==
    /\ mode \in {"quit", "close"} /\ Ready /\ changed
    /\ OpenFile
    /\ UNCHANGED <<changed, edited, mode, dialog, ops>>

\* Cntlr.close of the GUI saves what changed.
SaveAtQuit ==
    /\ mode = "quit" /\ Ready /\ changed
    /\ OpenFile
    /\ UNCHANGED <<changed, edited, mode, dialog, ops>>

\* Nothing is left to save.
PackagesSaved == task = "idle" /\ ~(HasGui /\ changed)

\* The process ends or is killed.
PackagesGone == NoMemory /\ UNCHANGED file

\* Somebody replaces or removes a package file.
DiskChanges(u, c) ==
    /\ disk[u] # c /\ FileChange("packages")
    /\ disk' = [disk EXCEPT ![u] = c]
    /\ UNCHANGED <<memory, work, file, look, mode, dialog>>

PackageDialog ==
    \/ OpenDialog \/ Cancel \/ OK
    \/ \E u \in Urls : AddPackageInfo(u)
    \/ \E i \in DOMAIN packages :
         PackageReload(i) \/ PackageRemove(i) \/ PackageEnable(i) \/ PackageMove(i)
    \/ \E b \in BOOLEAN : EnableDisableAll(b)

CommandLine ==
    \/ BeginOptions \/ BeginLoad \/ OptionTemp \/ KeyError \/ EndOptions \/ EndLoad
    \/ \E u \in Urls, plain \in BOOLEAN : Add(u, plain)
    \/ \E i \in DOMAIN packages : OptionReload(i) \/ OptionRemove(i)

Rebuild == Clear \/ Fill \/ Rebuilt

Lookup ==
    \/ \E url \in Asked : BeginLookup(url)
    \/ \E p \in StartStrings : LookupItem(p)
    \/ LookupRaises \/ LookupEnd \/ LookupReturns

PackageStep ==
    \/ PackageDialog \/ CommandLine \/ Rebuild \/ Lookup \/ WriteFile \/ SaveAtQuit
    \/ \E u \in Urls, c \in Contents \cup {None} : DiskChanges(u, c)

------------------------------------------------------------------------------
\* Properties

Tasks == {"idle", "clear", "fill", "write", "options", "load"}

\* Every variable keeps its type.
PackagesTypeOK ==
    /\ packages \in Seq(Entry)
    /\ remappings \in [StartStrings -> Targets \cup {None}]
    /\ keyed \in BOOLEAN /\ changed \in BOOLEAN /\ edited \in BOOLEAN
    /\ task \in Tasks /\ then \in {"idle", "save"}
    /\ next \in Nat /\ (task = "fill" => next \in 1..Len(packages) + 1)
    /\ keep \in BOOLEAN /\ added \in BOOLEAN
    /\ file \in File
    /\ disk \in [Urls -> Contents \cup {None}]
    /\ look \in Lookups \cup {None}

\* rm is what the first n packages of pk give: each start string is rewritten as
\* the last enabled package with that start string says.
Agrees(rm, pk, n) ==
    \A p \in StartStrings :
        \/ rm[p] = None /\ \A i \in 1..n : ~Maps(pk[i], p)
        \/ \E i \in 1..n : /\ Maps(pk[i], p)
                           /\ rm[p] = Remapping[pk[i].content][p]
                           /\ \A j \in (i + 1)..n : ~Maps(pk[j], p)

\* Between operations the remappings are those of the enabled packages in their
\* order, whatever was added, replaced, disabled, moved or removed before by
\* whichever path, read from the file of an earlier process or cleared by a
\* session's next run; and so are the saved ones, which are not rebuilt when read.
MappingsCurrent ==
    /\ task \in {"idle", "write"} => Agrees(remappings, packages, Len(packages))
    /\ task = "fill" => Agrees(remappings, packages, next - 1)
    /\ Agrees(file.remappings, file.packages, Len(file.packages))

\* What a url is mapped to, by the definition: start strings that begin it, of
\* the packages that are enabled; the longest, unless it is mapped already.
Matching == {p \in Keys(remappings) : IsPrefix(p, look.url)}
RightAnswer ==
    IF \/ Matching = {}
       \/ \E p \in Matching : IsPrefix(remappings[p], look.url)
    THEN look.url
    ELSE LET longest == CHOOSE p \in Matching : \A q \in Matching : Len(q) <= Len(p)
         IN  remappings[longest] \o SubSeq(look.url, Len(longest) + 1, Len(look.url))

\* A url that a thread maps while the UI thread edits the packages is mapped as
\* some package says that was enabled meanwhile, or not at all, or the mapping
\* fails; and without such an edit it is mapped as the packages say.
LookupRight ==
    look # None =>
        /\ look.state = "mapped" => <<look.best, look.to>> \in look.offered
        /\ look.state = "raised" => look.disturbed
        /\ look.state \in {"mapped", "same"} /\ ~look.disturbed => MappedUrl = RightAnswer

\* docs/source/command_line.md:39: packages of the command line are not persisted
\* or shared with the GUI: no run and no session changes the GUI's file.
CommandLineNotPersistent == [][(mode \in {"cmd", "close"}) => (file' = file)]_packageVars
=============================================================================
