------------------------- MODULE ConfigurationProof -------------------------
(***************************************************************************)
(* Theorems about the package manager and the plug-in manager in any        *)
(* sequence of processes, for all packages, remappings and urls, and for    *)
(* all plug-ins, hooks and imports.                                         *)
(***************************************************************************)
EXTENDS Configuration, WellFoundedInduction, SequenceTheorems, FiniteSetTheorems, TLAPS

-----------------------------------------------------------------------------
(* Sequences *)

\* The first of some indices is one of them.
LEMMA FirstIn ==
  ASSUME NEW S \in SUBSET Nat, S # {}
  PROVE  First(S) \in S /\ \A i \in S : First(S) <= i
<1>1. PICK i \in S : \A j \in S : <<j, i>> \notin OpToRel(<, Nat)
  BY WFMin, NatLessThanWellFounded
<1>2. ASSUME NEW j \in S PROVE i <= j
  <2>1. <<j, i>> \in Nat \X Nat
    OBVIOUS
  <2>2. <<j, i>>[1] = j /\ <<j, i>>[2] = i
    OBVIOUS
  <2>3. ~(<<j, i>>[1] < <<j, i>>[2])
    BY <1>1, <2>1 DEF OpToRel
  <2> QED
    BY <2>2, <2>3
<1>3. \E k \in S : \A j \in S : k <= j
  BY <1>2
<1> QED
  BY <1>3 DEF First

\* A sequence without one of its elements is one.
LEMMA RemoveAtType ==
  ASSUME NEW E, NEW s \in Seq(E), NEW i \in 1..Len(s)
  PROVE  RemoveAt(s, i) \in Seq(E)
<1>1. SubSeq(s, 1, i - 1) \in Seq(E)
  BY SubSeqProperties
<1>2. SubSeq(s, i + 1, Len(s)) \in Seq(E)
  BY SubSeqProperties
<1> QED
  BY <1>1, <1>2, ConcatProperties DEF RemoveAt

\* Lists of packages stay lists of packages.
LEMMA WithoutInfoType ==
  ASSUME NEW pk \in Seq(Entry), NEW id, NEW version
  PROVE  WithoutInfo(pk, id, version) \in Seq(Entry)
<1> DEFINE same == {i \in DOMAIN pk : /\ Identifier[pk[i].content] = id
                                      /\ Version[pk[i].content] = version}
<1>1. same \in SUBSET Nat
  OBVIOUS
<1>2. CASE same = {}
  BY <1>2 DEF WithoutInfo
<1>3. CASE same # {}
  <2>1. First(same) \in same
    BY <1>1, <1>3, FirstIn
  <2>2. First(same) \in 1..Len(pk)
    BY <2>1
  <2>3. RemoveAt(pk, First(same)) \in Seq(Entry)
    BY <2>2, RemoveAtType
  <2> QED
    BY <1>3, <2>3 DEF WithoutInfo
<1> QED
  BY <1>2, <1>3

LEMMA AddPackageType ==
  ASSUME PackagesTypeOK, NEW u \in Urls, disk[u] # None
  PROVE  PackageInfo(u) \in Entry /\ AddPackage(u) \in Seq(Entry)
<1>1. PackageInfo(u) \in Entry
  BY DEF PackageInfo, Entry, PackagesTypeOK
<1>2. packages \in Seq(Entry)
  BY DEF PackagesTypeOK
<1>3. Append(packages, PackageInfo(u)) \in Seq(Entry)
  BY <1>1, <1>2
<1> DEFINE same == {i \in DOMAIN packages :
                     Identifier[packages[i].content] = Identifier[disk[u]]}
<1>4. ASSUME same # {} PROVE [packages EXCEPT ![First(same)] = PackageInfo(u)] \in Seq(Entry)
  <2>1. same \in SUBSET Nat
    BY <1>2
  <2>2. First(same) \in same
    BY <1>4, <2>1, FirstIn
  <2>3. First(same) \in 1..Len(packages)
    BY <1>2, <2>2
  <2> QED
    BY <1>1, <1>2, <2>3, ExceptSeq
<1> QED
  BY <1>1, <1>3, <1>4 DEF AddPackage

\* What the dialog makes of the list.
LEMMA EditTypes ==
  ASSUME PackagesTypeOK
  PROVE  /\ \A i \in DOMAIN packages : [packages EXCEPT ![i].on = ~@] \in Seq(Entry)
         /\ \A i \in DOMAIN packages : i + 1 \in DOMAIN packages =>
              [packages EXCEPT ![i] = packages[i + 1], ![i + 1] = packages[i]] \in Seq(Entry)
         /\ \A b \in BOOLEAN :
              [i \in DOMAIN packages |-> [packages[i] EXCEPT !.on = b]] \in Seq(Entry)
<1>1. packages \in Seq(Entry) /\ packages \in [1..Len(packages) -> Entry]
      /\ Len(packages) \in Nat
  BY DEF PackagesTypeOK
<1>2. ASSUME NEW i \in DOMAIN packages, NEW b \in BOOLEAN
      PROVE  [packages[i] EXCEPT !.on = b] \in Entry
  BY <1>1, <1>2 DEF Entry
<1>3. ASSUME NEW i \in DOMAIN packages PROVE [packages EXCEPT ![i].on = ~@] \in Seq(Entry)
  <2>1. [packages[i] EXCEPT !.on = ~packages[i].on] \in Entry
    BY <1>1, <1>2, <1>3 DEF Entry
  <2>2. [packages EXCEPT ![i] = [packages[i] EXCEPT !.on = ~packages[i].on]] \in Seq(Entry)
    BY <1>1, <2>1, ExceptSeq
  <2> QED
    BY <2>2
<1>4. ASSUME NEW i \in DOMAIN packages, i + 1 \in DOMAIN packages
      PROVE  [packages EXCEPT ![i] = packages[i + 1], ![i + 1] = packages[i]] \in Seq(Entry)
  <2>1. packages[i] \in Entry /\ packages[i + 1] \in Entry
    BY <1>1, <1>4
  <2> DEFINE once == [packages EXCEPT ![i] = packages[i + 1]]
  <2>2. once \in Seq(Entry) /\ Len(once) = Len(packages)
    BY <1>1, <2>1, ExceptSeq
  <2>3. i + 1 \in 1..Len(once)
    BY <1>1, <1>4, <2>2
  <2> HIDE DEF once
  <2>4. [once EXCEPT ![i + 1] = packages[i]] \in Seq(Entry)
    BY <2>1, <2>2, <2>3, ExceptSeq
  <2> QED
    BY <2>4 DEF once
<1>5. ASSUME NEW b \in BOOLEAN
      PROVE  [i \in DOMAIN packages |-> [packages[i] EXCEPT !.on = b]] \in Seq(Entry)
  <2>1. [i \in 1..Len(packages) |-> [packages[i] EXCEPT !.on = b]] \in [1..Len(packages) -> Entry]
    BY <1>1, <1>2
  <2> QED
    BY <1>1, <2>1, IsASeq
<1> QED
  BY <1>3, <1>4, <1>5

-----------------------------------------------------------------------------
(* Types *)

\* Pairs of packages are start strings with targets.
LEMMA PairsType ==
  ASSUME NEW pk \in Seq(Entry)
  PROVE  Pairs(pk) \subseteq StartStrings \X Targets
<1> SUFFICES ASSUME NEW i \in DOMAIN pk, NEW p \in StartStrings, Maps(pk[i], p)
             PROVE  <<p, Remapping[pk[i].content][p]>> \in StartStrings \X Targets
  BY DEF Pairs
<1>1. pk[i] \in Entry
  OBVIOUS
<1>2. Remapping[pk[i].content][p] \in Targets
  BY <1>1, PackagesAssumption DEF Maps, Entry
<1> QED
  BY <1>2

\* An edit of the dialog.
LEMMA EditType ==
  ASSUME PackagesTypeOK, NEW pk \in Seq(Entry), DialogEdit(pk)
  PROVE  PackagesTypeOK'
<1>1. look' \in Lookups \cup {None}
  <2>1. Pairs(pk) \subseteq StartStrings \X Targets
    BY PairsType
  <2>2. CASE look = None
    BY <2>2 DEF DialogEdit, Offer
  <2>3. CASE look # None
    BY <2>1, <2>3 DEF DialogEdit, Offer, PackagesTypeOK, Lookups
  <2> QED
    BY <2>2, <2>3
<1> QED
  BY <1>1 DEF PackagesTypeOK, DialogEdit, Tasks

LEMMA UnreadableType ==
  ASSUME NEW state \in {"absent", "broken"}
  PROVE  Unreadable(state) \in File
<1>1. <<>> \in Seq(Entry)
  OBVIOUS
<1>2. NoRemappings \in [StartStrings -> Targets \cup {None}]
  BY DEF NoRemappings
<1> QED
  BY <1>1, <1>2 DEF Unreadable, File

LEMMA UrlType ==
  ASSUME PackagesTypeOK, NEW i \in DOMAIN packages
  PROVE  packages[i] \in Entry /\ packages[i].url \in Urls
<1>1. packages[i] \in Entry
  BY DEF PackagesTypeOK
<1> QED
  BY <1>1 DEF Entry

\* The actions of the dialog.
LEMMA DialogType ==
  ASSUME PackagesTypeOK, PackageDialog
  PROVE  PackagesTypeOK'
<1>1. CASE OpenDialog
  BY <1>1 DEF OpenDialog, PackagesTypeOK, work
<1>2. CASE Cancel
  BY <1>2 DEF Cancel, PackagesTypeOK, work
<1>3. CASE OK
  BY <1>3, UnreadableType DEF OK, OpenFile, PackagesTypeOK, Tasks
<1>4. ASSUME NEW u \in Urls, AddPackageInfo(u) PROVE PackagesTypeOK'
  <2> DEFINE rest == WithoutInfo(packages, Identifier[disk[u]], Version[disk[u]])
  <2>1. PackageInfo(u) \in Entry
    BY <1>4, AddPackageType DEF AddPackageInfo
  <2>2. rest \in Seq(Entry)
    BY WithoutInfoType DEF PackagesTypeOK
  <2>3. Append(rest, PackageInfo(u)) \in Seq(Entry)
    BY <2>1, <2>2, AppendProperties
  <2> QED
    BY <1>4, <2>3, EditType DEF AddPackageInfo
<1>5. ASSUME NEW i \in DOMAIN packages, PackageReload(i) PROVE PackagesTypeOK'
  <2>1. packages[i].url \in Urls
    BY <1>5, UrlType
  <2> QED
    BY <1>4, <1>5, <2>1 DEF PackageReload
<1>6. ASSUME NEW i \in DOMAIN packages, PackageRemove(i) PROVE PackagesTypeOK'
  <2>1. WithoutInfo(packages, Identifier[packages[i].content], Version[packages[i].content])
          \in Seq(Entry)
    BY WithoutInfoType DEF PackagesTypeOK
  <2> QED
    BY <1>6, <2>1, EditType DEF PackageRemove
<1>7. ASSUME NEW i \in DOMAIN packages, PackageEnable(i) PROVE PackagesTypeOK'
  BY <1>7, EditTypes, EditType DEF PackageEnable
<1>8. ASSUME NEW i \in DOMAIN packages, PackageMove(i) PROVE PackagesTypeOK'
  BY <1>8, EditTypes, EditType DEF PackageMove
<1>9. ASSUME NEW b \in BOOLEAN, EnableDisableAll(b) PROVE PackagesTypeOK'
  BY <1>9, EditTypes, EditType DEF EnableDisableAll
<1> QED
  BY <1>1, <1>2, <1>3, <1>4, <1>5, <1>6, <1>7, <1>8, <1>9 DEF PackageDialog

\* The actions of the command line.
LEMMA CommandLineType ==
  ASSUME PackagesTypeOK, CommandLine
  PROVE  PackagesTypeOK'
<1> USE DEF PackagesTypeOK, Tasks, memory, work
<1>1. CASE BeginOptions
  BY <1>1 DEF BeginOptions
<1>2. CASE BeginLoad
  BY <1>2 DEF BeginLoad
<1>3. CASE OptionTemp
  BY <1>3 DEF OptionTemp
<1>4. CASE KeyError
  BY <1>4 DEF KeyError
<1>5. CASE EndOptions
  BY <1>5 DEF EndOptions
<1>6. CASE EndLoad
  BY <1>6 DEF EndLoad
<1>7. ASSUME NEW u \in Urls, NEW plain \in BOOLEAN, Add(u, plain) PROVE PackagesTypeOK'
  <2>1. packages' \in Seq(Entry)
    <3>1. CASE disk[u] = None
      BY <1>7, <3>1 DEF Add
    <3>2. CASE disk[u] # None
      BY <1>7, <3>2, AddPackageType DEF Add
    <3> QED
      BY <3>1, <3>2
  <2>2. changed' \in BOOLEAN /\ added' \in BOOLEAN /\ keep' \in BOOLEAN
    BY <1>7 DEF Add
  <2> QED
    BY <1>7, <2>1, <2>2 DEF Add
<1>8. ASSUME NEW i \in DOMAIN packages, OptionReload(i) PROVE PackagesTypeOK'
  <2>1. packages[i].url \in Urls
    BY <1>8, UrlType
  <2>2. packages' \in Seq(Entry)
    BY <1>8, <2>1, AddPackageType DEF OptionReload
  <2> QED
    BY <1>8, <2>2 DEF OptionReload
<1>9. ASSUME NEW i \in DOMAIN packages, OptionRemove(i) PROVE PackagesTypeOK'
  <2>1. i \in 1..Len(packages)
    BY <1>9
  <2>2. packages' \in Seq(Entry)
    BY <1>9, <2>1, RemoveAtType DEF OptionRemove
  <2> QED
    BY <1>9, <2>2 DEF OptionRemove
<1> QED
  BY <1>1, <1>2, <1>3, <1>4, <1>5, <1>6, <1>7, <1>8, <1>9 DEF CommandLine

LEMMA RebuildType ==
  ASSUME PackagesTypeOK, Rebuild
  PROVE  PackagesTypeOK'
<1>1. look' \in Lookups \cup {None}
  <2>1. CASE look = None
    BY <2>1 DEF Rebuild, Clear, Fill, Rebuilt, Disturb
  <2>2. CASE look # None
    BY <2>2 DEF Rebuild, Clear, Fill, Rebuilt, Disturb, PackagesTypeOK, Lookups
  <2> QED
    BY <2>1, <2>2
<1>2. CASE Clear
  BY <1>1, <1>2 DEF Clear, NoRemappings, PackagesTypeOK, Tasks
<1>3. CASE Fill
  <2>1. packages[next] \in Entry
    BY <1>3 DEF Fill, PackagesTypeOK
  <2>2. \A p \in StartStrings : Remapping[packages[next].content][p] \in Targets \cup {None}
    BY <2>1, PackagesAssumption DEF Entry
  <2>3. remappings' \in [StartStrings -> Targets \cup {None}]
    BY <1>3, <2>2 DEF Fill, PackagesTypeOK
  <2> QED
    BY <1>1, <1>3, <2>3 DEF Fill, PackagesTypeOK
<1>4. CASE Rebuilt
  BY <1>1, <1>4 DEF Rebuilt, PackagesTypeOK, Tasks
<1> QED
  BY <1>2, <1>3, <1>4 DEF Rebuild

\* The remappings are finitely many, so that the iteration counts them.
LEMMA LookupType ==
  ASSUME PackagesTypeOK, Lookup
  PROVE  PackagesTypeOK'
<1>1. look' \in Lookups \cup {None}
  <2>1. ASSUME NEW url \in Asked, BeginLookup(url) PROVE look' \in Lookups
    <3>1. Cardinality(Keys(remappings)) \in Nat
      BY PackagesAssumption, FS_Subset, FS_CardinalityType DEF Keys
    <3>2. Items(remappings) \subseteq StartStrings \X Targets
      BY DEF Items, Keys, PackagesTypeOK
    <3>3. Pairs(packages) \subseteq StartStrings \X Targets
      BY PairsType DEF PackagesTypeOK
    <3> QED
      BY <2>1, <3>1, <3>2, <3>3 DEF BeginLookup, Lookups
  <2>2. ASSUME NEW p \in StartStrings, LookupItem(p) PROVE look' \in Lookups
    <3>1. look \in Lookups /\ remappings[p] \in Targets
      BY <2>2 DEF LookupItem, Running, Keys, PackagesTypeOK
    <3> QED
      BY <2>2, <3>1 DEF LookupItem, Lookups
  <2>3. CASE LookupRaises
    BY <2>3 DEF LookupRaises, Running, Lookups, PackagesTypeOK
  <2>4. CASE LookupEnd
    BY <2>4 DEF LookupEnd, Running, Lookups, PackagesTypeOK
  <2>5. CASE LookupReturns
    BY <2>5 DEF LookupReturns
  <2> QED
    BY <2>1, <2>2, <2>3, <2>4, <2>5 DEF Lookup
<1>2. UNCHANGED <<memory, work, file, disk>>
  BY DEF Lookup, BeginLookup, LookupItem, LookupRaises, LookupEnd, LookupReturns
<1> QED
  BY <1>1, <1>2 DEF PackagesTypeOK, memory, work

\* Every action of the package manager keeps the types.
LEMMA PackageStepType ==
  ASSUME PackagesTypeOK, PackageStep
  PROVE  PackagesTypeOK'
<1>1. CASE WriteFile
  BY <1>1 DEF WriteFile, File, PackagesTypeOK, Tasks
<1>2. CASE SaveAtQuit
  BY <1>2, UnreadableType DEF SaveAtQuit, OpenFile, PackagesTypeOK, Tasks
<1>3. ASSUME NEW u \in Urls, NEW c \in Contents \cup {None}, DiskChanges(u, c)
      PROVE  PackagesTypeOK'
  BY <1>3 DEF DiskChanges, PackagesTypeOK, memory, work
<1> QED
  BY <1>1, <1>2, <1>3, DialogType, CommandLineType, RebuildType, LookupType DEF PackageStep

\* What a new process has.
LEMMA NoMemoryType ==
  ASSUME PackagesTypeOK, NoMemory, UNCHANGED file
  PROVE  PackagesTypeOK'
<1>1. <<>> \in Seq(Entry) /\ NoRemappings \in [StartStrings -> Targets \cup {None}]
  BY DEF NoRemappings
<1> QED
  BY <1>1 DEF NoMemory, PackagesTypeOK, Tasks

\* Start, RunAgain and the end of a process keep the types, too.
LEMMA ConfigurationType ==
  ASSUME PackagesTypeOK, [ConfigurationNext]_allVars, mode = "off" => task = "idle"
  PROVE  PackagesTypeOK'
<1> USE DEF PackagesTypeOK
<1>1. ASSUME NEW m \in {"gui", "cmd"}, Start(m) PROVE PackagesTypeOK'
  <2>1. CASE mode' = "gui" /\ file.state = "whole"
    <3>1. /\ file.packages \in Seq(Entry)
          /\ file.remappings \in [StartStrings -> Targets \cup {None}]
      BY DEF File
    <3>2. task' = "idle"
      BY <1>1, <2>1 DEF Start, PackagesStart, work
    <3> QED
      BY <1>1, <2>1, <3>1, <3>2 DEF Start, PackagesStart, work
  <2>2. CASE UNCHANGED packageVars
    BY <2>2 DEF packageVars
  <2> QED
    BY <1>1, <2>1, <2>2 DEF Start, PackagesStart
<1>2. CASE Quit
  BY <1>2 DEF Quit, packageVars
<1>3. CASE RunAgain
  <2>1. <<>> \in Seq(Entry) /\ NoRemappings \in [StartStrings -> Targets \cup {None}]
    BY DEF NoRemappings
  <2> QED
    BY <1>3, <2>1 DEF RunAgain, PackagesClose, Ready, work
<1>4. CASE Gone \/ Killed
  BY <1>4, NoMemoryType DEF Gone, Killed, End, PackagesGone
<1>5. CASE PackagesTurn
  BY <1>5, PackageStepType DEF PackagesTurn
<1>6. CASE PluginsTurn \/ UNCHANGED allVars
  BY <1>6 DEF PluginsTurn, allVars, packageVars
<1> QED
  BY <1>1, <1>2, <1>3, <1>4, <1>5, <1>6 DEF ConfigurationNext

LEMMA InitType ==
  ASSUME ConfigurationInit PROVE PackagesTypeOK
<1>1. <<>> \in Seq(Entry) /\ NoRemappings \in [StartStrings -> Targets \cup {None}]
  BY DEF NoRemappings
<1>2. Unreadable("absent") \in File
  BY UnreadableType
<1> QED
  BY <1>1, <1>2 DEF ConfigurationInit, PackagesInit, PackagesTypeOK, Tasks

-----------------------------------------------------------------------------
(* Remappings *)

\* Nothing is remapped before the first package,
LEMMA AgreesEmpty ==
  ASSUME NEW pk PROVE Agrees(NoRemappings, pk, 0)
BY DEF Agrees, NoRemappings

\* and each package is added in place of what earlier ones say.
LEMMA AgreesNext ==
  ASSUME PackagesTypeOK, task = "fill", next <= Len(packages),
         Agrees(remappings, packages, next - 1),
         NEW rm, rm = [p \in StartStrings |->
                         IF Maps(packages[next], p) THEN Remapping[packages[next].content][p]
                         ELSE remappings[p]]
  PROVE  Agrees(rm, packages, next)
<1>1. next \in Nat /\ next >= 1 /\ Len(packages) \in Nat
  BY DEF PackagesTypeOK
<1> SUFFICES ASSUME NEW p \in StartStrings
             PROVE  \/ rm[p] = None /\ \A i \in 1..next : ~Maps(packages[i], p)
                    \/ \E i \in 1..next : /\ Maps(packages[i], p)
                                         /\ rm[p] = Remapping[packages[i].content][p]
                                         /\ \A j \in (i + 1)..next : ~Maps(packages[j], p)
  BY DEF Agrees
<1>2. CASE Maps(packages[next], p)
  <2>1. next \in 1..next /\ \A j \in (next + 1)..next : ~Maps(packages[j], p)
    BY <1>1
  <2> QED
    BY <1>2, <2>1
<1>3. CASE ~Maps(packages[next], p)
  <2>1. rm[p] = remappings[p]
    BY <1>3
  <2>2. CASE remappings[p] = None /\ \A i \in 1..(next - 1) : ~Maps(packages[i], p)
    BY <1>1, <1>3, <2>1, <2>2
  <2>3. CASE \E i \in 1..(next - 1) : /\ Maps(packages[i], p)
                                     /\ remappings[p] = Remapping[packages[i].content][p]
                                     /\ \A j \in (i + 1)..(next - 1) : ~Maps(packages[j], p)
    <3>1. PICK i \in 1..(next - 1) : /\ Maps(packages[i], p)
                                     /\ remappings[p] = Remapping[packages[i].content][p]
                                     /\ \A j \in (i + 1)..(next - 1) : ~Maps(packages[j], p)
      BY <2>3
    <3>2. i \in 1..next /\ \A j \in (i + 1)..next : ~Maps(packages[j], p)
      BY <1>1, <1>3, <3>1
    <3> QED
      BY <2>1, <3>1, <3>2
  <2> QED
    BY <2>2, <2>3 DEF Agrees
<1> QED
  BY <1>2, <1>3

\* The inductive invariant: where the remappings may lag behind the packages, a
\* rebuild follows, and only the GUI writes the file.
PackagesInv ==
    /\ PackagesTypeOK
    /\ MappingsCurrent
    /\ mode \in {"gui", "quit", "off"} => keyed
    /\ ~keyed => packages = <<>> /\ remappings = NoRemappings
    /\ dialog = "packages" => mode = "gui"
    /\ task \in {"options", "load"} => mode = "cmd"
    /\ task = "write" => mode \in {"gui", "quit"}
    /\ mode = "off" => task = "idle"
    /\ task = "options" /\ ~changed => Agrees(remappings, packages, Len(packages))
    /\ task = "load" /\ ~added => Agrees(remappings, packages, Len(packages))

LEMMA InitInv == ConfigurationInit => PackagesInv
<1> SUFFICES ASSUME ConfigurationInit PROVE PackagesInv
  OBVIOUS
<1>1. Agrees(NoRemappings, <<>>, Len(<<>>))
  BY AgreesEmpty
<1> QED
  BY <1>1, InitType
     DEF ConfigurationInit, PackagesInit, PackagesInv, MappingsCurrent, Unreadable

\* An edit of the dialog leaves the remappings to the rebuild.
LEMMA EditInv ==
  ASSUME PackagesInv, PackagesTypeOK', NEW pk, DialogEdit(pk)
  PROVE  PackagesInv'
BY DEF PackagesInv, MappingsCurrent, DialogEdit, Ready

LEMMA DialogInv ==
  ASSUME PackagesInv, PackageDialog
  PROVE  PackagesInv'
<1>1. PackagesTypeOK'
  BY DialogType DEF PackagesInv
<1>2. CASE OpenDialog \/ Cancel
  BY <1>1, <1>2 DEF PackagesInv, MappingsCurrent, OpenDialog, Cancel, Ready, work
<1>3. CASE OK
  <2>1. Agrees(NoRemappings, <<>>, Len(<<>>))
    BY AgreesEmpty
  <2> QED
    BY <1>1, <1>3, <2>1 DEF PackagesInv, MappingsCurrent, OK, OpenFile, Unreadable, Ready
<1>4. CASE \E pk : DialogEdit(pk)
  BY <1>1, <1>4, EditInv
<1> QED
  BY <1>2, <1>3, <1>4
     DEF PackageDialog, AddPackageInfo, PackageReload, PackageRemove, PackageEnable,
         PackageMove, EnableDisableAll

LEMMA CommandLineInv ==
  ASSUME PackagesInv, CommandLine
  PROVE  PackagesInv'
<1>1. PackagesTypeOK'
  BY CommandLineType DEF PackagesInv
<1> USE <1>1 DEF PackagesInv, MappingsCurrent, memory, work
<1>2. CASE BeginOptions
  BY <1>2 DEF BeginOptions, Ready
<1>3. CASE BeginLoad
  BY <1>3 DEF BeginLoad, Ready
<1>4. CASE OptionTemp
  BY <1>4 DEF OptionTemp
<1>5. CASE KeyError
  <2>1. Agrees(NoRemappings, <<>>, Len(<<>>))
    BY AgreesEmpty
  <2> QED
    BY <1>5, <2>1 DEF KeyError
<1>6. CASE EndOptions
  BY <1>6 DEF EndOptions
<1>7. CASE EndLoad
  BY <1>7 DEF EndLoad
<1>8. ASSUME NEW u \in Urls, NEW plain \in BOOLEAN, Add(u, plain) PROVE PackagesInv'
  <2>1. CASE disk[u] = None
    BY <1>8, <2>1 DEF Add
  <2>2. CASE disk[u] # None
    BY <1>8, <2>2 DEF Add
  <2> QED
    BY <2>1, <2>2
<1>9. ASSUME NEW i \in DOMAIN packages, OptionReload(i) \/ OptionRemove(i)
      PROVE  PackagesInv'
  BY <1>9 DEF OptionReload, OptionRemove
<1> QED
  BY <1>2, <1>3, <1>4, <1>5, <1>6, <1>7, <1>8, <1>9 DEF CommandLine

LEMMA RebuildInv ==
  ASSUME PackagesInv, Rebuild
  PROVE  PackagesInv'
<1>1. PackagesTypeOK'
  BY RebuildType DEF PackagesInv
<1>2. CASE Clear
  <2>1. Agrees(NoRemappings, packages, 1 - 1)
    BY AgreesEmpty
  <2> QED
    BY <1>1, <1>2, <2>1 DEF PackagesInv, MappingsCurrent, Clear
<1>3. CASE Fill
  <2>1. Agrees(remappings', packages, next)
    BY <1>3, AgreesNext DEF PackagesInv, MappingsCurrent, Fill
  <2>2. next' - 1 = next
    BY <1>3 DEF Fill, PackagesInv, PackagesTypeOK
  <2>3. keyed
    <3>1. Len(packages) # 0
      BY <1>3 DEF Fill, PackagesInv, PackagesTypeOK
    <3> QED
      BY <3>1 DEF PackagesInv
  <2> QED
    BY <1>1, <1>3, <2>1, <2>2, <2>3 DEF PackagesInv, MappingsCurrent, Fill
<1>4. CASE Rebuilt
  <2>1. next - 1 = Len(packages)
    BY <1>4 DEF Rebuilt, PackagesInv, PackagesTypeOK
  <2> QED
    BY <1>1, <1>4, <2>1 DEF PackagesInv, MappingsCurrent, Rebuilt
<1> QED
  BY <1>2, <1>3, <1>4 DEF Rebuild

LEMMA PackageStepInv ==
  ASSUME PackagesInv, PackageStep
  PROVE  PackagesInv'
<1>1. PackagesTypeOK'
  BY PackageStepType DEF PackagesInv
<1>2. CASE WriteFile
  BY <1>1, <1>2 DEF PackagesInv, MappingsCurrent, WriteFile
<1>3. CASE SaveAtQuit
  <2>1. Agrees(NoRemappings, <<>>, Len(<<>>))
    BY AgreesEmpty
  <2> QED
    BY <1>1, <1>3, <2>1 DEF PackagesInv, MappingsCurrent, SaveAtQuit, OpenFile, Unreadable, Ready
<1>4. ASSUME NEW u \in Urls, NEW c \in Contents \cup {None}, DiskChanges(u, c)
      PROVE  PackagesInv'
  BY <1>1, <1>4 DEF PackagesInv, MappingsCurrent, DiskChanges, memory, work
<1>5. CASE Lookup
  BY <1>1, <1>5 DEF PackagesInv, MappingsCurrent, Lookup, BeginLookup, LookupItem, LookupRaises,
                    LookupEnd, LookupReturns, memory, work
<1> QED
  BY <1>2, <1>3, <1>4, <1>5, DialogInv, CommandLineInv, RebuildInv DEF PackageStep

\* The plug-in manager never opens the dialog of the packages.
LEMMA PackageStepFrame ==
  ASSUME PackageStep
  PROVE  mode' = mode
<1>1. CASE PackageDialog
  BY <1>1 DEF PackageDialog, OpenDialog, Cancel, OK, AddPackageInfo, PackageReload, PackageRemove,
     PackageEnable, PackageMove, EnableDisableAll, DialogEdit
<1>2. CASE CommandLine
  BY <1>2 DEF CommandLine, BeginOptions, BeginLoad, OptionTemp, KeyError, EndOptions, EndLoad, Add,
     OptionReload, OptionRemove
<1>3. CASE Rebuild \/ Lookup
  BY <1>3 DEF Rebuild, Clear, Fill, Rebuilt, Lookup, BeginLookup, LookupItem, LookupRaises,
     LookupEnd, LookupReturns
<1> QED
  BY <1>1, <1>2, <1>3 DEF PackageStep, WriteFile, SaveAtQuit, DiskChanges

LEMMA PluginStepFrame ==
  ASSUME PluginStep
  PROVE  mode' = mode /\ (dialog' = "packages" => dialog = "packages")
BY DEF PluginStep, PluginDialog, PluginOptions, HookLookup, OpenPlugins, CancelPlugins, OKPlugins,
       AddPluginConfigModuleInfo, ModuleEnable, ModuleRemove, EnableDisableAllPlugins, PluginsEdit,
       BeginPluginOptions, OptionTempPlugins, EndPluginOptions, OptionAddPlugin,
       OptionReloadPlugin, OptionRemovePlugin, Option, BeginHook, HookOf, LoadModule, EndHook,
       WritePlugins, FreshenModuleInfos, AbandonFreshening, SavePluginsAtClose, CodeChanges

LEMMA ConfigurationStepInv ==
  ASSUME PackagesInv, [ConfigurationNext]_allVars
  PROVE  PackagesInv'
<1>1. PackagesTypeOK'
  BY ConfigurationType DEF PackagesInv
<1> USE <1>1 DEF PackagesInv, MappingsCurrent
<1>2. Agrees(NoRemappings, <<>>, Len(<<>>))
  BY AgreesEmpty
<1>3. ASSUME NEW m \in {"gui", "cmd"}, Start(m) PROVE PackagesInv'
  BY <1>3 DEF Start, PackagesStart, packageVars, work
<1>4. CASE Quit
  BY <1>4 DEF Quit, Ready, packageVars
<1>5. CASE RunAgain
  BY <1>2, <1>5 DEF RunAgain, PackagesClose, Ready, work
<1>6. CASE Gone \/ Killed
  BY <1>2, <1>6 DEF Gone, Killed, End, PackagesGone, NoMemory
<1>7. CASE PackagesTurn
  BY <1>7, PackageStepInv DEF PackagesTurn
<1>8. CASE PluginsTurn
  BY <1>8, PluginStepFrame DEF PluginsTurn, packageVars
<1>9. CASE UNCHANGED allVars
  BY <1>9 DEF allVars, packageVars
<1> QED
  BY <1>3, <1>4, <1>5, <1>6, <1>7, <1>8, <1>9 DEF ConfigurationNext

LEMMA AlwaysInv == ConfigurationSpec => []PackagesInv
  BY InitInv, ConfigurationStepInv, PTL DEF ConfigurationSpec

\* The types of the package manager's variables (PackagesTypeOK) hold in any
\* sequence of processes.
THEOREM PackagesTypeCorrect == ConfigurationSpec => []PackagesTypeOK
<1>1. PackagesInv => PackagesTypeOK
  BY DEF PackagesInv
<1> QED
  BY <1>1, AlwaysInv, PTL

\* MappingsCurrent: between operations, in memory and in the file, the remappings
\* are those of the enabled packages in their order.
THEOREM MappingsCorrect == ConfigurationSpec => []MappingsCurrent
<1>1. PackagesInv => MappingsCurrent
  BY DEF PackagesInv
<1> QED
  BY <1>1, AlwaysInv, PTL

LEMMA FileKept ==
  ASSUME PackagesInv, [ConfigurationNext]_allVars, mode \in {"cmd", "close"}
  PROVE  file' = file
<1> USE DEF PackagesInv
<1>1. ASSUME PackageStep PROVE file' = file
  <2>1. ~OK /\ ~WriteFile /\ ~SaveAtQuit
    BY DEF OK, WriteFile, SaveAtQuit
  <2>2. CASE PackageDialog
    BY <2>1, <2>2
       DEF PackageDialog, OpenDialog, Cancel, AddPackageInfo, PackageReload, PackageRemove,
           PackageEnable, PackageMove, EnableDisableAll, DialogEdit
  <2>3. CASE CommandLine
    BY <2>3 DEF CommandLine, BeginOptions, BeginLoad, OptionTemp, KeyError, EndOptions, EndLoad,
                Add, OptionReload, OptionRemove
  <2>4. CASE Rebuild \/ Lookup
    BY <2>4 DEF Rebuild, Clear, Fill, Rebuilt, Lookup, BeginLookup, LookupItem, LookupRaises,
                LookupEnd, LookupReturns
  <2>5. ASSUME NEW u \in Urls, NEW c \in Contents \cup {None}, DiskChanges(u, c)
        PROVE  file' = file
    BY <2>5 DEF DiskChanges
  <2> QED
    BY <1>1, <2>1, <2>2, <2>3, <2>4, <2>5 DEF PackageStep
<1>2. ASSUME NEW m \in {"gui", "cmd"}, Start(m) PROVE file' = file
  BY <1>2 DEF Start
<1>3. CASE Quit \/ RunAgain \/ Gone \/ Killed
  BY <1>3 DEF Quit, RunAgain, PackagesClose, Gone, Killed, End, PackagesGone, packageVars
<1>4. CASE PackagesTurn
  BY <1>1, <1>4 DEF PackagesTurn
<1>5. CASE PluginsTurn \/ UNCHANGED allVars
  BY <1>5 DEF PluginsTurn, allVars, packageVars
<1> QED
  BY <1>2, <1>3, <1>4, <1>5 DEF ConfigurationNext

\* CommandLineNotPersistent: no command line run and no API session changes the
\* file with the packages of the GUI.
THEOREM CommandLineNeverPersistent == ConfigurationSpec => CommandLineNotPersistent
<1>1. PackagesInv /\ [ConfigurationNext]_allVars =>
        [(mode \in {"cmd", "close"}) => (file' = file)]_packageVars
  BY FileKept
<1> QED
  BY <1>1, AlwaysInv, PTL DEF ConfigurationSpec, CommandLineNotPersistent
-----------------------------------------------------------------------------
(* Mapping a url *)

\* Two prefixes of a url that are equally long are the same.
LEMMA PrefixesEqual ==
  ASSUME NEW E, NEW s \in Seq(E), NEW t \in Seq(E), NEW u \in Seq(E),
         IsPrefix(s, u), IsPrefix(t, u), Len(s) = Len(t)
  PROVE  s = t
<1>1. SubSeq(s, 1, Len(s)) = SubSeq(u, 1, Len(s))
  BY DEF IsPrefix
<1>2. SubSeq(t, 1, Len(t)) = SubSeq(u, 1, Len(t))
  BY DEF IsPrefix
<1>3. SubSeq(s, 1, Len(s)) = s /\ SubSeq(t, 1, Len(t)) = t
  OBVIOUS
<1> QED
  BY <1>1, <1>2, <1>3

\* What was met of the remappings, while nobody changes them: the longest start
\* string that fits, and none whose target is the beginning of the url.
Met ==
    /\ \A q \in look.seen : IsPrefix(q, look.url) =>
         /\ ~IsPrefix(remappings[q], look.url)
         /\ look.best # None /\ Len(q) <= Len(look.best)
    /\ look.best # None =>
         /\ look.best \in look.seen /\ IsPrefix(look.best, look.url)
         /\ look.to = remappings[look.best]

\* Also the url is mapped already.
Already == \E p \in Keys(remappings) : IsPrefix(p, look.url) /\ IsPrefix(remappings[p], look.url)

Undisturbed ==
    /\ task \notin {"clear", "fill"}
    /\ look.state # "raised"
    /\ look.size = Cardinality(Keys(remappings))
    /\ look.seen \subseteq Keys(remappings)
    /\ look.state = "run" => Met
    /\ look.state = "mapped" => Met /\ look.seen = Keys(remappings)
    /\ look.state = "same" =>
         Already \/ (Met /\ look.seen = Keys(remappings) /\ look.best = None)

\* The invariant of a mapping, while it goes on.
LookupInv ==
    /\ mode \in {"off", "close"} => look = None
    /\ mode = "cmd" /\ task # "idle" => look = None
    /\ look # None =>
         /\ Items(remappings) \cup Pairs(packages) \subseteq look.offered
         /\ look.best # None => <<look.best, look.to>> \in look.offered
         /\ look.state = "mapped" => look.best # None
         /\ ~look.disturbed => Undisturbed

\* The invariant gives the right answer.
LEMMA LookupInvRight ==
  ASSUME PackagesTypeOK, LookupInv
  PROVE  LookupRight
<1> SUFFICES ASSUME look # None
             PROVE  /\ look.state = "mapped" => <<look.best, look.to>> \in look.offered
                    /\ look.state = "raised" => look.disturbed
                    /\ look.state \in {"mapped", "same"} /\ ~look.disturbed =>
                         MappedUrl = RightAnswer
  BY DEF LookupRight
<1>1. look.state = "mapped" => <<look.best, look.to>> \in look.offered
  BY DEF LookupInv
<1>2. look.state = "raised" => look.disturbed
  BY DEF LookupInv, Undisturbed
<1>3. look.url \in Seq(Characters)
  BY PackagesAssumption DEF PackagesTypeOK, Lookups
<1>4. Keys(remappings) \subseteq Seq(Characters)
  BY PackagesAssumption DEF Keys
<1>5. ASSUME look.state = "mapped", ~look.disturbed PROVE MappedUrl = RightAnswer
  <2>1. Met /\ look.seen = Keys(remappings) /\ look.best # None
    BY <1>5 DEF LookupInv, Undisturbed
  <2>2. look.best \in Matching
    BY <2>1 DEF Met, Matching
  <2>3. \A q \in Matching : Len(q) <= Len(look.best) /\ ~IsPrefix(remappings[q], look.url)
    BY <2>1 DEF Met, Matching
  <2> DEFINE longest == CHOOSE p \in Matching : \A q \in Matching : Len(q) <= Len(p)
  <2>4. longest \in Matching /\ \A q \in Matching : Len(q) <= Len(longest)
    BY <2>2, <2>3
  <2>5. longest = look.best
    <3>1. IsPrefix(longest, look.url) /\ IsPrefix(look.best, look.url)
      BY <2>2, <2>4 DEF Matching
    <3>2. longest \in Seq(Characters) /\ look.best \in Seq(Characters)
      BY <1>4, <2>2, <2>4 DEF Matching
    <3>3. Len(longest) = Len(look.best)
      BY <2>2, <2>3, <2>4, <3>2
    <3> QED
      BY <1>3, <3>1, <3>2, <3>3, PrefixesEqual
  <2>6. RightAnswer =
          remappings[longest] \o SubSeq(look.url, Len(longest) + 1, Len(look.url))
    BY <2>2, <2>3 DEF RightAnswer
  <2>7. look.to = remappings[look.best]
    BY <2>1 DEF Met
  <2> HIDE DEF longest
  <2> QED
    BY <1>5, <2>5, <2>6, <2>7 DEF MappedUrl
<1>6. ASSUME look.state = "same", ~look.disturbed PROVE MappedUrl = RightAnswer
  <2>1. MappedUrl = look.url
    BY <1>6 DEF MappedUrl
  <2>2. CASE Already
    BY <2>1, <2>2 DEF Already, RightAnswer, Matching
  <2>3. CASE Met /\ look.seen = Keys(remappings) /\ look.best = None
    BY <2>1, <2>3 DEF Met, RightAnswer, Matching
  <2> QED
    BY <1>6, <2>2, <2>3 DEF LookupInv, Undisturbed
<1> QED
  BY <1>1, <1>2, <1>5, <1>6

\* A mapping that other steps leave alone.
LEMMA LookupFrame ==
  ASSUME LookupInv, UNCHANGED <<packages, remappings, look>>,
         mode' \in {"off", "close"} => look = None,
         mode' = "cmd" /\ task' # "idle" => look = None,
         look # None /\ task' \in {"clear", "fill"} => task \in {"clear", "fill"}
  PROVE  LookupInv'
BY DEF LookupInv, Undisturbed, Met, Already, Items, Keys, Pairs, Maps

LEMMA LookupGone ==
  ASSUME look' = None
  PROVE  LookupInv'
BY DEF LookupInv

\* The steps of a mapping.
LEMMA LookupSteps ==
  ASSUME PackagesInv, LookupInv, Lookup
  PROVE  LookupInv'
<1> SUFFICES ASSUME look' # None PROVE LookupInv'
  BY LookupGone
<1> USE DEF PackagesInv, memory, work
<1>1. ASSUME NEW url \in Asked, BeginLookup(url) PROVE LookupInv'
  <2>1. /\ look'.best = None /\ look'.state = "run" /\ look'.seen = {}
        /\ look'.size = Cardinality(Keys(remappings))
        /\ look'.offered = Items(remappings) \cup Pairs(packages)
        /\ look'.disturbed = (task \in {"clear", "fill"})
        /\ UNCHANGED <<packages, remappings, task, mode>>
    BY <1>1 DEF BeginLookup
  <2>2. /\ Items(remappings)' \cup Pairs(packages)' = Items(remappings) \cup Pairs(packages)
        /\ Keys(remappings)' = Keys(remappings)
    BY <2>1 DEF Items, Keys, Pairs, Maps
  <2>3. ~look'.disturbed => Undisturbed'
    BY <2>1, <2>2 DEF Undisturbed, Met
  <2> QED
    BY <1>1, <2>1, <2>2, <2>3 DEF BeginLookup, LookupInv
<1>2. ASSUME NEW p \in StartStrings, LookupItem(p) PROVE LookupInv'
  <2>1. /\ look \in Lookups /\ look # None /\ p \in Keys(remappings) \ look.seen
        /\ look.state = "run"
    BY <1>2 DEF LookupItem, Running, PackagesTypeOK
  <2> DEFINE fits == IsPrefix(p, look.url)
             already == fits /\ IsPrefix(remappings[p], look.url)
             better == fits /\ (look.best = None \/ Len(p) > Len(look.best))
  <2>2. /\ look'.url = look.url /\ look'.size = look.size
        /\ look'.offered = look.offered /\ look'.disturbed = look.disturbed
        /\ look'.seen = look.seen \cup {p}
        /\ look'.state = IF already THEN "same" ELSE "run"
        /\ look'.best = IF better THEN p ELSE look.best
        /\ look'.to = IF better THEN remappings[p] ELSE look.to
    BY <1>2, <2>1 DEF LookupItem, Lookups
  <2>3. UNCHANGED <<packages, remappings, task, mode>>
    BY <1>2 DEF LookupItem
  <2>4. <<p, remappings[p]>> \in look.offered
    BY <2>1 DEF LookupInv, Items
  <2>5. ASSUME ~look.disturbed PROVE Undisturbed'
    <3>1. Undisturbed /\ Met
      BY <2>1, <2>5 DEF LookupInv, Undisturbed
    <3>2. look'.seen \subseteq Keys(remappings)
      BY <2>1, <2>2, <3>1 DEF Undisturbed
    <3>3. CASE already
      <4>1. Already'
        BY <2>1, <2>2, <2>3, <3>3 DEF Already, Keys
      <4> QED
        BY <2>2, <2>3, <3>1, <3>2, <3>3, <4>1 DEF Undisturbed, Keys
    <3>4. CASE ~already
      <4>1. /\ look.best # None => look.best \in StartStrings
            /\ look.seen \subseteq StartStrings /\ p \in StartStrings /\ p # None
            /\ \A q \in StartStrings : Len(q) \in Nat
        <5>1. \A q \in StartStrings : Len(q) \in Nat
          BY PackagesAssumption
        <5> QED
          BY <2>1, <5>1, PackagesAssumption DEF Lookups
      <4>2. ASSUME NEW q \in look'.seen, IsPrefix(q, look.url)
            PROVE  /\ ~IsPrefix(remappings[q], look.url)
                   /\ look'.best # None /\ Len(q) <= Len(look'.best)
        <5>1. CASE q = p
          BY <2>2, <3>4, <4>1, <4>2, <5>1
        <5>2. CASE q \in look.seen
          BY <2>2, <3>1, <4>1, <4>2, <5>2 DEF Met
        <5> QED
          BY <2>2, <4>2, <5>1, <5>2
      <4>3. ASSUME look'.best # None
            PROVE  /\ look'.best \in look'.seen /\ IsPrefix(look'.best, look.url)
                   /\ look'.to = remappings[look'.best]
        BY <2>2, <3>1, <4>3 DEF Met
      <4>4. Met'
        BY <2>2, <2>3, <4>2, <4>3 DEF Met
      <4> QED
        BY <2>2, <2>3, <3>1, <3>2, <3>4, <4>4 DEF Undisturbed, Keys
    <3> QED
      BY <3>3, <3>4
  <2>6. Items(remappings)' \cup Pairs(packages)' = Items(remappings) \cup Pairs(packages)
    BY <2>3 DEF Items, Keys, Pairs, Maps
  <2>7. look'.best # None => <<look'.best, look'.to>> \in look'.offered
    BY <2>1, <2>2, <2>4 DEF LookupInv
  <2> QED
    BY <2>1, <2>2, <2>3, <2>5, <2>6, <2>7 DEF LookupInv
<1>3. CASE LookupRaises
  <2>1. look \in Lookups /\ look # None /\ look.disturbed
    BY <1>3 DEF LookupRaises, Running, PackagesTypeOK, LookupInv, Undisturbed
  <2>2. look' = [look EXCEPT !.state = "raised"]
    BY <1>3 DEF LookupRaises
  <2> QED
    BY <1>3, <2>1, <2>2 DEF LookupRaises, LookupInv, Lookups, Items, Keys, Pairs, Maps
<1>4. CASE LookupEnd
  <2>1. look \in Lookups /\ look # None /\ look.state = "run"
    BY <1>4 DEF LookupEnd, Running, PackagesTypeOK
  <2>2. UNCHANGED <<packages, remappings, task, mode>>
    BY <1>4 DEF LookupEnd
  <2>3. /\ look'.url = look.url /\ look'.size = look.size
        /\ look'.offered = look.offered /\ look'.disturbed = look.disturbed
        /\ look'.seen = look.seen /\ look'.best = look.best /\ look'.to = look.to
        /\ look'.state = IF look.best = None THEN "same" ELSE "mapped"
    BY <1>4, <2>1 DEF LookupEnd, Lookups
  <2>4. ASSUME ~look.disturbed PROVE Undisturbed'
    <3>1. Undisturbed /\ Met /\ look.seen = Keys(remappings)
      BY <1>4, <2>1, <2>4 DEF LookupEnd, LookupInv, Undisturbed
    <3>2. Met' /\ Keys(remappings)' = Keys(remappings)
      BY <2>2, <2>3, <3>1 DEF Met, Keys
    <3> QED
      BY <2>2, <2>3, <3>1, <3>2 DEF Undisturbed
  <2>5. Items(remappings)' \cup Pairs(packages)' = Items(remappings) \cup Pairs(packages)
    BY <2>2 DEF Items, Keys, Pairs, Maps
  <2> QED
    BY <2>1, <2>2, <2>3, <2>4, <2>5 DEF LookupInv
<1>5. CASE LookupReturns
  BY <1>5, LookupGone DEF LookupReturns
<1> QED
  BY <1>1, <1>2, <1>3, <1>4, <1>5 DEF Lookup

\* What rebuildRemappings adds are remappings of enabled packages.
LEMMA LookupRebuild ==
  ASSUME PackagesInv, LookupInv, Rebuild
  PROVE  LookupInv'
<1> USE DEF PackagesInv
<1>1. CASE look = None
  BY <1>1, LookupGone DEF Rebuild, Clear, Fill, Rebuilt, Disturb
<1>2. CASE look # None /\ (Clear \/ Fill)
  <2>1. /\ look' = [look EXCEPT !.disturbed = TRUE] /\ look \in Lookups
        /\ UNCHANGED <<packages, mode>> /\ task # "idle"
    BY <1>2 DEF Clear, Fill, Disturb, PackagesTypeOK
  <2>2. look'.disturbed /\ look'.offered = look.offered /\ look'.state = look.state
        /\ look'.best = look.best /\ look'.to = look.to
    BY <2>1 DEF Lookups
  <2>3. Items(remappings)' \subseteq Items(remappings) \cup Pairs(packages)
    <3>1. CASE Clear
      BY <3>1 DEF Clear, Items, Keys, NoRemappings
    <3>2. CASE Fill
      <4>1. next \in DOMAIN packages
        BY <3>2 DEF Fill, PackagesTypeOK
      <4> QED
        BY <3>2, <4>1 DEF Fill, Items, Keys, Pairs
    <3> QED
      BY <1>2, <3>1, <3>2
  <2>4. Pairs(packages)' = Pairs(packages)
    BY <2>1 DEF Pairs, Maps
  <2>5. mode \notin {"cmd", "off", "close"}
    BY <1>2, <2>1 DEF LookupInv
  <2> QED
    BY <1>2, <2>1, <2>2, <2>3, <2>4, <2>5 DEF LookupInv
<1>3. CASE Rebuilt
  BY <1>3, LookupFrame DEF Rebuilt, LookupInv
<1> QED
  BY <1>1, <1>2, <1>3 DEF Rebuild

\* An edit of the dialog tells the mapping what it may meet.
LEMMA LookupEdit ==
  ASSUME PackagesInv, LookupInv, NEW pk \in Seq(Entry), DialogEdit(pk)
  PROVE  LookupInv'
<1> USE DEF PackagesInv
<1>1. CASE look = None
  BY <1>1, LookupGone DEF DialogEdit, Offer
<1>2. CASE look # None
  <2>1. /\ look' = [look EXCEPT !.offered = look.offered \cup Pairs(pk), !.disturbed = TRUE]
        /\ look \in Lookups
        /\ UNCHANGED <<remappings, mode>> /\ packages' = pk /\ mode = "gui"
    BY <1>2 DEF DialogEdit, Offer, PackagesTypeOK
  <2>2. look'.disturbed /\ look'.offered = look.offered \cup Pairs(pk)
        /\ look'.state = look.state /\ look'.best = look.best /\ look'.to = look.to
    BY <2>1 DEF Lookups
  <2>3. Items(remappings)' = Items(remappings) /\ Pairs(packages)' = Pairs(pk)
    BY <2>1 DEF Items, Keys, Pairs, Maps
  <2> QED
    BY <1>2, <2>1, <2>2, <2>3 DEF LookupInv
<1> QED
  BY <1>1, <1>2

LEMMA LookupPackageStep ==
  ASSUME PackagesInv, LookupInv, PackageStep
  PROVE  LookupInv'
<1> USE DEF PackagesInv
<1>1. CASE OpenDialog \/ Cancel \/ OK \/ WriteFile \/ SaveAtQuit
  BY <1>1, LookupFrame
     DEF OpenDialog, Cancel, OK, WriteFile, SaveAtQuit, OpenFile, Ready, LookupInv, work
<1>2. ASSUME NEW u \in Urls, AddPackageInfo(u) PROVE LookupInv'
  <2> DEFINE rest == WithoutInfo(packages, Identifier[disk[u]], Version[disk[u]])
  <2>1. PackageInfo(u) \in Entry
    BY <1>2, AddPackageType DEF AddPackageInfo
  <2>2. rest \in Seq(Entry)
    BY WithoutInfoType DEF PackagesTypeOK
  <2>3. Append(rest, PackageInfo(u)) \in Seq(Entry)
    BY <2>1, <2>2, AppendProperties
  <2> QED
    BY <1>2, <2>3, LookupEdit DEF AddPackageInfo
<1>3. ASSUME NEW i \in DOMAIN packages, PackageReload(i) PROVE LookupInv'
  <2>1. packages[i].url \in Urls
    BY <1>3, UrlType
  <2> QED
    BY <1>2, <1>3, <2>1 DEF PackageReload
<1>4. ASSUME NEW i \in DOMAIN packages, PackageRemove(i) PROVE LookupInv'
  <2>1. WithoutInfo(packages, Identifier[packages[i].content], Version[packages[i].content])
          \in Seq(Entry)
    BY WithoutInfoType DEF PackagesTypeOK
  <2> QED
    BY <1>4, <2>1, LookupEdit DEF PackageRemove
<1>5. ASSUME NEW i \in DOMAIN packages, PackageEnable(i) \/ PackageMove(i) PROVE LookupInv'
  BY <1>5, EditTypes, LookupEdit DEF PackageEnable, PackageMove
<1>6. ASSUME NEW b \in BOOLEAN, EnableDisableAll(b) PROVE LookupInv'
  BY <1>6, EditTypes, LookupEdit DEF EnableDisableAll
<1>7. CASE BeginOptions \/ BeginLoad
  BY <1>7, LookupGone DEF BeginOptions, BeginLoad, Ready
<1>8. CASE CommandLine /\ ~BeginOptions /\ ~BeginLoad
  <2>1. task \in {"options", "load"} /\ look' = look
    BY <1>8 DEF CommandLine, OptionTemp, KeyError, EndOptions, EndLoad, Add, OptionReload,
                OptionRemove
  <2> QED
    BY <2>1, LookupGone DEF LookupInv
<1>9. ASSUME NEW u \in Urls, NEW c \in Contents \cup {None}, DiskChanges(u, c)
      PROVE  LookupInv'
  BY <1>9, LookupFrame DEF DiskChanges, LookupInv, memory, work
<1> QED
  BY <1>1, <1>2, <1>3, <1>4, <1>5, <1>6, <1>7, <1>8, <1>9, LookupRebuild, LookupSteps
     DEF PackageStep, PackageDialog

LEMMA LookupStep ==
  ASSUME PackagesInv, LookupInv, [ConfigurationNext]_allVars
  PROVE  LookupInv'
<1>1. ASSUME NEW m \in {"gui", "cmd"}, Start(m) PROVE LookupInv'
  BY <1>1, LookupGone DEF Start, PackagesStart, LookupInv, packageVars
<1>2. CASE Quit
  BY <1>2, LookupFrame DEF Quit, Ready, LookupInv, packageVars
<1>3. CASE RunAgain \/ Gone \/ Killed
  BY <1>3, LookupGone DEF RunAgain, PackagesClose, Gone, Killed, End, PackagesGone, NoMemory
<1>4. CASE PackagesTurn
  BY <1>4, LookupPackageStep DEF PackagesTurn
<1>5. CASE PluginsTurn
  BY <1>5, PluginStepFrame, LookupFrame DEF PluginsTurn, LookupInv, packageVars
<1>6. CASE UNCHANGED allVars
  BY <1>6, LookupFrame DEF LookupInv, allVars, packageVars
<1> QED
  BY <1>1, <1>2, <1>3, <1>4, <1>5, <1>6 DEF ConfigurationNext

\* LookupRight: what a thread maps a url to while the UI thread edits the packages
\* is a remapping of a package enabled meanwhile, and the longest that fits when
\* nothing was edited.
THEOREM LookupCorrect == ConfigurationSpec => []LookupRight
<1>1. ConfigurationInit => LookupInv
  BY DEF ConfigurationInit, PackagesInit, LookupInv
<1>2. PackagesInv /\ LookupInv /\ [ConfigurationNext]_allVars => LookupInv'
  BY LookupStep
<1>3. PackagesInv /\ LookupInv => LookupRight
  BY LookupInvRight DEF PackagesInv
<1> QED
  BY <1>1, <1>2, <1>3, AlwaysInv, PTL DEF ConfigurationSpec

-----------------------------------------------------------------------------
(* The configuration of plug-ins *)

LEMMA ObjectFacts ==
  /\ \A o \in Objects : /\ o[1] \in Plugins /\ o[2] \in Plugins /\ o = <<o[1], o[2]>>
                        /\ o # None /\ (o[1] # o[2] => o[2] \in Imports[o[1]])
  /\ \A n \in Plugins : <<n, n>> \in Objects
  /\ \A m \in Plugins : \A n \in Imports[m] : <<m, n>> \in Objects /\ n \in Plugins
<1>1. \A m \in Plugins : Imports[m] \in SUBSET Plugins
  BY PluginsAssumption
<1>2. \A o \in Objects : o \in Plugins \X Plugins
  BY <1>1 DEF Objects
<1>3. \A o \in Objects : o # None
  BY <1>2, PluginsAssumption
<1>4. \A o \in Objects : o[1] # o[2] => o[2] \in Imports[o[1]]
  BY DEF Objects
<1> QED
  BY <1>1, <1>2, <1>3, <1>4 DEF Objects

\* What a configuration is made of.
LEMMA ConfigFacts ==
  ASSUME NEW c \in Config
  PROVE  /\ c.infos \in [Objects -> Info \cup {None}]
         /\ c.modules \in [Plugins -> Plugins \cup {None}]
         /\ c.classes \in [Hooks -> SUBSET Plugins]
         /\ Known(c) \subseteq Plugins /\ Enabled(c) \subseteq Known(c)
         /\ \A n \in Known(c) : c.modules[n] \in Plugins
         /\ \A n \in Plugins \ Known(c) : c.modules[n] = None
         /\ None \notin Info /\ None \notin Plugins
BY PluginsAssumption DEF Config, Known, Enabled, Info

LEMMA NoConfigThere == NoConfig \in Config /\ InfosThere(NoConfig) /\ Known(NoConfig) = {}
<1>1. NoConfig \in Config
  BY DEF NoConfig, Config
<1>2. Known(NoConfig) = {}
  BY DEF NoConfig, Known
<1> QED
  BY <1>1, <1>2 DEF InfosThere

\* A configuration whose entries are fewer has the infos of those that are left.
LEMMA WithoutThere ==
  ASSUME NEW c \in Config, InfosThere(c), NEW removed \in SUBSET Plugins
  PROVE  /\ Without(c, removed) \in Config /\ InfosThere(Without(c, removed))
         /\ Without(c, removed).infos = c.infos
<1> DEFINE w == Without(c, removed)
<1>1. /\ w.infos = c.infos
      /\ w.modules \in [Plugins -> Plugins \cup {None}]
      /\ \A x \in Plugins : w.modules[x] \in {None, c.modules[x]}
  BY ConfigFacts DEF Without, Config
<1>2. w.classes \in [Hooks -> SUBSET Plugins]
  <2>1. \A h \in Hooks : c.classes[h] \in SUBSET Plugins
    BY ConfigFacts
  <2> QED
    BY <2>1 DEF Without, Config
<1>3. w \in Config
  BY <1>1, <1>2, ConfigFacts DEF Without, Config
<1>4. InfosThere(w)
  <2> SUFFICES ASSUME NEW n \in Known(w)
               PROVE  <<w.modules[n], n>> \in Objects /\ ModuleInfo(w, n) # None
    BY DEF InfosThere
  <2>1. n \in Plugins /\ w.modules[n] # None
    BY DEF Known
  <2>2. w.modules[n] = c.modules[n] /\ n \in Known(c)
    BY <1>1, <2>1 DEF Known
  <2> QED
    BY <1>1, <2>2 DEF InfosThere, ModuleInfo
<1> QED
  BY <1>1, <1>3, <1>4

\* Parsed gives each plug-in that is parsed an object of its own, and takes none
\* from an entry.
LEMMA ParsedThere ==
  ASSUME NEW c \in Config, InfosThere(c), NEW parsed \in SUBSET Plugins,
         code \in [Plugins -> CodeVersions \cup {None}], \A n \in parsed : code[n] # None
  PROVE  /\ Parsed(c, parsed) \in Config /\ InfosThere(Parsed(c, parsed))
         /\ \A n \in parsed : Parsed(c, parsed).infos[<<n, n>>] # None
         /\ \A o \in Objects : o[1] \notin parsed /\ c.infos[o] # None =>
              Parsed(c, parsed).infos[o] # None
<1> DEFINE p == Parsed(c, parsed)
           left == {k \in Known(c) \ parsed : c.modules[k] \in parsed}
           New(o) == [on |-> TRUE, version |-> code[o[2]], imported |-> o[2] # o[1]]
<1>1. ASSUME NEW o \in Objects, code[o[2]] # None PROVE New(o) \in Info /\ New(o) # None
  <2>1. code[o[2]] \in CodeVersions
    BY <1>1, ObjectFacts
  <2>2. New(o) \in Info
    BY <2>1 DEF Info
  <2> QED
    BY <2>2, ConfigFacts DEF Info, PluginsAssumption
<1>2. /\ p.infos = [o \in Objects |->
                      IF o[1] \in parsed THEN IF code[o[2]] = None THEN None ELSE New(o)
                      ELSE IF o[1] = o[2] /\ o[1] \in left THEN ModuleInfo(c, o[1])
                           ELSE c.infos[o]]
      /\ p.modules = [k \in Plugins |-> IF k \in left THEN k ELSE c.modules[k]]
      /\ p.classes = c.classes
  BY ConfigFacts DEF Parsed, Config
<1>3. ASSUME NEW k \in left
      PROVE  k \in Plugins /\ ModuleInfo(c, k) \in Info /\ ModuleInfo(c, k) # None
  BY <1>3, ConfigFacts DEF InfosThere, ModuleInfo
<1> HIDE DEF New, left
<1>4. p.infos \in [Objects -> Info \cup {None}]
  <2> SUFFICES ASSUME NEW o \in Objects PROVE p.infos[o] \in Info \cup {None}
    BY <1>2
  <2>1. CASE o[1] \in parsed
    BY <1>1, <1>2, <2>1
  <2>2. CASE o[1] \notin parsed
    BY <1>2, <1>3, <2>2, ConfigFacts
  <2> QED
    BY <2>1, <2>2
<1>5. p.modules \in [Plugins -> Plugins \cup {None}]
  BY <1>2, <1>3, ConfigFacts
<1>6. p \in Config
  BY <1>2, <1>4, <1>5, ConfigFacts DEF Parsed, Config
<1>7. ASSUME NEW n \in parsed PROVE p.infos[<<n, n>>] # None
  <2>1. <<n, n>> \in Objects
    BY ObjectFacts
  <2> QED
    BY <1>1, <1>2, <2>1
<1>8. ASSUME NEW o \in Objects, o[1] \notin parsed, c.infos[o] # None PROVE p.infos[o] # None
  BY <1>2, <1>3, <1>8
<1>9. InfosThere(p)
  <2> SUFFICES ASSUME NEW n \in Known(p)
               PROVE  <<p.modules[n], n>> \in Objects /\ p.infos[<<p.modules[n], n>>] # None
    BY DEF InfosThere, ModuleInfo
  <2>1. n \in Plugins /\ p.modules[n] # None /\ <<n, n>> \in Objects
    BY ObjectFacts DEF Known
  <2>2. CASE n \in left
    <3>1. n \notin parsed
      BY <2>2 DEF left
    <3> QED
      BY <1>2, <1>3, <2>1, <2>2, <3>1
  <2>3. CASE n \notin left
    <3>1. p.modules[n] = c.modules[n] /\ n \in Known(c)
      BY <1>2, <2>1, <2>3 DEF Known
    <3>2. <<c.modules[n], n>> \in Objects /\ c.infos[<<c.modules[n], n>>] # None
      BY <3>1 DEF InfosThere, ModuleInfo
    <3>3. CASE c.modules[n] \notin parsed
      BY <1>8, <3>1, <3>2, <3>3
    <3>4. CASE c.modules[n] \in parsed
      <4>1. n \in parsed
        BY <2>3, <3>1, <3>4 DEF left
      <4> QED
        BY <1>1, <1>2, <3>1, <3>2, <3>4, <4>1
    <3> QED
      BY <3>3, <3>4
  <2> QED
    BY <2>2, <2>3
<1> QED
  BY <1>6, <1>7, <1>8, <1>9

LEMMA PointedThere ==
  ASSUME NEW c \in Config, InfosThere(c), NEW n \in Plugins, c.infos[<<n, n>>] # None
  PROVE  /\ Pointed(c, n) \in Config /\ InfosThere(Pointed(c, n))
         /\ Pointed(c, n).infos = c.infos
<1> DEFINE p == Pointed(c, n)
           pointed == {x \in Plugins : x = n \/ (x \in Imports[n] /\ c.infos[<<n, x>>] # None)}
<1>1. /\ p.infos = c.infos /\ p.classes = c.classes
      /\ p.modules = [x \in Plugins |-> IF x \in pointed THEN n ELSE c.modules[x]]
  BY ConfigFacts DEF Pointed, Config
<1>2. p \in Config
  BY <1>1, ConfigFacts DEF Pointed, Config
<1>3. \A x \in pointed : <<n, x>> \in Objects /\ c.infos[<<n, x>>] # None
  BY ObjectFacts
<1>4. InfosThere(p)
  <2> SUFFICES ASSUME NEW x \in Known(p)
               PROVE  <<p.modules[x], x>> \in Objects /\ c.infos[<<p.modules[x], x>>] # None
    BY <1>1 DEF InfosThere, ModuleInfo
  <2>1. x \in Plugins /\ p.modules[x] # None
    BY DEF Known
  <2>2. CASE x \in pointed
    BY <1>1, <1>3, <2>1, <2>2
  <2>3. CASE x \notin pointed
    <3>1. p.modules[x] = c.modules[x] /\ x \in Known(c)
      BY <1>1, <2>1, <2>3 DEF Known
    <3> QED
      BY <3>1 DEF InfosThere, ModuleInfo
  <2> QED
    BY <2>2, <2>3
<1> QED
  BY <1>1, <1>2, <1>4

\* Names that are added to the classes change nothing else.
LEMMA ClassesThere ==
  ASSUME NEW c \in Config, InfosThere(c), NEW cl \in [Hooks -> SUBSET Plugins]
  PROVE  /\ [c EXCEPT !.classes = cl] \in Config /\ InfosThere([c EXCEPT !.classes = cl])
         /\ [c EXCEPT !.classes = cl].infos = c.infos
BY ConfigFacts DEF Config, InfosThere, Known, ModuleInfo

\* What adding a plug-in makes of a configuration, from the command line or in
\* the dialog.
LEMMA AddedThere ==
  ASSUME NEW c \in Config, InfosThere(c), NEW n \in Plugins,
         code \in [Plugins -> CodeVersions \cup {None}], code[n] # None
  PROVE  \A d \in {Added(c, n), AddedByDialog(c, n)} :
           /\ d \in Config /\ InfosThere(d)
           /\ \A o \in Objects : o[1] # n /\ c.infos[o] # None => d.infos[o] # None
<1> {n} \in SUBSET Plugins
  OBVIOUS
<1>1. ASSUME NEW old \in Config, InfosThere(old), old.infos = c.infos
      PROVE  LET new == Pointed(Parsed(old, {n}), n)
             IN  /\ new \in Config /\ InfosThere(new)
                 /\ \A o \in Objects : o[1] # n /\ c.infos[o] # None => new.infos[o] # None
  <2> DEFINE p == Parsed(old, {n})
  <2>1. /\ p \in Config /\ InfosThere(p) /\ p.infos[<<n, n>>] # None
        /\ \A o \in Objects : o[1] # n /\ c.infos[o] # None => p.infos[o] # None
    BY <1>1, ParsedThere
  <2> HIDE DEF p
  <2>2. Pointed(p, n) \in Config /\ InfosThere(Pointed(p, n)) /\ Pointed(p, n).infos = p.infos
    BY <2>1, PointedThere
  <2> QED
    BY <2>1, <2>2 DEF p
<1>2. ASSUME NEW old \in {c, Without(c, {n})}
      PROVE  old \in Config /\ InfosThere(old) /\ old.infos = c.infos
  BY <1>2, WithoutThere
<1>3. ASSUME NEW new \in Config, NEW S \in SUBSET Plugins, NEW T \in SUBSET Plugins
      PROVE  /\ [h \in Hooks |-> new.classes[h] \cup {x \in S : h \in Declares[x][code[x]]}]
                  \in [Hooks -> SUBSET Plugins]
             /\ [h \in Hooks |->
                   LET own == new.classes[h] \cup {x \in {n} : h \in Declares[x][code[x]]}
                   IN  own \cup {x \in T : h \in Declares[x][code[x]] /\ n \notin own}]
                  \in [Hooks -> SUBSET Plugins]
  <2>1. \A h \in Hooks : new.classes[h] \in SUBSET Plugins
    BY ConfigFacts
  <2> QED
    BY <2>1
<1>4. ASSUME NEW d \in Config
      PROVE  ImportsOf(d, n) \in SUBSET Plugins /\ {n} \cup ImportsOf(d, n) \in SUBSET Plugins
  BY PluginsAssumption DEF ImportsOf
<1>5. Added(c, n) \in Config /\ InfosThere(Added(c, n))
      /\ \A o \in Objects : o[1] # n /\ c.infos[o] # None => Added(c, n).infos[o] # None
  <2> DEFINE old == IF n \in Known(c) THEN Without(c, {n}) ELSE c
             new == Pointed(Parsed(old, {n}), n)
             cl == [h \in Hooks |-> new.classes[h] \cup
                      {x \in {n} \cup ImportsOf(new, n) : h \in Declares[x][code[x]]}]
  <2>1. old \in Config /\ InfosThere(old) /\ old.infos = c.infos
    BY <1>2
  <2>2. /\ new \in Config /\ InfosThere(new)
        /\ \A o \in Objects : o[1] # n /\ c.infos[o] # None => new.infos[o] # None
    BY <1>1, <2>1
  <2>3. cl \in [Hooks -> SUBSET Plugins]
    BY <1>3, <1>4, <2>2
  <2>4. Added(c, n) = [new EXCEPT !.classes = cl]
    BY DEF Added
  <2> HIDE DEF new, cl
  <2> QED
    BY <2>2, <2>3, <2>4, ClassesThere
<1>6. AddedByDialog(c, n) \in Config /\ InfosThere(AddedByDialog(c, n))
      /\ \A o \in Objects : o[1] # n /\ c.infos[o] # None => AddedByDialog(c, n).infos[o] # None
  <2> DEFINE old == IF n \in Known(c) /\ ~ModuleInfo(c, n).imported THEN Without(c, {n}) ELSE c
             new == Pointed(Parsed(old, {n}), n)
             cl == [h \in Hooks |->
                      LET own == new.classes[h] \cup {x \in {n} : h \in Declares[x][code[x]]}
                      IN  own \cup {x \in ImportsOf(new, n) : h \in Declares[x][code[x]]
                                                              /\ n \notin own}]
  <2>1. old \in Config /\ InfosThere(old) /\ old.infos = c.infos
    BY <1>2
  <2>2. /\ new \in Config /\ InfosThere(new)
        /\ \A o \in Objects : o[1] # n /\ c.infos[o] # None => new.infos[o] # None
    BY <1>1, <2>1
  <2>3. cl \in [Hooks -> SUBSET Plugins]
    BY <1>3, <1>4, <2>2
  <2>4. AddedByDialog(c, n) = [new EXCEPT !.classes = cl]
    BY DEF AddedByDialog
  <2> HIDE DEF new, cl
  <2> QED
    BY <2>2, <2>3, <2>4, ClassesThere
<1> QED
  BY <1>5, <1>6

\* The infos that are referred to stay.
LEMMA ReferredThere ==
  ASSUME NEW c \in Config, InfosThere(c)
  PROVE  /\ Referred(c) \in Config /\ InfosThere(Referred(c))
         /\ Enabled(Referred(c)) = Enabled(c) /\ Referred(c).classes = c.classes
         /\ Referred(c).modules = c.modules
         /\ lookup # None /\ lookup.loading \in Objects =>
              Referred(c).infos[lookup.loading] = c.infos[lookup.loading]
<1> DEFINE r == Referred(c)
<1>1. /\ r.modules = c.modules /\ r.classes = c.classes
      /\ r.infos \in [Objects -> Info \cup {None}]
      /\ \A o \in Objects : c.modules[o[2]] = o[1] => r.infos[o] = c.infos[o]
      /\ \A o \in Objects : lookup # None /\ lookup.loading # None /\ lookup.loading[1] = o[1]
           => r.infos[o] = c.infos[o]
  BY ConfigFacts DEF Referred, Config
<1>2. r \in Config
  BY <1>1, ConfigFacts DEF Referred, Config
<1>3. Known(r) = Known(c)
  BY <1>1 DEF Known
<1>4. \A n \in Known(c) : /\ <<c.modules[n], n>> \in Objects
                          /\ r.infos[<<c.modules[n], n>>] = c.infos[<<c.modules[n], n>>]
  BY <1>1 DEF InfosThere
<1>5. Enabled(r) = Enabled(c)
  BY <1>1, <1>3, <1>4 DEF Enabled, ModuleInfo
<1>6. InfosThere(r)
  BY <1>1, <1>3, <1>4 DEF InfosThere, ModuleInfo
<1>7. lookup # None /\ lookup.loading \in Objects => r.infos[lookup.loading] = c.infos[lookup.loading]
  BY <1>1, ObjectFacts
<1> QED
  BY <1>1, <1>2, <1>5, <1>6, <1>7

\* The file has an info of its own for each entry.
LEMMA AsWrittenThere ==
  ASSUME NEW c \in Config, InfosThere(c)
  PROVE  AsWritten(c) \in Config /\ InfosThere(AsWritten(c))
<1> DEFINE w == AsWritten(c)
<1>1. /\ w.modules = [n \in Plugins |-> IF n \in Known(c) THEN n ELSE None]
      /\ w.infos = [o \in Objects |->
           IF o[1] = o[2] THEN IF o[1] \in Known(c) THEN ModuleInfo(c, o[1]) ELSE None
           ELSE IF c.modules[o[1]] = o[1] THEN c.infos[o] ELSE None]
      /\ w.classes = c.classes
  BY ConfigFacts DEF AsWritten, Config
<1>2. \A n \in Known(c) : ModuleInfo(c, n) \in Info /\ ModuleInfo(c, n) # None
  BY ConfigFacts DEF InfosThere, ModuleInfo
<1>3. w.infos \in [Objects -> Info \cup {None}]
  BY <1>1, <1>2, ConfigFacts
<1>4. w \in Config
  BY <1>1, <1>3, ConfigFacts DEF AsWritten, Config
<1>5. InfosThere(w)
  <2> SUFFICES ASSUME NEW n \in Known(w)
               PROVE  <<w.modules[n], n>> \in Objects /\ w.infos[<<w.modules[n], n>>] # None
    BY DEF InfosThere, ModuleInfo
  <2>1. n \in Plugins /\ n \in Known(c) /\ w.modules[n] = n /\ <<n, n>> \in Objects
    BY <1>1, ObjectFacts DEF Known
  <2>2. w.infos[<<n, n>>] = ModuleInfo(c, n)
    BY <1>1, <2>1
  <2> QED
    BY <1>2, <2>1, <2>2
<1> QED
  BY <1>4, <1>5

\* Enabling and disabling infos that are there.
LEMMA SwitchedThere ==
  ASSUME NEW c \in Config, InfosThere(c), NEW on \in BOOLEAN, NEW switched,
         \A o \in switched : o \in Objects => c.infos[o] # None
  PROVE  LET d == [c EXCEPT !.infos = [o \in Objects |->
                     IF o \in switched THEN [@[o] EXCEPT !.on = on] ELSE @[o]]]
         IN  /\ d \in Config /\ InfosThere(d)
             /\ \A o \in Objects : c.infos[o] # None => d.infos[o] # None
<1> DEFINE d == [c EXCEPT !.infos = [o \in Objects |->
                   IF o \in switched THEN [@[o] EXCEPT !.on = on] ELSE @[o]]]
<1>1. /\ d.modules = c.modules /\ d.classes = c.classes
      /\ d.infos = [o \in Objects |->
           IF o \in switched THEN [c.infos[o] EXCEPT !.on = on] ELSE c.infos[o]]
  BY ConfigFacts DEF Config
<1>2. ASSUME NEW o \in Objects, o \in switched PROVE [c.infos[o] EXCEPT !.on = on] \in Info
  <2>1. c.infos[o] \in Info
    BY <1>2, ConfigFacts
  <2> QED
    BY <2>1 DEF Info
<1>3. d.infos \in [Objects -> Info \cup {None}]
  BY <1>1, <1>2, ConfigFacts
<1>4. d \in Config
  BY <1>1, <1>3, ConfigFacts DEF Config
<1>5. \A o \in Objects : c.infos[o] # None => d.infos[o] # None
  BY <1>1, <1>2, ConfigFacts
<1>6. InfosThere(d)
  BY <1>1, <1>5 DEF InfosThere, Known, ModuleInfo
<1> QED
  BY <1>4, <1>5, <1>6

\* The types and the entries: in memory, in the file, and of what is being loaded.
EntriesInv ==
    /\ PluginsTypeOK
    /\ InfosThere(config) /\ InfosThere(pluginsFile.config)
    /\ lookup # None /\ lookup.loading # None => config.infos[lookup.loading] # None

\* An edit of the dialog.
LEMMA PluginsEditEntries ==
  ASSUME EntriesInv, NEW c \in Config, InfosThere(c), PluginsEdit(c),
         lookup # None /\ lookup.loading # None => c.infos[lookup.loading] # None
  PROVE  EntriesInv'
<1>1. config' = Referred(c) /\ UNCHANGED <<lookup, pluginsFile>>
  BY DEF PluginsEdit
<1>2. Referred(c) \in Config /\ InfosThere(Referred(c))
  BY ReferredThere
<1>3. ASSUME lookup # None, lookup.loading # None PROVE Referred(c).infos[lookup.loading] # None
  <2>1. lookup.loading \in Objects
    BY <1>3 DEF EntriesInv, PluginsTypeOK, HookLookups
  <2> QED
    BY <1>3, <2>1, ReferredThere
<1>4. InfosThere(config)' /\ InfosThere(pluginsFile.config)'
  BY <1>1, <1>2 DEF EntriesInv, InfosThere, Known, ModuleInfo
<1>5. PluginsTypeOK'
  BY <1>2 DEF EntriesInv, PluginsTypeOK, PluginsEdit
<1> QED
  BY <1>1, <1>3, <1>4, <1>5 DEF EntriesInv

LEMMA PluginDialogEntries ==
  ASSUME EntriesInv, PluginDialog
  PROVE  EntriesInv'
<1> DEFINE Kept(c) == lookup # None /\ lookup.loading # None => c.infos[lookup.loading] # None
<1>1. /\ config \in Config /\ InfosThere(config) /\ Kept(config)
      /\ code \in [Plugins -> CodeVersions \cup {None}]
      /\ lookup # None /\ lookup.loading # None => lookup.loading \in Objects
  BY DEF EntriesInv, PluginsTypeOK, HookLookups
<1>2. ASSUME NEW n \in Plugins, AddPluginConfigModuleInfo(n) PROVE EntriesInv'
  <2> DEFINE d == AddedByDialog(config, n)
  <2>1. /\ d \in Config /\ InfosThere(d)
        /\ \A o \in Objects : o[1] # n /\ config.infos[o] # None => d.infos[o] # None
    BY <1>1, <1>2, AddedThere DEF AddPluginConfigModuleInfo
  <2>2. Kept(d) /\ PluginsEdit(d)
    BY <1>1, <1>2, <2>1 DEF AddPluginConfigModuleInfo
  <2> HIDE DEF d
  <2> QED
    BY <2>1, <2>2, PluginsEditEntries
<1>3. ASSUME NEW n \in Plugins, ModuleEnable(n) PROVE EntriesInv'
  <2> DEFINE on == ~ModuleInfo(config, n).on
             switched == {<<config.modules[n], n>>}
                         \cup {<<n, k>> : k \in ImportsOf(config, n)}
                         \cup {<<config.modules[k], k>> : k \in ImportsOf(config, n) \cap Known(config)}
             d == [config EXCEPT !.infos = [o \in Objects |->
                     IF o \in switched THEN [@[o] EXCEPT !.on = on] ELSE @[o]]]
  <2>1. n \in Known(config) /\ PluginsEdit(d)
    BY <1>3 DEF ModuleEnable
  <2>2. on \in BOOLEAN
    OBVIOUS
  <2>3. \A k \in ImportsOf(config, n) : config.infos[<<n, k>>] # None
    BY DEF ImportsOf
  <2>4. \A k \in Known(config) : config.infos[<<config.modules[k], k>>] # None
    BY <1>1 DEF InfosThere, ModuleInfo
  <2>5. \A o \in switched : o \in Objects => config.infos[o] # None
    BY <2>1, <2>3, <2>4
  <2> HIDE DEF on, switched
  <2>6. /\ d \in Config /\ InfosThere(d)
        /\ \A o \in Objects : config.infos[o] # None => d.infos[o] # None
    BY <1>1, <2>2, <2>5, SwitchedThere
  <2> HIDE DEF d
  <2>7. Kept(d)
    BY <1>1, <2>6
  <2> QED
    BY <2>1, <2>6, <2>7, PluginsEditEntries
<1>4. ASSUME NEW b \in BOOLEAN, EnableDisableAllPlugins(b) PROVE EntriesInv'
  <2> DEFINE roots == {n \in Known(config) : ~ModuleInfo(config, n).imported}
             switched == {<<config.modules[n], n>> : n \in roots} \cup
                         UNION {{<<n, k>> : k \in ImportsOf(config, n)} : n \in roots}
             d == [config EXCEPT !.infos = [o \in Objects |->
                     IF o \in switched THEN [@[o] EXCEPT !.on = b] ELSE @[o]]]
  <2>1. PluginsEdit(d)
    BY <1>4 DEF EnableDisableAllPlugins
  <2>2. \A n \in roots : \A k \in ImportsOf(config, n) : config.infos[<<n, k>>] # None
    BY DEF ImportsOf
  <2>3. \A k \in Known(config) : config.infos[<<config.modules[k], k>>] # None
    BY <1>1 DEF InfosThere, ModuleInfo
  <2>4. \A o \in switched : o \in Objects => config.infos[o] # None
    BY <2>2, <2>3
  <2> HIDE DEF switched
  <2>5. /\ d \in Config /\ InfosThere(d)
        /\ \A o \in Objects : config.infos[o] # None => d.infos[o] # None
    BY <1>1, <2>4, SwitchedThere
  <2> HIDE DEF d
  <2>6. Kept(d)
    BY <1>1, <2>5
  <2> QED
    BY <2>1, <2>5, <2>6, PluginsEditEntries
<1>5. ASSUME NEW n \in Plugins, ModuleRemove(n) PROVE EntriesInv'
  <2> DEFINE w == Without(config, {n})
  <2>1. w \in Config /\ InfosThere(w) /\ w.infos = config.infos
    BY <1>1, WithoutThere
  <2>2. NoConfig.classes \in [Hooks -> SUBSET Plugins]
    BY NoConfigThere, ConfigFacts
  <2>3. \E d \in {config, w, [w EXCEPT !.classes = NoConfig.classes]} : PluginsEdit(d)
    BY <1>5 DEF ModuleRemove
  <2> HIDE DEF w
  <2>4. \A d \in {config, w, [w EXCEPT !.classes = NoConfig.classes]} :
          d \in Config /\ InfosThere(d) /\ d.infos = config.infos
    BY <1>1, <2>1, <2>2, ClassesThere
  <2> QED
    BY <1>1, <2>3, <2>4, PluginsEditEntries
<1>6. CASE OpenPlugins \/ CancelPlugins
  BY <1>6 DEF OpenPlugins, CancelPlugins, EntriesInv, PluginsTypeOK, InfosThere, Known, ModuleInfo
<1>7. CASE OKPlugins
  <2> DEFINE cl == [h \in Hooks |-> config.classes[h] \cap Known(config)]
             d == [config EXCEPT !.classes = cl]
  <2>1. cl \in [Hooks -> SUBSET Plugins]
    BY <1>1, ConfigFacts
  <2>2. config' = d /\ UNCHANGED <<lookup, pluginsFile, configured, doing, saving, resetting,
                                  persist, code>>
    BY <1>7 DEF OKPlugins
  <2>3. loaded' = NotLoaded /\ methods' = NoMethods /\ stale' \subseteq Hooks /\ late' = {}
    BY <1>7 DEF OKPlugins, Reset, Effective, EntriesInv, PluginsTypeOK, HookLookups
  <2>4. pluginsChanged' \in BOOLEAN /\ dialogChanged' \in BOOLEAN
    BY <1>7 DEF OKPlugins
  <2> HIDE DEF cl
  <2>5. d \in Config /\ InfosThere(d) /\ d.infos = config.infos
    BY <1>1, <2>1, ClassesThere
  <2>6. PluginsTypeOK'
    BY <2>2, <2>3, <2>4, <2>5 DEF EntriesInv, PluginsTypeOK, NotLoaded, NoMethods
  <2>7. InfosThere(config)' /\ InfosThere(pluginsFile.config)'
    BY <2>2, <2>5 DEF EntriesInv, InfosThere, Known, ModuleInfo
  <2> QED
    BY <1>1, <2>2, <2>5, <2>6, <2>7 DEF EntriesInv
<1> QED
  BY <1>2, <1>3, <1>4, <1>5, <1>6, <1>7 DEF PluginDialog

\* The actions of lookups: what is loaded gets the entries.
LEMMA HookLookupEntries ==
  ASSUME EntriesInv, HookLookup
  PROVE  EntriesInv'
<1>1. /\ config \in Config /\ InfosThere(config) /\ InfosThere(pluginsFile.config)
      /\ lookup # None => lookup \in HookLookups
  BY DEF EntriesInv, PluginsTypeOK
<1>2. ASSUME NEW h \in Hooks, BeginHook(h) PROVE EntriesInv'
  BY <1>2 DEF BeginHook, EntriesInv, PluginsTypeOK, HookLookups, InfosThere, Known, ModuleInfo
<1>3. ASSUME NEW n \in Plugins, HookOf(n) PROVE EntriesInv'
  <2>1. lookup \in HookLookups /\ UNCHANGED <<config, pluginsFile>>
    BY <1>1, <1>3 DEF HookOf, Between
  <2>2. n \in Enabled(config) => /\ <<config.modules[n], n>> \in Objects
                                 /\ config.infos[<<config.modules[n], n>>] # None
    BY <1>1, ConfigFacts DEF InfosThere, ModuleInfo
  <2>3. lookup'.loading # None => config.infos[lookup'.loading] # None
    BY <1>3, <2>1, <2>2 DEF HookOf, HookLookups
  <2>4. lookup' \in HookLookups
    BY <1>3, <2>1, <2>2 DEF HookOf, HookLookups
  <2>5. PluginsTypeOK'
    BY <1>3, <2>4 DEF HookOf, EntriesInv, PluginsTypeOK
  <2>6. InfosThere(config)' /\ InfosThere(pluginsFile.config)'
    BY <1>1, <2>1 DEF InfosThere, Known, ModuleInfo
  <2> QED
    BY <2>1, <2>3, <2>5, <2>6 DEF EntriesInv
<1>4. CASE LoadModule
  <2> DEFINE m == lookup.loading[1]
             n == lookup.loading[2]
             imports == IF m = n THEN {k \in Imports[n] : /\ config.infos[<<n, k>>] # None
                                                          /\ Loadable(k)} ELSE {}
             names == IF Loadable(n) THEN {n} \cup imports ELSE {}
             modules == [x \in Plugins |-> IF x \in names THEN m ELSE config.modules[x]]
             classes == [h \in Hooks |-> config.classes[h] \cup
                           {x \in names : h \in Declares[x][code[x]]}]
  <2>1. /\ lookup \in HookLookups /\ lookup # None /\ lookup.loading # None
        /\ lookup.loading \in Objects /\ m \in Plugins /\ n \in Plugins
        /\ lookup.loading = <<m, n>> /\ config.infos[<<m, n>>] # None
    BY <1>1, <1>4, ObjectFacts DEF LoadModule, HookLookups, EntriesInv
  <2>2. names \in SUBSET Plugins
    BY <2>1, PluginsAssumption
  <2>3. \A x \in names : <<m, x>> \in Objects /\ config.infos[<<m, x>>] # None /\ Loadable(x)
    BY <2>1, ObjectFacts
  <2>4. /\ config' = [config EXCEPT !.modules = modules, !.classes = classes]
        /\ loaded' = [x \in Plugins |-> IF x \in names THEN code[x] ELSE loaded[x]]
        /\ pluginsChanged' = (pluginsChanged \/ names # {})
        /\ late' \subseteq late \cup names \cup {n}
        /\ \E found \in {lookup.found, lookup.found \cup {n}} :
             lookup' = [lookup EXCEPT !.loading = None, !.found = found]
        /\ doing' \in {doing, "grown"}
        /\ UNCHANGED <<configured, methods, dialogChanged, saving, resetting, persist,
                       pluginsFile, code, stale>>
    BY <1>4, ConfigFacts, <1>1 DEF LoadModule, Config
  <2> HIDE DEF m, n, names
  <2>5. modules \in [Plugins -> Plugins \cup {None}] /\ classes \in [Hooks -> SUBSET Plugins]
    BY <1>1, <2>1, <2>2, ConfigFacts
  <2>6. /\ config'.modules = modules /\ config'.classes = classes
        /\ config'.infos = config.infos /\ config' \in Config
    BY <1>1, <2>4, <2>5, ConfigFacts DEF Config
  <2>7. InfosThere(config)'
    <3> SUFFICES ASSUME NEW x \in Plugins, modules[x] # None
                 PROVE  <<modules[x], x>> \in Objects /\ config.infos[<<modules[x], x>>] # None
      BY <2>6 DEF InfosThere, Known, ModuleInfo
    <3>1. CASE x \in names
      BY <2>3, <3>1
    <3>2. CASE x \notin names
      <4>1. x \in Known(config)
        BY <3>2 DEF Known
      <4> QED
        BY <1>1, <3>2, <4>1 DEF InfosThere, ModuleInfo
    <3> QED
      BY <3>1, <3>2
  <2>8. lookup' \in HookLookups /\ lookup'.loading = None
    BY <2>1, <2>4 DEF HookLookups
  <2>9. loaded' \in [Plugins -> CodeVersions \cup {None}]
    BY <2>4 DEF EntriesInv, PluginsTypeOK
  <2>10. PluginsTypeOK'
    BY <2>1, <2>2, <2>4, <2>6, <2>8, <2>9 DEF EntriesInv, PluginsTypeOK
  <2>11. InfosThere(pluginsFile.config)'
    BY <1>1, <2>4 DEF InfosThere, Known, ModuleInfo
  <2> QED
    BY <2>7, <2>8, <2>10, <2>11 DEF EntriesInv
<1>5. CASE EndHook
  <2>1. lookup \in HookLookups
    BY <1>1, <1>5 DEF EndHook, Between
  <2>2. methods' \in [Hooks -> (SUBSET Plugins) \cup {None}]
    BY <1>5, <2>1 DEF EndHook, EntriesInv, PluginsTypeOK, HookLookups
  <2>3. PluginsTypeOK'
    BY <1>5, <2>2 DEF EndHook, EntriesInv, PluginsTypeOK
  <2> QED
    BY <1>1, <1>5, <2>3 DEF EndHook, EntriesInv, InfosThere, Known, ModuleInfo
<1> QED
  BY <1>2, <1>3, <1>4, <1>5 DEF HookLookup

\* A configuration file that was emptied has no entries.
LEMMA UnreadableFileThere ==
  ASSUME NEW state \in {"absent", "broken", "whole"}
  PROVE  /\ UnreadableFile(state) \in [state : {"absent", "broken", "whole"}, config : Config]
         /\ InfosThere(UnreadableFile(state).config)
BY NoConfigThere DEF UnreadableFile

\* Steps that leave the configuration and the lookup, and may write the file.
LEMMA FileStepEntries ==
  ASSUME EntriesInv, UNCHANGED <<config, lookup>>, PluginsTypeOK',
         pluginsFile' \in {pluginsFile, UnreadableFile("broken")} \/ pluginsFile'.config = AsWritten(config)
  PROVE  EntriesInv'
<1>1. InfosThere(config)'
  BY DEF EntriesInv, InfosThere, Known, ModuleInfo
<1>2. InfosThere(pluginsFile'.config)
  BY UnreadableFileThere, AsWrittenThere DEF EntriesInv, PluginsTypeOK
<1>3. InfosThere(pluginsFile.config)'
  BY <1>2 DEF InfosThere, Known, ModuleInfo
<1> QED
  BY <1>1, <1>3 DEF EntriesInv

\* The options of a run: the lookup is over.
LEMMA OptionEntries ==
  ASSUME EntriesInv, NEW c \in Config, InfosThere(c), NEW worked \in BOOLEAN, NEW sign \in BOOLEAN,
         Option(c, worked, sign)
  PROVE  EntriesInv'
<1>1. Referred(c) \in Config /\ InfosThere(Referred(c)) /\ config' = Referred(c)
  BY ReferredThere DEF Option
<1>2. lookup = None /\ lookup' = None
  BY DEF Option
<1>3. pluginsFile' \in {pluginsFile, UnreadableFile("broken")}
  BY DEF Option, Open
<1>4. InfosThere(pluginsFile.config)' /\ pluginsFile' \in [state : {"absent", "broken", "whole"}, config : Config]
  BY <1>3, UnreadableFileThere DEF EntriesInv, PluginsTypeOK, InfosThere, Known, ModuleInfo
<1>5. /\ loaded' \in {loaded, NotLoaded} /\ methods' \in {methods, NoMethods}
      /\ stale' \in {stale, {}} /\ late' \in {late, {}}
  BY <1>2 DEF Option, Reset, Effective
<1>6. doing' \in {doing, "save"} /\ pluginsChanged' \in BOOLEAN /\ resetting' \in BOOLEAN
      /\ saving' \in BOOLEAN /\ UNCHANGED <<configured, dialogChanged, persist, code, lookup>>
  BY DEF Option, EntriesInv, PluginsTypeOK
<1>7. PluginsTypeOK'
  BY <1>1, <1>2, <1>4, <1>5, <1>6 DEF EntriesInv, PluginsTypeOK, NotLoaded, NoMethods
<1>8. InfosThere(config)'
  BY <1>1 DEF InfosThere, Known, ModuleInfo
<1> QED
  BY <1>2, <1>4, <1>7, <1>8 DEF EntriesInv

LEMMA PluginOptionsEntries ==
  ASSUME EntriesInv, PluginOptions
  PROVE  EntriesInv'
<1>1. /\ config \in Config /\ InfosThere(config)
      /\ code \in [Plugins -> CodeVersions \cup {None}]
  BY DEF EntriesInv, PluginsTypeOK
<1>2. CASE BeginPluginOptions \/ EndPluginOptions
  <2>1. UNCHANGED <<config, lookup, pluginsFile>>
    BY <1>2 DEF BeginPluginOptions, EndPluginOptions
  <2>2. PluginsTypeOK'
    BY <1>2 DEF BeginPluginOptions, EndPluginOptions, EntriesInv, PluginsTypeOK
  <2> QED
    BY <2>1, <2>2, FileStepEntries
<1>3. CASE OptionTempPlugins
  BY <1>1, <1>3, OptionEntries DEF OptionTempPlugins
<1>4. ASSUME NEW n \in Plugins, NEW sign \in BOOLEAN, OptionAddPlugin(n, sign) PROVE EntriesInv'
  BY <1>1, <1>4, AddedThere, OptionEntries DEF OptionAddPlugin
<1>5. ASSUME NEW n \in Plugins, OptionReloadPlugin(n) PROVE EntriesInv'
  BY <1>1, <1>5, AddedThere, OptionEntries DEF OptionReloadPlugin
<1>6. ASSUME NEW n \in Plugins, OptionRemovePlugin(n) PROVE EntriesInv'
  BY <1>1, <1>6, WithoutThere, OptionEntries DEF OptionRemovePlugin
<1> QED
  BY <1>2, <1>3, <1>4, <1>5, <1>6 DEF PluginOptions

\* Entries that are replaced by what their files declare.
LEMMA FreshThere ==
  ASSUME EntriesInv, NEW replaced \in SUBSET Changed(config)
  PROVE  Fresh(config, replaced) \in Config /\ InfosThere(Fresh(config, replaced))
<1> DEFINE parsed == Parsed(config, replaced)
           modules == [n \in Plugins |-> IF n \in replaced THEN n ELSE parsed.modules[n]]
<1>1. /\ config \in Config /\ InfosThere(config)
      /\ code \in [Plugins -> CodeVersions \cup {None}]
      /\ replaced \in SUBSET Plugins /\ \A n \in replaced : code[n] # None
  BY ConfigFacts DEF Changed, Known, EntriesInv, PluginsTypeOK
<1>2. parsed \in Config /\ InfosThere(parsed) /\ \A n \in replaced : parsed.infos[<<n, n>>] # None
  BY <1>1, ParsedThere
<1>3. Fresh(config, replaced) = [parsed EXCEPT !.modules = modules]
  BY DEF Fresh
<1> HIDE DEF parsed
<1>4. modules \in [Plugins -> Plugins \cup {None}]
  BY <1>1, <1>2, ConfigFacts
<1>5. /\ Fresh(config, replaced).modules = modules /\ Fresh(config, replaced).infos = parsed.infos
      /\ Fresh(config, replaced) \in Config
  BY <1>2, <1>3, <1>4, ConfigFacts DEF Config
<1>6. InfosThere(Fresh(config, replaced))
  <2> SUFFICES ASSUME NEW n \in Plugins, modules[n] # None
               PROVE  <<modules[n], n>> \in Objects /\ parsed.infos[<<modules[n], n>>] # None
    BY <1>5 DEF InfosThere, Known, ModuleInfo
  <2>1. CASE n \in replaced
    BY <1>2, <2>1, ObjectFacts
  <2>2. CASE n \notin replaced
    <3>1. n \in Known(parsed)
      BY <2>2 DEF Known
    <3> QED
      BY <1>2, <2>2, <3>1 DEF InfosThere, ModuleInfo
  <2> QED
    BY <2>1, <2>2
<1> QED
  BY <1>5, <1>6

\* Freshening, to its end or abandoned, keeps of that what refers to something.
LEMMA FreshenStep ==
  ASSUME EntriesInv, FreshenModuleInfos \/ AbandonFreshening
  PROVE  \E c \in Config : InfosThere(c) /\ config' = Referred(c)
<1>1. CASE FreshenModuleInfos
  <2> DEFINE missing == {n \in Enabled(config) : code[n] = None}
             fresh == Fresh(config, Changed(config))
  <2>1. PICK removed \in SUBSET missing : config' = Referred(Without(fresh, removed))
    BY <1>1 DEF FreshenModuleInfos
  <2>2. fresh \in Config /\ InfosThere(fresh)
    BY FreshThere
  <2>3. missing \in SUBSET Plugins
    BY DEF Enabled, Known
  <2> HIDE DEF fresh, missing
  <2>4. Without(fresh, removed) \in Config /\ InfosThere(Without(fresh, removed))
    BY <2>2, <2>3, WithoutThere
  <2> QED
    BY <2>1, <2>4
<1>2. CASE AbandonFreshening
  <2>1. PICK first \in Known(config) :
           config' = Referred(Fresh(config, Changed(config) \cap {first}))
    BY <1>2 DEF AbandonFreshening
  <2> QED
    BY <2>1, FreshThere
<1> QED
  BY <1>1, <1>2

LEMMA FreshenEntries ==
  ASSUME EntriesInv, FreshenModuleInfos \/ AbandonFreshening
  PROVE  EntriesInv'
<1>1. config' \in Config /\ InfosThere(config')
  BY FreshenStep, ReferredThere DEF EntriesInv
<1>2. InfosThere(config)'
  BY <1>1 DEF InfosThere, Known, ModuleInfo
<1>3. pluginsFile' \in {pluginsFile, UnreadableFile("broken")}
  BY DEF FreshenModuleInfos, AbandonFreshening, Open
<1>4. InfosThere(pluginsFile.config)' /\ pluginsFile' \in [state : {"absent", "broken", "whole"}, config : Config]
  BY <1>3, UnreadableFileThere DEF EntriesInv, PluginsTypeOK, InfosThere, Known, ModuleInfo
<1>5. /\ stale' \in {stale, Hooks} /\ doing' \in {"write", "idle"} /\ pluginsChanged' \in BOOLEAN
      /\ lookup = None /\ lookup' = None
      /\ UNCHANGED <<configured, loaded, methods, dialogChanged, saving, resetting, persist,
                     code, late>>
  BY DEF FreshenModuleInfos, AbandonFreshening, EntriesInv, PluginsTypeOK
<1>6. PluginsTypeOK'
  BY <1>1, <1>4, <1>5 DEF EntriesInv, PluginsTypeOK
<1> QED
  BY <1>2, <1>4, <1>5, <1>6 DEF EntriesInv

LEMMA PluginStepEntries ==
  ASSUME EntriesInv, PluginStep
  PROVE  EntriesInv'
<1>1. CASE WritePlugins
  <2>1. UNCHANGED <<config, lookup>> /\ (pluginsFile' = pluginsFile \/ pluginsFile'.config = AsWritten(config))
    BY <1>1 DEF WritePlugins
  <2>2. AsWritten(config) \in Config
    BY AsWrittenThere DEF EntriesInv, PluginsTypeOK
  <2>3. pluginsFile' \in [state : {"absent", "broken", "whole"}, config : Config]
    BY <1>1, <2>2 DEF WritePlugins, EntriesInv, PluginsTypeOK
  <2>4. /\ pluginsChanged' \in BOOLEAN /\ doing' \in {"options", "idle", "raised"}
        /\ UNCHANGED <<config, configured, loaded, methods, dialogChanged, saving, resetting,
                       persist, code, lookup, stale, late>>
    BY <1>1 DEF WritePlugins, EntriesInv, PluginsTypeOK
  <2>5. PluginsTypeOK'
    BY <2>3, <2>4 DEF EntriesInv, PluginsTypeOK
  <2> QED
    BY <2>1, <2>5, FileStepEntries
<1>2. CASE SavePluginsAtClose
  <2>1. UNCHANGED <<config, lookup>> /\ pluginsFile' = UnreadableFile("broken")
    BY <1>2 DEF SavePluginsAtClose, Open
  <2>2. PluginsTypeOK'
    BY <1>2, <2>1, UnreadableFileThere DEF SavePluginsAtClose, EntriesInv, PluginsTypeOK
  <2> QED
    BY <2>1, <2>2, FileStepEntries
<1>3. ASSUME NEW n \in Plugins, NEW v \in CodeVersions \cup {None}, CodeChanges(n, v)
      PROVE  EntriesInv'
  <2>1. UNCHANGED <<config, lookup, pluginsFile>>
    BY <1>3 DEF CodeChanges
  <2>2. PluginsTypeOK'
    BY <1>3 DEF CodeChanges, EntriesInv, PluginsTypeOK
  <2> QED
    BY <2>1, <2>2, FileStepEntries
<1> QED
  BY <1>1, <1>2, <1>3, PluginDialogEntries, PluginOptionsEntries, HookLookupEntries, FreshenEntries
     DEF PluginStep

\* Between two processes nothing is looked up, kept or done.
NoProcess == mode = "off" => lookup = None /\ methods = NoMethods /\ doing = "idle"

LEMMA NoProcessStep ==
  ASSUME NoProcess, [ConfigurationNext]_allVars
  PROVE  NoProcess'
<1>1. ASSUME mode = "off", NoProcess, PluginStep PROVE lookup' = None /\ methods' = NoMethods /\ doing' = "idle"
  <2>1. CASE PluginDialog
    BY <1>1, <2>1 DEF NoProcess, PluginDialog, OpenPlugins, CancelPlugins, OKPlugins, Reset,
       AddPluginConfigModuleInfo, ModuleEnable, ModuleRemove, EnableDisableAllPlugins, PluginsEdit
  <2>2. CASE PluginOptions
    BY <1>1, <2>2 DEF NoProcess, PluginOptions, BeginPluginOptions, OptionTempPlugins,
       EndPluginOptions, OptionAddPlugin, OptionReloadPlugin, OptionRemovePlugin, Option
  <2>3. CASE HookLookup
    BY <1>1, <2>3 DEF NoProcess, HookLookup, BeginHook, HookOf, Between, LoadModule, EndHook
  <2>4. CASE WritePlugins \/ FreshenModuleInfos \/ AbandonFreshening \/ SavePluginsAtClose
    BY <1>1, <2>4
       DEF NoProcess, WritePlugins, FreshenModuleInfos, AbandonFreshening, SavePluginsAtClose
  <2>5. ASSUME NEW n \in Plugins, NEW v \in CodeVersions \cup {None}, CodeChanges(n, v)
        PROVE  lookup' = None /\ methods' = NoMethods /\ doing' = "idle"
    BY <1>1, <2>5 DEF NoProcess, CodeChanges
  <2> QED
    BY <1>1, <2>1, <2>2, <2>3, <2>4, <2>5 DEF PluginStep
<1>2. ASSUME NEW m \in {"gui", "cmd"}, Start(m) PROVE NoProcess'
  BY <1>2 DEF Start, NoProcess
<1>3. CASE Quit \/ RunAgain
  BY <1>3 DEF Quit, RunAgain, NoProcess
<1>4. CASE Gone \/ Killed
  BY <1>4 DEF Gone, Killed, End, PluginsGone, NoProcess, NoMethods
<1>5. CASE PackagesTurn
  <2>1. mode' = mode
    BY <1>5, PackageStepFrame DEF PackagesTurn
  <2> QED
    BY <1>5, <2>1 DEF PackagesTurn, pluginVars, NoProcess, NoMethods
<1>6. CASE PluginsTurn
  BY <1>1, <1>6, PluginStepFrame DEF PluginsTurn, NoProcess, NoMethods
<1>7. CASE UNCHANGED allVars
  BY <1>7 DEF allVars, pluginVars, NoProcess, NoMethods
<1> QED
  BY <1>2, <1>3, <1>4, <1>5, <1>6, <1>7 DEF ConfigurationNext

\* From one process to the next and in each.
LEMMA EntriesStep ==
  ASSUME EntriesInv, NoProcess, [ConfigurationNext]_allVars
  PROVE  EntriesInv'
<1>1. ASSUME NEW m \in {"gui", "cmd"}, Start(m) PROVE EntriesInv'
  <2>1. /\ config' \in {config, pluginsFile.config} /\ persist' \in BOOLEAN
        /\ doing' \in {doing, "freshen"}
        /\ UNCHANGED <<configured, loaded, methods, pluginsChanged, dialogChanged, saving,
                       resetting, pluginsFile, code, lookup, stale, late>>
    BY <1>1 DEF Start, PluginsStart, EntriesInv, PluginsTypeOK
  <2>2. PluginsTypeOK' /\ InfosThere(config')
    BY <2>1 DEF EntriesInv, PluginsTypeOK
  <2>3. InfosThere(config)' /\ InfosThere(pluginsFile.config)'
    BY <2>1, <2>2 DEF EntriesInv, InfosThere, Known, ModuleInfo
  <2> QED
    BY <1>1, <2>1, <2>2, <2>3 DEF EntriesInv, NoProcess, Start
<1>2. CASE Quit
  BY <1>2, FileStepEntries DEF Quit, pluginVars, EntriesInv, PluginsTypeOK
<1>3. ASSUME PluginsClose \/ PluginsGone, lookup' = None PROVE EntriesInv'
  <2>1. /\ config' = NoConfig /\ loaded' = NotLoaded /\ methods' = NoMethods
        /\ stale' = {} /\ late' = {} /\ pluginsFile' = pluginsFile /\ code' = code
    BY <1>3 DEF PluginsClose, PluginsGone, Reset, Effective
  <2>2. /\ configured' \in BOOLEAN /\ pluginsChanged' \in BOOLEAN /\ dialogChanged' \in BOOLEAN
        /\ saving' \in BOOLEAN /\ resetting' \in BOOLEAN /\ persist' \in BOOLEAN
        /\ doing' \in {doing, "idle"}
    BY <1>3 DEF PluginsClose, PluginsGone, EntriesInv, PluginsTypeOK
  <2>3. PluginsTypeOK'
    BY <1>3, <2>1, <2>2, NoConfigThere DEF EntriesInv, PluginsTypeOK, NotLoaded, NoMethods
  <2>4. InfosThere(config)' /\ InfosThere(pluginsFile.config)'
    BY <2>1, NoConfigThere DEF EntriesInv, InfosThere, Known, ModuleInfo
  <2> QED
    BY <1>3, <2>3, <2>4 DEF EntriesInv
<1>4. CASE RunAgain
  BY <1>3, <1>4 DEF RunAgain, PluginsReady, PluginsClose
<1>5. CASE Gone \/ Killed
  BY <1>3, <1>5 DEF Gone, Killed, End, PluginsGone
<1>6. CASE PackagesTurn
  BY <1>6, FileStepEntries DEF PackagesTurn, pluginVars, EntriesInv, PluginsTypeOK
<1>7. CASE PluginsTurn
  BY <1>7, PluginStepEntries DEF PluginsTurn
<1>8. CASE UNCHANGED allVars
  BY <1>8, FileStepEntries DEF allVars, pluginVars, EntriesInv, PluginsTypeOK
<1> QED
  BY <1>1, <1>2, <1>4, <1>5, <1>6, <1>7, <1>8 DEF ConfigurationNext

LEMMA EntriesInit == ConfigurationInit => EntriesInv
<1> SUFFICES ASSUME ConfigurationInit PROVE EntriesInv
  OBVIOUS
<1>1. UnreadableFile("absent") \in [state : {"absent", "broken", "whole"}, config : Config]
      /\ InfosThere(UnreadableFile("absent").config)
  BY UnreadableFileThere
<1> QED
  BY <1>1, NoConfigThere
     DEF ConfigurationInit, PluginsInit, EntriesInv, PluginsTypeOK, NotLoaded, NoMethods

LEMMA AlwaysEntries == ConfigurationSpec => [](EntriesInv /\ NoProcess)
<1>1. ConfigurationInit => NoProcess
  BY DEF ConfigurationInit, PluginsInit, NoProcess
<1> QED
  BY <1>1, EntriesInit, EntriesStep, NoProcessStep, PTL DEF ConfigurationSpec

\* The types of the plug-in manager's variables (PluginsTypeOK): no entry, import
\* or load ever names a plug-in or an info that was not made.
THEOREM PluginsTypeCorrect == ConfigurationSpec => []PluginsTypeOK
<1>1. EntriesInv => PluginsTypeOK
  BY DEF EntriesInv
<1> QED
  BY <1>1, AlwaysEntries, PTL

-----------------------------------------------------------------------------
(* What is kept for a hook *)

Loading == IF lookup.loading = None THEN {} ELSE {lookup.loading[2]}

\* What a lookup has found is all of what it has met, but for the plug-in that
\* is being loaded, which is the enabled one that the class names.
LookupCollects ==
    /\ Collected(lookup.hook, (lookup.seen \cap config.classes[lookup.hook]) \ Loading, lookup.found)
    /\ lookup.loading # None => /\ lookup.loading[2] \in Enabled(config)
                                /\ lookup.loading[1] = config.modules[lookup.loading[2]]

\* The inductive invariant: what is claimed of a list that is kept is claimed of
\* the lookup that makes it, as far as it got.
CollectInv ==
    /\ \A h \in Hooks \ stale :
         methods[h] # None => Collected(h, config.classes[h], methods[h])
    /\ lookup # None /\ lookup.hook \notin stale => LookupCollects

\* Nothing changes.
LEMMA CollectFrame ==
  ASSUME CollectInv, UNCHANGED <<loaded, methods, lookup, stale, late>>,
         config' = config \/ (/\ Enabled(config') = Enabled(config) /\ lookup = None
                              /\ config'.classes = config.classes)
  PROVE  CollectInv'
<1>1. Enabled(config)' = Enabled(config) /\ config'.classes = config.classes
  BY DEF Enabled, Known, ModuleInfo
<1>2. ASSUME NEW h, NEW met, NEW found, Collected(h, met, found) PROVE Collected(h, met, found)'
  BY <1>1, <1>2 DEF Collected
<1>3. \A h \in Hooks \ stale' : methods'[h] # None => Collected(h, config.classes[h], methods[h])'
  BY <1>1 DEF CollectInv, Collected
<1>4. lookup' # None /\ lookup'.hook \notin stale' => LookupCollects'
  BY <1>1 DEF CollectInv, LookupCollects, Collected, Loading
<1> QED
  BY <1>3, <1>4 DEF CollectInv

\* Nothing is claimed while edits wait for a reset, and after one.
LEMMA CollectNothing ==
  ASSUME lookup' = None \/ lookup'.hook \in stale',
         stale' = Hooks \/ methods' = NoMethods
  PROVE  CollectInv'
BY DEF CollectInv, NoMethods

\* A load that ends during or after lookups: it moves nothing from what they
\* claim but what is in late.
LEMMA LoadCollects ==
  ASSUME EntriesInv, CollectInv, LoadModule
  PROVE  CollectInv'
<1> DEFINE m == lookup.loading[1]
           n == lookup.loading[2]
           imports == IF m = n THEN {k \in Imports[n] : /\ config.infos[<<n, k>>] # None
                                                        /\ Loadable(k)} ELSE {}
           names == IF Loadable(n) THEN {n} \cup imports ELSE {}
           Moved(x) == \/ config.modules[x] # m
                       \/ loaded[x] \notin {None, code[x]}
                       \/ \E h \in Declares[x][code[x]] : x \notin config.classes[h]
           more == n \in names /\ lookup.hook \in Declares[n][code[n]]
<1>1. /\ config \in Config /\ lookup \in HookLookups /\ lookup # None /\ lookup.loading # None
      /\ lookup.loading \in Objects /\ m \in Plugins /\ n \in Plugins
  BY ObjectFacts DEF LoadModule, HookLookups, EntriesInv, PluginsTypeOK
<1>2. names \in SUBSET Plugins /\ \A x \in names : code[x] # None
  BY <1>1, PluginsAssumption DEF Loadable
<1>3. /\ config' = [config EXCEPT
           !.modules = [x \in Plugins |-> IF x \in names THEN m ELSE @[x]],
           !.classes = [h \in Hooks |-> @[h] \cup {x \in names : h \in Declares[x][code[x]]}]]
      /\ loaded' = [x \in Plugins |-> IF x \in names THEN code[x] ELSE loaded[x]]
      /\ late' = late \cup {x \in names : Moved(x)} \cup ({n} \ names)
      /\ lookup' = [lookup EXCEPT !.loading = None,
                                  !.found = IF more THEN @ \cup {n} ELSE @]
      /\ UNCHANGED <<methods, stale>>
  BY DEF LoadModule
<1>4. \A x \in names \ late' : /\ config.modules[x] = m
                               /\ loaded[x] \in {None, code[x]}
                               /\ \A h \in Declares[x][code[x]] : x \in config.classes[h]
  BY <1>3
<1> HIDE DEF m, n, names, Moved
<1>5. /\ config'.infos = config.infos
      /\ \A x \in Plugins : config'.modules[x] = IF x \in names THEN m ELSE config.modules[x]
      /\ \A h \in Hooks : config'.classes[h] =
                            config.classes[h] \cup {x \in names : h \in Declares[x][code[x]]}
  BY <1>1, <1>3, ConfigFacts DEF Config
<1>6. ASSUME NEW x \in Plugins, config'.modules[x] = config.modules[x]
      PROVE  x \in Enabled(config') <=> x \in Enabled(config)
  BY <1>5, <1>6 DEF Enabled, Known, ModuleInfo
<1>7. \A x \in Plugins \ late' : x \in Enabled(config') <=> x \in Enabled(config)
  BY <1>4, <1>5, <1>6
<1>8. \A x \in Plugins \ late' : loaded[x] # None => loaded'[x] = loaded[x]
  BY <1>3, <1>4
<1>9. \A h \in Hooks : config'.classes[h] \ late' \subseteq config.classes[h]
  BY <1>4, <1>5
<1>10. \A h \in Hooks : config.classes[h] \subseteq Plugins
  BY <1>1, ConfigFacts
<1>11. Enabled(config) \subseteq Plugins /\ late \subseteq Plugins /\ late \subseteq late'
  BY <1>1, <1>3, ConfigFacts DEF EntriesInv, PluginsTypeOK
<1>12. ASSUME NEW h, NEW met, NEW found, Collected(h, met, found),
              NEW now, now \ late' \subseteq met, now \subseteq Plugins \cup late'
       PROVE  /\ found \subseteq Enabled(config') \cup late'
              /\ \A x \in (now \cap Enabled(config')) \ late' :
                   loaded'[x] # None /\ (h \in Declares[x][loaded'[x]] => x \in found)
  <2>1. \A x \in found : x \in Enabled(config) \cup late
    BY <1>12 DEF Collected
  <2>2. \A x \in found : x \in Enabled(config') \cup late'
    BY <1>7, <1>11, <2>1
  <2>3. ASSUME NEW x \in now, x \in Enabled(config'), x \notin late'
        PROVE  loaded'[x] # None /\ (h \in Declares[x][loaded'[x]] => x \in found)
    <3>1. x \in met /\ x \in Enabled(config) /\ x \notin late /\ x \in Plugins
      BY <1>7, <1>11, <1>12, <2>3
    <3>2. loaded[x] # None /\ (h \in Declares[x][loaded[x]] => x \in found)
      BY <1>12, <3>1 DEF Collected
    <3> QED
      BY <1>8, <2>3, <3>1, <3>2
  <2> QED
    BY <2>2, <2>3
<1>13. \A h \in Hooks \ stale' : methods'[h] # None => Collected(h, config.classes[h], methods[h])'
  <2> SUFFICES ASSUME NEW h \in Hooks \ stale, methods[h] # None
               PROVE  Collected(h, config.classes[h], methods[h])'
    BY <1>3
  <2>1. Collected(h, config.classes[h], methods[h])
    BY DEF CollectInv
  <2>2. config'.classes[h] \subseteq Plugins
    BY <1>2, <1>5, <1>10
  <2>3. /\ methods[h] \subseteq Enabled(config') \cup late'
        /\ \A x \in (config'.classes[h] \cap Enabled(config')) \ late' :
             loaded'[x] # None /\ (h \in Declares[x][loaded'[x]] => x \in methods[h])
    BY <1>9, <1>12, <2>1, <2>2
  <2> QED
    BY <1>3, <2>3 DEF Collected, Enabled, Known, ModuleInfo
<1>14. ASSUME lookup.hook \notin stale PROVE LookupCollects'
  <2> DEFINE h == lookup.hook
             now == lookup.seen \cap config'.classes[h]
             found == IF more THEN lookup.found \cup {n} ELSE lookup.found
  <2>1. /\ h \in Hooks /\ lookup'.hook = h /\ lookup'.seen = lookup.seen
        /\ lookup'.loading = None /\ lookup'.found = found
    BY <1>1, <1>3 DEF HookLookups
  <2>2. /\ Collected(h, (lookup.seen \cap config.classes[h]) \ {n}, lookup.found)
        /\ n \in Enabled(config) /\ m = config.modules[n]
    BY <1>1, <1>14 DEF CollectInv, LookupCollects, Loading, n, m
  <2> HIDE DEF more
  <2>3. now \ {n} \subseteq Plugins
    BY <1>2, <1>5, <1>10, <2>1
  <2>4. (now \ {n}) \ late' \subseteq (lookup.seen \cap config.classes[h]) \ {n}
    BY <1>9, <2>1
  <2> HIDE DEF now, found, h
  <2>5. /\ lookup.found \subseteq Enabled(config') \cup late'
        /\ \A x \in ((now \ {n}) \cap Enabled(config')) \ late' :
             loaded'[x] # None /\ (h \in Declares[x][loaded'[x]] => x \in lookup.found)
    <3> DEFINE rest == now \ {n}
               met == (lookup.seen \cap config.classes[h]) \ {n}
    <3>1. Collected(h, met, lookup.found) /\ rest \ late' \subseteq met /\ rest \subseteq Plugins \cup late'
      BY <2>2, <2>3, <2>4
    <3> HIDE DEF rest, met
    <3>2. /\ lookup.found \subseteq Enabled(config') \cup late'
          /\ \A x \in (rest \cap Enabled(config')) \ late' :
               loaded'[x] # None /\ (h \in Declares[x][loaded'[x]] => x \in lookup.found)
      BY <1>12, <3>1
    <3> QED
      BY <3>2 DEF rest
  <2>6. n \in Enabled(config')
    BY <1>1, <1>5, <1>6, <2>2
  <2>7. found \subseteq Enabled(config') \cup late'
    BY <2>5, <2>6 DEF found
  <2>8. ASSUME n \notin late'
        PROVE  loaded'[n] # None /\ (h \in Declares[n][loaded'[n]] => n \in found)
    <3>1. n \in names
      BY <1>3, <2>8
    <3>2. loaded'[n] = code[n]
      BY <1>1, <1>3, <3>1
    <3> QED
      BY <1>2, <3>1, <3>2 DEF found, more, h
  <2>9. \A x \in (now \cap Enabled(config')) \ late' :
          loaded'[x] # None /\ (h \in Declares[x][loaded'[x]] => x \in found)
    BY <2>5, <2>8 DEF found
  <2>10. lookup'.seen \cap config'.classes[lookup'.hook] = now
    BY <2>1 DEF now
  <2>11. Loading' = {}
    BY <2>1 DEF Loading
  <2>12. Collected(lookup.hook, (lookup.seen \cap config.classes[lookup.hook]) \ Loading, lookup.found)'
    BY <2>1, <2>7, <2>9, <2>10, <2>11 DEF Collected, Enabled, Known, ModuleInfo
  <2> QED
    BY <2>1, <2>12 DEF LookupCollects
<1>15. lookup'.hook = lookup.hook
  BY <1>1, <1>3 DEF HookLookups
<1> QED
  BY <1>3, <1>13, <1>14, <1>15 DEF CollectInv

\* The other actions of lookups.
LEMMA HookLookupCollects ==
  ASSUME EntriesInv, CollectInv, HookLookup
  PROVE  CollectInv'
<1>1. ASSUME NEW h \in Hooks, BeginHook(h) PROVE CollectInv'
  <2>1. /\ lookup' = [hook |-> h, seen |-> {}, found |-> {}, loading |-> None]
        /\ stale' = stale \ {h} /\ methods[h] = None
        /\ UNCHANGED <<config, loaded, methods, late>>
    BY <1>1 DEF BeginHook
  <2>2. Collected(h, {}, {})'
    BY DEF Collected
  <2>3. lookup'.hook = h /\ lookup'.seen = {} /\ lookup'.found = {} /\ lookup'.loading = None
    BY <2>1
  <2>4. LookupCollects'
    BY <2>2, <2>3 DEF LookupCollects, Collected
  <2>5. \A g \in Hooks \ stale' : methods'[g] # None => g \in Hooks \ stale /\ methods[g] # None
    BY <2>1
  <2>6. \A g \in Hooks \ stale' : methods'[g] # None => Collected(g, config.classes[g], methods[g])'
    BY <2>1, <2>5 DEF CollectInv, Collected, Enabled, Known, ModuleInfo
  <2> QED
    BY <2>4, <2>6 DEF CollectInv
<1>2. ASSUME NEW n \in Plugins, HookOf(n) PROVE CollectInv'
  <2> DEFINE h == lookup.hook
             has == n \in Enabled(config) /\ loaded[n] # None /\ h \in Declares[n][loaded[n]]
             load == n \in Enabled(config) /\ loaded[n] = None
  <2>1. lookup \in HookLookups /\ lookup # None /\ lookup.loading = None
        /\ UNCHANGED <<config, loaded, methods, stale, late>>
    BY <1>2 DEF HookOf, Between, EntriesInv, PluginsTypeOK
  <2>2. /\ lookup'.hook = h /\ lookup'.seen = lookup.seen \cup {n}
        /\ lookup'.found = IF has THEN lookup.found \cup {n} ELSE lookup.found
        /\ lookup'.loading = IF load THEN <<config.modules[n], n>> ELSE None
    BY <1>2, <2>1 DEF HookOf, HookLookups
  <2>3. \A g \in Hooks \ stale' : methods'[g] # None => Collected(g, config.classes[g], methods[g])'
    BY <2>1 DEF CollectInv, Collected, Enabled, Known, ModuleInfo
  <2>4. ASSUME h \notin stale PROVE LookupCollects'
    <3>1. Collected(h, lookup.seen \cap config.classes[h], lookup.found)
      BY <2>1, <2>4 DEF CollectInv, LookupCollects, Loading
    <3>2. lookup'.found \subseteq Enabled(config) \cup late
      BY <2>2, <3>1 DEF Collected
    <3>3. Loading' = IF load THEN {n} ELSE {}
      <4>1. CASE load
        <5>1. <<config.modules[n], n>> \in Objects
          BY <4>1, ConfigFacts DEF EntriesInv, PluginsTypeOK, InfosThere
        <5>2. lookup'.loading # None /\ lookup'.loading[2] = n
          BY <2>2, <4>1, <5>1, ObjectFacts
        <5> QED
          BY <4>1, <5>2 DEF Loading
      <4>2. CASE ~load
        BY <2>2, <4>2 DEF Loading
      <4> QED
        BY <4>1, <4>2
    <3> DEFINE now == (lookup'.seen \cap config.classes[h]) \ Loading'
    <3>4. ASSUME NEW x \in now, x \in Enabled(config), x \notin late
          PROVE  loaded[x] # None /\ (h \in Declares[x][loaded[x]] => x \in lookup'.found)
      <4>1. CASE x = n
        BY <2>2, <3>3, <3>4, <4>1
      <4>2. CASE x # n
        BY <2>2, <3>1, <3>4, <4>2 DEF Collected
      <4> QED
        BY <4>1, <4>2
    <3>5. Collected(lookup.hook, (lookup.seen \cap config.classes[lookup.hook]) \ Loading, lookup.found)'
      BY <2>1, <2>2, <3>2, <3>4 DEF Collected, Enabled, Known, ModuleInfo
    <3>6. lookup'.loading # None => /\ lookup'.loading[2] \in Enabled(config)
                                   /\ lookup'.loading[1] = config.modules[lookup'.loading[2]]
      BY <2>2
    <3> QED
      BY <2>1, <3>5, <3>6 DEF LookupCollects, Enabled, Known, ModuleInfo
  <2> QED
    BY <2>1, <2>2, <2>3, <2>4 DEF CollectInv
<1>3. CASE LoadModule
  BY <1>3, LoadCollects
<1>4. CASE EndHook
  <2> DEFINE h == lookup.hook
  <2>1. /\ lookup \in HookLookups /\ lookup # None /\ lookup.loading = None /\ h \in Hooks
        /\ methods' = [methods EXCEPT ![h] = lookup.found] /\ lookup' = None
        /\ config.classes[h] \subseteq lookup.seen \/ h \in stale
        /\ UNCHANGED <<config, loaded, stale, late>>
    BY <1>4 DEF EndHook, Between, EntriesInv, PluginsTypeOK, HookLookups
  <2>2. methods'[h] = lookup.found /\ \A g \in Hooks \ {h} : methods'[g] = methods[g]
    BY <2>1 DEF EntriesInv, PluginsTypeOK
  <2>3. ASSUME h \notin stale PROVE Collected(h, config.classes[h], lookup.found)
    <3>1. Collected(h, (lookup.seen \cap config.classes[h]) \ Loading, lookup.found) /\ Loading = {}
      BY <2>1, <2>3 DEF CollectInv, LookupCollects, Loading
    <3>2. (lookup.seen \cap config.classes[h]) \ Loading = config.classes[h]
      BY <2>1, <2>3, <3>1
    <3> QED
      BY <3>1, <3>2
  <2>4. ASSUME NEW g \in Hooks \ stale, methods'[g] # None
        PROVE  Collected(g, config.classes[g], methods[g])'
    <3>1. Collected(g, config.classes[g], methods'[g])
      BY <2>2, <2>3, <2>4 DEF CollectInv
    <3> QED
      BY <2>1, <3>1 DEF Collected, Enabled, Known, ModuleInfo
  <2> QED
    BY <2>1, <2>4 DEF CollectInv
<1> QED
  BY <1>1, <1>2, <1>3, <1>4 DEF HookLookup

LEMMA PluginDialogCollects ==
  ASSUME EntriesInv, CollectInv, PluginDialog
  PROVE  CollectInv'
<1>1. ASSUME NEW c, PluginsEdit(c) PROVE CollectInv'
  <2>1. stale' = Hooks /\ lookup' = lookup
    BY <1>1 DEF PluginsEdit
  <2>2. lookup' = None \/ lookup'.hook \in stale'
    BY <2>1 DEF EntriesInv, PluginsTypeOK, HookLookups
  <2> QED
    BY <2>1, <2>2, CollectNothing
<1>2. CASE OpenPlugins \/ CancelPlugins
  BY <1>2, CollectFrame DEF OpenPlugins, CancelPlugins
<1>3. CASE OKPlugins
  BY <1>3, CollectNothing DEF OKPlugins, Reset, Effective
<1> QED
  BY <1>1, <1>2, <1>3 DEF PluginDialog, AddPluginConfigModuleInfo, ModuleEnable, ModuleRemove,
     EnableDisableAllPlugins

\* Each option that changes something is followed by a reset.
LEMMA PluginOptionsCollects ==
  ASSUME EntriesInv, CollectInv, PluginOptions
  PROVE  CollectInv'
<1>1. ASSUME NEW c, NEW worked \in BOOLEAN, NEW sign, Option(c, worked, sign),
             worked \/ c = config
      PROVE  CollectInv'
  <2>1. lookup = None /\ lookup' = None /\ config' = Referred(c)
        /\ resetting' = (resetting \/ worked)
    BY <1>1 DEF Option
  <2>2. CASE resetting'
    BY <1>1, <2>1, <2>2, CollectNothing DEF Option, Reset
  <2>3. CASE ~resetting'
    <3>1. config' = Referred(config)
      BY <1>1, <2>1, <2>3
    <3>2. Enabled(config') = Enabled(config) /\ config'.classes = config.classes
      BY <3>1, ReferredThere DEF EntriesInv, PluginsTypeOK
    <3>3. UNCHANGED <<loaded, methods, stale, late>>
      BY <1>1, <2>3 DEF Option
    <3> QED
      BY <2>1, <3>2, <3>3, CollectFrame
  <2> QED
    BY <2>2, <2>3
<1>2. CASE BeginPluginOptions \/ EndPluginOptions
  BY <1>2, CollectFrame DEF BeginPluginOptions, EndPluginOptions
<1> QED
  BY <1>1, <1>2
     DEF PluginOptions, OptionTempPlugins, OptionAddPlugin, OptionReloadPlugin, OptionRemovePlugin

LEMMA PluginStepCollects ==
  ASSUME EntriesInv, CollectInv, PluginStep
  PROVE  CollectInv'
<1>1. CASE WritePlugins \/ SavePluginsAtClose
  BY <1>1, CollectFrame DEF WritePlugins, SavePluginsAtClose
<1>2. CASE FreshenModuleInfos \/ AbandonFreshening
  <2>1. lookup' = None /\ lookup = None /\ UNCHANGED <<loaded, methods, late>>
        /\ stale' = IF config' = config THEN stale ELSE Hooks
    BY <1>2 DEF FreshenModuleInfos, AbandonFreshening
  <2> QED
    BY <2>1, CollectFrame, CollectNothing
<1>3. ASSUME NEW n \in Plugins, NEW v \in CodeVersions \cup {None}, CodeChanges(n, v)
      PROVE  CollectInv'
  BY <1>3, CollectFrame DEF CodeChanges
<1> QED
  BY <1>1, <1>2, <1>3, PluginDialogCollects, PluginOptionsCollects, HookLookupCollects DEF PluginStep

LEMMA CollectStep ==
  ASSUME EntriesInv, NoProcess, CollectInv, [ConfigurationNext]_allVars
  PROVE  CollectInv'
<1>1. ASSUME NEW m \in {"gui", "cmd"}, Start(m) PROVE CollectInv'
  <2>1. UNCHANGED <<methods, lookup>>
    BY <1>1 DEF Start, PluginsStart
  <2>2. methods' = NoMethods /\ lookup' = None
    BY <1>1, <2>1 DEF Start, NoProcess
  <2> QED
    BY <2>2, CollectNothing
<1>2. CASE Quit
  BY <1>2, CollectFrame DEF Quit, pluginVars
<1>3. CASE RunAgain
  <2>1. lookup' = None /\ methods' = NoMethods
    BY <1>3 DEF RunAgain, PluginsReady, PluginsClose, Reset
  <2> QED
    BY <2>1, CollectNothing
<1>4. CASE Gone \/ Killed
  <2>1. lookup' = None /\ methods' = NoMethods
    BY <1>4 DEF Gone, Killed, End, PluginsGone
  <2> QED
    BY <2>1, CollectNothing
<1>5. CASE PackagesTurn
  BY <1>5, CollectFrame DEF PackagesTurn, pluginVars
<1>6. CASE PluginsTurn
  BY <1>6, PluginStepCollects DEF PluginsTurn
<1>7. CASE UNCHANGED allVars
  BY <1>7, CollectFrame DEF allVars, pluginVars
<1> QED
  BY <1>1, <1>2, <1>3, <1>4, <1>5, <1>6, <1>7 DEF ConfigurationNext

\* HooksCurrent: whatever is edited, loaded, closed or started while hooks are
\* looked up, the methods kept for a hook are those of all plug-ins that have it,
\* unless an edit or a load that came after is known to have outdated the list.
THEOREM HooksCorrect == ConfigurationSpec => []HooksCurrent
<1>1. ConfigurationInit => CollectInv
  BY DEF ConfigurationInit, PluginsInit, CollectInv, NoMethods
<1>2. EntriesInv /\ CollectInv => HooksCurrent
  BY DEF EntriesInv, CollectInv, HooksCurrent
<1> QED
  BY <1>1, <1>2, AlwaysEntries, CollectStep, PTL DEF ConfigurationSpec
=============================================================================
