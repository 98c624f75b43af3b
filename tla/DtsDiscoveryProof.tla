------------------------- MODULE DtsDiscoveryProof -------------------------
(***************************************************************************)
(* Theorems about DtsDiscovery for every taxonomy: any number of documents,  *)
(* references and namespaces.                                               *)
(***************************************************************************)
EXTENDS DtsDiscovery, TLAPS

\* A call put on the stack: the frames below it keep their order.
LEMMA Push ==
  ASSUME NEW T, NEW x \in T, NEW s \in Seq(T)
  PROVE  /\ <<x>> \o s \in Seq(T)
         /\ Len(<<x>> \o s) = Len(s) + 1
         /\ (<<x>> \o s)[1] = x
         /\ \A i \in 1..Len(s) : (<<x>> \o s)[i + 1] = s[i]
  OBVIOUS

\* The innermost call and its callers.
LEMMA Calls ==
  ASSUME TypeOK, stack # <<>>
  PROVE  Top \in FrameType /\ Callers \in Seq(FrameType)
  BY DEF TypeOK, Top, Callers

\* The reference at the top of the stack.
LEMMA ItemAtTop ==
  ASSUME TypeOK, stack # <<>>, Top.next <= Len(Items(Top))
  PROVE  /\ Item.to \in Docs /\ Item.ns \in Namespaces \cup {None}
         /\ Top.kind = "hints" => Item.how = "hint" /\ Item.ns \in Namespaces
         /\ Top.kind # "hints" =>
               /\ Top.next \in 1..Len(file[Top.doc].refs)
               /\ Item = file[Top.doc].refs[Top.next]
               /\ Item.how \in Hows
<1>1. Top \in FrameType /\ Top.doc \in Docs /\ Top.next \in Nat \ {0}
  BY Calls DEF FrameType
<1>2. file[Top.doc].refs \in Seq(Refs) /\ file[Top.doc].hints \in Seq(Hints)
  BY <1>1 DEF TypeOK, Files
<1>3. CASE Top.kind = "hints"
  <2>1. Items(Top) = HintRefs(Top.doc)
    BY <1>3 DEF Items
  <2>2. Len(HintRefs(Top.doc)) = Len(file[Top.doc].hints)
    BY <1>2 DEF HintRefs
  <2>3. Top.next \in 1..Len(file[Top.doc].hints)
    BY <1>1, <1>2, <2>1, <2>2
  <2>4. file[Top.doc].hints[Top.next] \in Hints
    BY <1>2, <2>3
  <2> QED
    BY <1>3, <2>1, <2>3, <2>4 DEF Item, HintRefs, Hints
<1>4. CASE Top.kind # "hints"
  <2>1. Items(Top) = file[Top.doc].refs
    BY <1>4 DEF Items
  <2>2. Top.next \in 1..Len(file[Top.doc].refs)
    BY <1>1, <1>2, <2>1
  <2>3. Item = file[Top.doc].refs[Top.next] /\ Item \in Refs
    BY <1>2, <2>1, <2>2 DEF Item
  <2> QED
    BY <1>4, <2>2, <2>3 DEF Refs
<1> QED
  BY <1>3, <1>4

\* What frames become keeps their type.
LEMMA FrameSteps ==
  /\ \A d \in Docs : \A k \in {"new", "included", "rescan", "hints"} : Frame(d, k) \in FrameType
  /\ \A f \in FrameType : Past(f) \in FrameType
  /\ \A f \in FrameType : \A d \in Docs \cup {None} : Waiting(f, d) \in FrameType
  BY DEF Frame, Past, Waiting, Scan, FrameType

-----------------------------------------------------------------------------
DocTypes ==
    /\ urlDocs \in [Docs -> Docs \cup {None}]
    /\ order \in Seq(Docs)
    /\ type \in [Docs -> Types \cup {None}]
    /\ inDTS \in [Docs -> BOOLEAN]
    /\ targetNs \in [Docs -> Namespaces \cup {None}]
    /\ namespaceDocs \in [Namespaces \cup {None} -> Seq(Docs)]
    /\ outside \subseteq Docs

\* The schema load() takes for another is one of the documents.
LEMMA CopyType ==
  ASSUME TypeOK, NEW u \in Docs, NEW included
  PROVE  Copy(u, included) \in Docs \cup {None}
<1>1. file[u].ns \in Namespaces \cup {None}
  BY DEF TypeOK, Files
<1>2. namespaceDocs[file[u].ns] \in Seq(Docs)
  BY <1>1 DEF TypeOK
<1> QED
  BY <1>2 DEF Copy

\* Making a document keeps the types.
LEMMA NewDocumentType ==
  ASSUME TypeOK, NEW u \in Docs, NEW entry \in BOOLEAN, NEW discovered \in BOOLEAN,
         NEW included \in BOOLEAN, NEW expected \in Namespaces \cup {None},
         NEW callers \in Seq(FrameType),
         NewDocument(u, entry, discovered, included, expected, callers)
  PROVE  DocTypes' /\ stack' \in Seq(FrameType)
<1> USE DEF TypeOK
<1>1. file[u].ns \in Namespaces \cup {None}
  BY DEF Files
<1>2. TypeOf(u, entry, discovered) \in Types
  BY DEF TypeOf, Types
<1>3. urlDocs' \in [Docs -> Docs \cup {None}] /\ order' \in Seq(Docs)
  BY DEF NewDocument
<1>4. type' \in [Docs -> Types \cup {None}]
  BY <1>2 DEF NewDocument
<1>5. inDTS' \in [Docs -> BOOLEAN] /\ outside' \subseteq Docs
  BY DEF NewDocument
<1>6. targetNs' \in [Docs -> Namespaces \cup {None}]
  BY <1>1 DEF NewDocument
<1>7. namespaceDocs' \in [Namespaces \cup {None} -> Seq(Docs)]
  <2>1. Register(u, included, expected)
    BY DEF NewDocument
  <2>2. CASE namespaceDocs' = [namespaceDocs EXCEPT ![file[u].ns] = Append(@, u)]
    <3>1. Append(namespaceDocs[file[u].ns], u) \in Seq(Docs)
      BY <1>1
    <3> QED
      BY <2>2, <3>1
  <2> QED
    BY <2>1, <2>2 DEF Register
<1>8. stack' \in Seq(FrameType)
  <2>1. Frame(u, IF included THEN "included" ELSE "new") \in FrameType
    BY FrameSteps
  <2>2. <<Frame(u, IF included THEN "included" ELSE "new")>> \o callers \in Seq(FrameType)
    BY <2>1, Push
  <2> QED
    BY <2>2 DEF NewDocument
<1> QED
  BY <1>3, <1>4, <1>5, <1>6, <1>7, <1>8 DEF DocTypes

\* A nested call of load keeps the types.
LEMMA LoadType ==
  ASSUME TypeOK, stack # <<>>, NEW u \in Docs, NEW discovered \in BOOLEAN,
         NEW included \in BOOLEAN, NEW expected \in Namespaces \cup {None},
         Load(u, discovered, included, expected)
  PROVE  DocTypes' /\ stack' \in Seq(FrameType) /\ unloadable' \subseteq Docs
<1> DEFINE returning(d) == <<Waiting(Top, d)>> \o Callers
<1>1. \A d \in Docs \cup {None} : returning(d) \in Seq(FrameType)
  BY Calls, FrameSteps, Push
<1>2. Copy(u, included) \in Docs \cup {None}
  BY CopyType
<1>3. urlDocs[u] \in Docs \cup {None}
  BY DEF TypeOK
<1> HIDE DEF returning
<1>4. CASE UNCHANGED docVars /\ unloadable' \in {unloadable, unloadable \cup {u}}
           /\ stack' \in {returning(urlDocs[u]), returning(None)}
  BY <1>1, <1>3, <1>4 DEF TypeOK, DocTypes, docVars
<1>5. CASE /\ urlDocs' = [urlDocs EXCEPT ![u] = Copy(u, included)]
           /\ stack' = returning(Copy(u, included))
           /\ UNCHANGED <<order, type, inDTS, targetNs, namespaceDocs, outside, unloadable>>
  BY <1>1, <1>2, <1>5 DEF TypeOK, DocTypes
<1>6. CASE /\ NewDocument(u, FALSE, discovered, included, expected, returning(u))
           /\ UNCHANGED unloadable
  <2>1. returning(u) \in Seq(FrameType)
    BY <1>1
  <2>2. DocTypes' /\ stack' \in Seq(FrameType)
    BY <1>6, <2>1, NewDocumentType
  <2> QED
    BY <1>6, <2>2 DEF TypeOK
<1> QED
  BY <1>4, <1>5, <1>6 DEF Load, returning



\* Going on to the next reference, or returning, keeps the stack's type.
LEMMA StackSteps ==
  ASSUME TypeOK, stack # <<>>
  PROVE  /\ <<Past(Top)>> \o Callers \in Seq(FrameType)
         /\ Callers \in Seq(FrameType)
         /\ \A d \in Docs \cup {None} : <<Waiting(Top, d)>> \o Callers \in Seq(FrameType)
         /\ Top.doc \in Docs /\ Top.got \in Docs \cup {None}
  BY Calls, FrameSteps, Push DEF FrameType

\* The schema an import finds is one of the documents.
LEMMA MatchType ==
  ASSUME TypeOK, NEW ref, ref.to \in Docs, NEW n \in Namespaces \cup {None}
  PROVE  Match(ref, n) \in Docs \cup {None}
<1>1. namespaceDocs[n] \in Seq(Docs)
  BY DEF TypeOK
<1>2. namespaceDocs[n] # <<>> => namespaceDocs[n][Len(namespaceDocs[n])] \in Docs
  BY <1>1
<1> QED
  BY <1>2 DEF Match

\* Every variable keeps its type, in particular all that is referred to, queued
\* or registered is a document, however the taxonomy's references are arranged.
THEOREM TypeCorrect == Spec => []TypeOK
<1>1. Init => TypeOK
  <2> SUFFICES ASSUME Init PROVE TypeOK
    OBVIOUS
  <2>1. file \in [Docs -> Files]
    BY TaxonomiesAssumption DEF Init
  <2> QED
    BY <2>1 DEF Init, TypeOK
<1>2. TypeOK /\ [Next]_vars => TypeOK'
  <2> SUFFICES ASSUME TypeOK, [Next]_vars PROVE TypeOK'
    OBVIOUS
  <2>0. file' = file /\ file' \in [Docs -> Files]
    BY DEF TypeOK, Next, vars, LoadEntry, Import, IgnoreLink, Href, Element, Xbrldi, Hint,
           ImportReturns, HrefPromotes, HrefReturns, HintReturns, Return, EntryLoaded,
           LocateSchemas, Finish
  <2>1. CASE LoadEntry
    <3>1. CASE unloadable' = {Entry} /\ UNCHANGED <<docVars, stack>>
      BY <2>0, <2>1, <3>1, DocsAssumption DEF TypeOK, LoadEntry, docVars, history
    <3>2. CASE /\ NewDocument(Entry, TRUE, FALSE, FALSE, None, <<>>)
               /\ UNCHANGED unloadable
      <4>1. <<>> \in Seq(FrameType)
        OBVIOUS
      <4>2. DocTypes' /\ stack' \in Seq(FrameType)
        BY <3>2, <4>1, NewDocumentType, DocsAssumption
      <4> QED
        BY <2>0, <2>1, <3>2, <4>2 DEF TypeOK, DocTypes, LoadEntry, history
    <3> QED
      BY <2>1, <3>1, <3>2 DEF LoadEntry
  <2>2. CASE Import
    <3>1. stack # <<>> /\ Top.next <= Len(Items(Top))
      BY <2>2 DEF Import, AtItem
    <3>2. Item.to \in Docs /\ Item.ns \in Namespaces \cup {None}
      BY <3>1, ItemAtTop
    <3> DEFINE n == ImportNs(Top.doc, Item)
               doc == Match(Item, n)
               call == <<Waiting(Top, doc)>> \o Callers
    <3>3. n \in Namespaces \cup {None}
      BY <3>1, <3>2, StackSteps DEF ImportNs, TypeOK
    <3>4. doc \in Docs \cup {None}
      BY <3>2, <3>3, MatchType
    <3>5. call \in Seq(FrameType) /\ inDTS[Top.doc] \in BOOLEAN
      BY <3>1, <3>4, StackSteps DEF TypeOK
    <3>6. DocTypes' /\ stack' \in Seq(FrameType) /\ unloadable' \subseteq Docs
      <4>1. CASE stack' = <<Past(Top)>> \o Callers /\ UNCHANGED <<docVars, unloadable>>
        BY <3>1, <4>1, StackSteps DEF TypeOK, DocTypes, docVars
      <4>2. CASE Load(Item.to, inDTS[Top.doc], Item.how = "include", n)
        BY <3>1, <3>2, <3>3, <3>5, <4>2, LoadType
      <4>3. CASE stack' = call /\ UNCHANGED <<docVars, unloadable>>
        BY <3>5, <4>3 DEF TypeOK, DocTypes, docVars
      <4>4. CASE /\ doc # None /\ Promote(doc)
                 /\ stack' = <<Frame(doc, "rescan")>> \o call
                 /\ UNCHANGED <<urlDocs, order, type, targetNs, namespaceDocs, outside, unloadable>>
        <5>1. Frame(doc, "rescan") \in FrameType
          BY <3>4, <4>4, FrameSteps
        <5>2. stack' \in Seq(FrameType)
          BY <3>5, <4>4, <5>1, Push
        <5> QED
          BY <4>4, <5>2 DEF TypeOK, DocTypes, Promote
      <4> QED
        BY <2>2, <4>1, <4>2, <4>3, <4>4 DEF Import
    <3>7. asked' \subseteq Namespaces
      BY <2>2, <3>3 DEF Import, TypeOK
    <3> QED
      BY <2>0, <2>2, <3>6, <3>7 DEF TypeOK, DocTypes, Import, history
  <2>3. CASE IgnoreLink
    <3>1. stack # <<>>
      BY <2>3 DEF IgnoreLink, AtItem
    <3>2. stack' \in Seq(FrameType)
      BY <2>3, <3>1, StackSteps DEF IgnoreLink
    <3> QED
      BY <2>0, <2>3, <3>2 DEF TypeOK, IgnoreLink, docVars, history
  <2>4. CASE Href
    <3>1. stack # <<>> /\ Top.next <= Len(Items(Top)) /\ Top.doc \in Docs /\ Top.next \in Nat
      BY <2>4, Calls DEF Href, AtItem, FrameType
    <3>2. Item.to \in Docs
      BY <3>1, ItemAtTop
    <3>3. Load(Item.to, Item.how # "locator", FALSE, None)
      BY <2>4 DEF Href
    <3>4. DocTypes' /\ stack' \in Seq(FrameType) /\ unloadable' \subseteq Docs
      BY <3>1, <3>2, <3>3, LoadType
    <3>5. processed' \subseteq Docs \X Nat /\ again' \subseteq processed'
      BY <2>4, <3>1 DEF Href, TypeOK
    <3> QED
      BY <2>0, <2>4, <3>4, <3>5 DEF TypeOK, DocTypes, Href
  <2>5. CASE Element
    <3>1. stack # <<>> /\ Top.next <= Len(Items(Top)) /\ Top.doc \in Docs
      BY <2>5, StackSteps DEF Element, AtItem
    <3>2. Item.ns \in Namespaces \cup {None}
      BY <3>1, ItemAtTop
    <3>3. DocTypes' /\ stack' \in Seq(FrameType) /\ unloadable' \subseteq Docs
      <4>1. ASSUME NEW i \in 1..Len(file[Top.doc].hints),
                   Load(file[Top.doc].hints[i].to, FALSE, FALSE, Item.ns)
            PROVE  DocTypes' /\ stack' \in Seq(FrameType) /\ unloadable' \subseteq Docs
        <5>1. file[Top.doc].hints \in Seq(Hints)
          BY <3>1 DEF TypeOK, Files
        <5>2. file[Top.doc].hints[i] \in Hints
          BY <5>1
        <5>3. file[Top.doc].hints[i].to \in Docs
          BY <5>2 DEF Hints
        <5> QED
          BY <3>1, <3>2, <4>1, <5>3, LoadType
      <4>2. CASE stack' = <<Past(Top)>> \o Callers /\ UNCHANGED <<docVars, unloadable>>
        BY <3>1, <4>2, StackSteps DEF TypeOK, DocTypes, docVars
      <4> QED
        BY <2>5, <4>1, <4>2 DEF Element
    <3>4. attempted' \in [Docs -> SUBSET (Namespaces \cup {None})]
      BY <2>5, <3>2 DEF Element, TypeOK
    <3> QED
      BY <2>0, <2>5, <3>3, <3>4 DEF TypeOK, DocTypes, Element, history
  <2>6. CASE Xbrldi
    <3>1. stack # <<>>
      BY <2>6 DEF Xbrldi, AtItem
    <3>2. Load(XbrldiDoc, FALSE, FALSE, XbrldiNs)
      BY <2>6 DEF Xbrldi
    <3>3. DocTypes' /\ stack' \in Seq(FrameType) /\ unloadable' \subseteq Docs
      BY <3>1, <3>2, LoadType, DocsAssumption
    <3> QED
      BY <2>0, <2>6, <3>3 DEF TypeOK, DocTypes, Xbrldi, history
  <2>7. CASE Hint
    <3>1. stack # <<>> /\ Top.next <= Len(Items(Top))
      BY <2>7 DEF Hint, AtItem
    <3>2. Item.to \in Docs /\ Item.ns \in Namespaces \cup {None}
      BY <3>1, ItemAtTop
    <3>3. DocTypes' /\ stack' \in Seq(FrameType) /\ unloadable' \subseteq Docs
      <4>1. CASE Load(Item.to, FALSE, FALSE, Item.ns)
        BY <3>1, <3>2, <4>1, LoadType
      <4>2. CASE stack' = <<Past(Top)>> \o Callers /\ UNCHANGED <<docVars, unloadable>>
        BY <3>1, <4>2, StackSteps DEF TypeOK, DocTypes, docVars
      <4> QED
        BY <2>7, <4>1, <4>2 DEF Hint
    <3> QED
      BY <2>0, <2>7, <3>3 DEF TypeOK, DocTypes, Hint, history
  <2>8. CASE ImportReturns \/ HrefReturns
    <3>1. stack # <<>>
      BY <2>8 DEF ImportReturns, HrefReturns, Returned
    <3>2. stack' \in Seq(FrameType)
      BY <2>8, <3>1, StackSteps DEF ImportReturns, HrefReturns
    <3>3. references' \in [Docs -> SUBSET Docs]
      <4>1. Top.doc \in Docs /\ Top.got \in Docs \cup {None}
        BY <3>1, StackSteps
      <4>2. references \in [Docs -> SUBSET Docs]
        BY DEF TypeOK
      <4>3. CASE Refer(Top.got)
        BY <4>1, <4>2, <4>3 DEF Refer
      <4>4. CASE UNCHANGED references
        BY <4>2, <4>4
      <4> QED
        BY <2>8, <4>3, <4>4 DEF ImportReturns, HrefReturns
    <3> QED
      BY <2>0, <2>8, <3>2, <3>3 DEF TypeOK, ImportReturns, HrefReturns, docVars, history
  <2>9. CASE HrefPromotes
    <3>1. stack # <<>> /\ Top.got # None
      BY <2>9 DEF HrefPromotes, Returned, NewlyDiscovered
    <3>2. Top.got \in Docs
      BY <3>1, StackSteps
    <3>3. <<Frame(Top.got, "rescan")>> \o stack \in Seq(FrameType)
      BY <3>2, FrameSteps, Push DEF TypeOK
    <3>4. stack' \in Seq(FrameType)
      <4>1. stack \in Seq(FrameType)
        BY DEF TypeOK
      <4>2. <<>> \o stack = stack
        BY <4>1
      <4>3. CASE type[Top.got] = "schema"
        BY <2>9, <3>3, <4>3 DEF HrefPromotes
      <4>4. CASE type[Top.got] # "schema"
        BY <2>9, <4>1, <4>2, <4>4 DEF HrefPromotes
      <4> QED
        BY <4>3, <4>4
    <3> QED
      BY <2>0, <2>9, <3>4 DEF TypeOK, HrefPromotes, Promote, history
  <2>10. CASE HintReturns
    <3>1. stack # <<>>
      BY <2>10 DEF HintReturns, Returned
    <3>2. stack' \in Seq(FrameType)
      BY <2>10, <3>1, StackSteps DEF HintReturns
    <3>3. inDTS' \in [Docs -> BOOLEAN]
      BY <2>10 DEF HintReturns, TypeOK
    <3> QED
      BY <2>0, <2>10, <3>2, <3>3 DEF TypeOK, HintReturns, history
  <2>11. CASE Return
    <3>1. stack # <<>>
      BY <2>11 DEF Return
    <3>2. stack' \in Seq(FrameType) /\ Top.doc \in Docs
      BY <2>11, <3>1, StackSteps DEF Return
    <3>3. Queue(Top) \subseteq Docs
      <4>1. file[Top.doc].ns \in Namespaces \cup {None}
        BY <3>2 DEF TypeOK, Files
      <4>2. namespaceDocs[file[Top.doc].ns] \in Seq(Docs)
        BY <4>1 DEF TypeOK
      <4> QED
        BY <3>2, <4>2 DEF Queue
    <3> QED
      BY <2>0, <2>11, <3>2, <3>3 DEF TypeOK, Return, docVars, history
  <2>12. CASE EntryLoaded
    BY <2>0, <2>12 DEF TypeOK, EntryLoaded, docVars, history
  <2>13. CASE LocateSchemas
    <3>1. order[located + 1] \in Docs
      BY <2>13 DEF LocateSchemas, TypeOK
    <3>2. Frame(order[located + 1], "hints") \in FrameType
      BY <3>1, FrameSteps
    <3>3. stack' \in Seq(FrameType)
      BY <2>13, <3>2 DEF LocateSchemas
    <3> QED
      BY <2>0, <2>13, <3>3 DEF TypeOK, LocateSchemas, docVars, history
  <2>14. CASE Finish
    BY <2>0, <2>14 DEF TypeOK, Finish, docVars, history
  <2>15. CASE UNCHANGED vars
    BY <2>15 DEF TypeOK, vars, docVars, history
  <2> QED
    BY <2>1, <2>2, <2>3, <2>4, <2>5, <2>6, <2>7, <2>8, <2>9, <2>10, <2>11, <2>12, <2>13,
       <2>14, <2>15 DEF Next
<1> QED
  BY <1>1, <1>2, PTL DEF Spec

-----------------------------------------------------------------------------
(* Soundness of the DTS, for a set S that holds the entry point and all that  *)
(* its members refer to.                                                     *)

\* The reference that a call waits for.
Awaited(f) == file[f.doc].refs[f.next]

\* A scan that reads links belongs to a schema or to a document of S, and what
\* it gets for a link of the DTS is in S.
FrameSound(f, S) ==
    f.kind # "hints" =>
        /\ file[f.doc].root = "schema" \/ f.doc \in S
        /\ (/\ f.waiting /\ f.next \in 1..Len(file[f.doc].refs)
            /\ Awaited(f).how \in Links /\ f.got # None) => f.got \in S

StackSound(stk, S) == \A i \in 1..Len(stk) : FrameSound(stk[i], S)

\* What documents are loaded and registered as.
RegistrySound ==
    /\ \A u \in Docs : urlDocs[u] # None => urlDocs[u] = u \/ SameSchema(u, urlDocs[u])
    /\ \A n \in Namespaces \cup {None} : \A i \in 1..Len(namespaceDocs[n]) :
           LET d == namespaceDocs[n][i]
           IN  file[d].root = "schema" /\ file[d].ns = n

Sound(S) ==
    /\ TypeOK /\ RegistrySound
    /\ Dts \subseteq S
    /\ StackSound(stack, S)

\* A frame that is put on the stack is sound if it and those below are.
LEMMA PushSound ==
  ASSUME NEW S, NEW f \in FrameType, NEW stk \in Seq(FrameType),
         FrameSound(f, S), StackSound(stk, S)
  PROVE  StackSound(<<f>> \o stk, S)
<1> SUFFICES ASSUME NEW i \in 1..Len(<<f>> \o stk)
             PROVE  FrameSound((<<f>> \o stk)[i], S)
  BY DEF StackSound
<1>1. CASE i = 1
  BY <1>1, Push
<1>2. CASE i # 1
  <2>1. i - 1 \in 1..Len(stk) /\ (<<f>> \o stk)[(i - 1) + 1] = stk[i - 1]
    BY <1>2, Push
  <2>2. (i - 1) + 1 = i
    BY <2>1
  <2> QED
    BY <2>1, <2>2 DEF StackSound
<1> QED
  BY <1>1, <1>2

\* The callers of a sound stack are sound, and so is the next reference's scan.
LEMMA CallersSound ==
  ASSUME NEW S, Sound(S), stack # <<>>
  PROVE  /\ FrameSound(Top, S)
         /\ StackSound(Callers, S)
         /\ StackSound(<<Past(Top)>> \o Callers, S)
<1> USE DEF Sound
<1>1. stack \in Seq(FrameType) /\ Top \in FrameType /\ Callers \in Seq(FrameType)
  BY Calls DEF TypeOK
<1>2. FrameSound(Top, S)
  BY <1>1 DEF StackSound, Top
<1>3. StackSound(Callers, S)
  <2> SUFFICES ASSUME NEW i \in 1..Len(Callers) PROVE FrameSound(Callers[i], S)
    BY DEF StackSound
  <2>1. i + 1 \in 1..Len(stack) /\ Callers[i] = stack[i + 1]
    BY <1>1 DEF Callers
  <2> QED
    BY <2>1 DEF StackSound
<1>4. FrameSound(Past(Top), S)
  BY <1>2 DEF FrameSound, Past, Scan
<1>5. Past(Top) \in FrameType
  BY <1>1, FrameSteps
<1> QED
  BY <1>1, <1>2, <1>3, <1>4, <1>5, PushSound

\* Waiting for a result keeps the stack sound if that result may be discovered.
LEMMA WaitingSound ==
  ASSUME NEW S, Sound(S), stack # <<>>, NEW d \in Docs \cup {None},
         (Top.kind # "hints" /\ Awaited(Top).how \in Links /\ d # None) => d \in S
  PROVE  StackSound(<<Waiting(Top, d)>> \o Callers, S)
<1>1. Waiting(Top, d) \in FrameType /\ Callers \in Seq(FrameType)
  BY Calls, FrameSteps DEF Sound
<1>2. FrameSound(Waiting(Top, d), S)
  BY CallersSound DEF FrameSound, Waiting, Awaited
<1> QED
  BY <1>1, <1>2, CallersSound, PushSound

\* The next state's stack is sound if it is one that is sound now.
LEMMA NextStack ==
  ASSUME NEW S, NEW stk \in Seq(FrameType), StackSound(stk, S), stack' = stk, file' = file
  PROVE  StackSound(stack, S)'
  BY DEF StackSound, FrameSound, Awaited

\* The registry is sound as long as files, URLs and namespaces stay as they are.
LEMMA SameRegistry ==
  ASSUME RegistrySound, file' = file, urlDocs' = urlDocs, namespaceDocs' = namespaceDocs
  PROVE  RegistrySound'
  BY DEF RegistrySound, SameSchema

\* A document that is made is registered as itself, and is in S if it is in the DTS.
LEMMA NewDocumentSound ==
  ASSUME NEW S, Sound(S), file' = file, NEW u \in Docs,
         NEW entry \in BOOLEAN, NEW discovered \in BOOLEAN,
         NEW included \in BOOLEAN, NEW expected \in Namespaces \cup {None},
         NEW callers \in Seq(FrameType), StackSound(callers, S),
         NewDocument(u, entry, discovered, included, expected, callers),
         entry \/ discovered => u \in S
  PROVE  RegistrySound' /\ Dts' \subseteq S /\ StackSound(stack, S)'
<1> USE DEF Sound
<1>1. Dts' \subseteq S
  BY DEF NewDocument, Dts, TypeOK
<1>2. ASSUME NEW v \in Docs, urlDocs'[v] # None
      PROVE  (urlDocs[v] = v \/ SameSchema(v, urlDocs[v]))'
  <2>1. CASE v = u
    BY <2>1 DEF NewDocument, TypeOK
  <2>2. CASE v # u
    <3>1. urlDocs'[v] = urlDocs[v]
      BY <2>2 DEF NewDocument, TypeOK
    <3> QED
      BY <1>2, <3>1 DEF RegistrySound, SameSchema
  <2> QED
    BY <2>1, <2>2
<1>3. ASSUME NEW n \in Namespaces \cup {None}, NEW i \in 1..Len(namespaceDocs'[n])
      PROVE  file'[namespaceDocs'[n][i]].root = "schema" /\ file'[namespaceDocs'[n][i]].ns = n
  <2>1. namespaceDocs[n] \in Seq(Docs)
    BY DEF TypeOK
  <2>2. CASE namespaceDocs'[n] = namespaceDocs[n]
    BY <1>3, <2>2 DEF RegistrySound
  <2>3. CASE /\ namespaceDocs'[n] = Append(namespaceDocs[n], u)
             /\ file[u].root = "schema" /\ file[u].ns = n
    <3>1. CASE i = Len(namespaceDocs[n]) + 1
      BY <2>1, <2>3, <3>1
    <3>2. CASE i # Len(namespaceDocs[n]) + 1
      <4>1. i \in 1..Len(namespaceDocs[n]) /\ namespaceDocs'[n][i] = namespaceDocs[n][i]
        BY <1>3, <2>1, <2>3, <3>2
      <4> QED
        BY <4>1 DEF RegistrySound
    <3> QED
      BY <3>1, <3>2
  <2>4. Register(u, included, expected)
    BY DEF NewDocument
  <2> QED
    BY <2>2, <2>3, <2>4 DEF Register, TypeOK
<1>4. StackSound(stack, S)'
  <2>1. CASE TypeOf(u, entry, discovered) = "unknown"
    <3>1. stack' = callers
      BY <2>1 DEF NewDocument
    <3> QED
      BY <3>1, NextStack
  <2>2. CASE TypeOf(u, entry, discovered) # "unknown"
    <3> DEFINE f == Frame(u, IF included THEN "included" ELSE "new")
    <3>1. f \in FrameType
      BY FrameSteps
    <3>2. file[u].root = "schema" \/ u \in S
      BY <2>2 DEF TypeOf
    <3>3. FrameSound(f, S)
      BY <3>2 DEF FrameSound, Frame, Scan
    <3>4. StackSound(<<f>> \o callers, S) /\ <<f>> \o callers \in Seq(FrameType)
      BY <3>1, <3>3, Push, PushSound
    <3>5. stack' = <<f>> \o callers
      BY <2>2 DEF NewDocument
    <3> QED
      BY <3>4, <3>5, NextStack
  <2> QED
    BY <2>1, <2>2
<1> QED
  BY <1>1, <1>2, <1>3, <1>4 DEF RegistrySound

\* What is taken for a schema is the first of its namespace, and of its name.
LEMMA CopySame ==
  ASSUME TypeOK, RegistrySound, NEW u \in Docs, NEW included, Copy(u, included) # None
  PROVE  /\ Copy(u, included) \in Docs /\ SameSchema(u, Copy(u, included))
         /\ file[u].ns \in Namespaces
         /\ namespaceDocs[file[u].ns] \in Seq(Docs) /\ namespaceDocs[file[u].ns] # <<>>
         /\ Copy(u, included) = namespaceDocs[file[u].ns][1]
<1>1. file[u].ns \in Namespaces \cup {None}
  BY DEF TypeOK, Files
<1>2. namespaceDocs[file[u].ns] \in Seq(Docs)
  BY <1>1 DEF TypeOK
<1>3. /\ file[u].root = "schema" /\ file[u].ns # None
      /\ namespaceDocs[file[u].ns] # <<>>
      /\ BaseName[namespaceDocs[file[u].ns][1]] = BaseName[u]
      /\ Copy(u, included) = namespaceDocs[file[u].ns][1]
  BY DEF Copy
<1>4. 1 \in 1..Len(namespaceDocs[file[u].ns])
  BY <1>2, <1>3
<1> QED
  BY <1>1, <1>2, <1>3, <1>4 DEF RegistrySound, SameSchema

\* load() of u in the DTS only makes members of S, if u is a member.
LEMMA LoadSound ==
  ASSUME NEW S, Sound(S), stack # <<>>, file' = file, NEW u \in Docs,
         NEW discovered \in BOOLEAN, NEW included \in BOOLEAN,
         NEW expected \in Namespaces \cup {None},
         Load(u, discovered, included, expected),
         discovered => u \in S,
         (Top.kind # "hints" /\ Awaited(Top).how \in Links) =>
             \A t \in Docs : t = u \/ SameSchema(u, t) => t \in S
  PROVE  RegistrySound' /\ Dts' \subseteq S /\ StackSound(stack, S)'
<1> USE DEF Sound
<1> DEFINE returning(d) == <<Waiting(Top, d)>> \o Callers
           ok(d) == (Top.kind # "hints" /\ Awaited(Top).how \in Links /\ d # None) => d \in S
<1>1. ASSUME NEW d \in Docs \cup {None}, ok(d)
      PROVE  StackSound(returning(d), S) /\ returning(d) \in Seq(FrameType)
  BY <1>1, WaitingSound, StackSteps
<1>2. Copy(u, included) # None => /\ Copy(u, included) \in Docs
                                  /\ SameSchema(u, Copy(u, included))
  BY CopySame
<1>3. urlDocs[u] \in Docs \cup {None} /\ (urlDocs[u] # None => ok(urlDocs[u])) /\ ok(None) /\ ok(u)
  <2>1. urlDocs[u] \in Docs \cup {None}
    BY DEF TypeOK
  <2>2. urlDocs[u] # None => urlDocs[u] = u \/ SameSchema(u, urlDocs[u])
    BY DEF RegistrySound
  <2> QED
    BY <2>1, <2>2
<1>4. Copy(u, included) # None => ok(Copy(u, included))
  BY <1>2
<1> HIDE DEF ok, returning
<1>5. CASE UNCHANGED docVars /\ urlDocs[u] # None /\ stack' = returning(urlDocs[u])
  BY <1>1, <1>3, <1>5, NextStack, SameRegistry DEF docVars, Dts
<1>6. CASE UNCHANGED docVars /\ stack' = returning(None)
  BY <1>1, <1>3, <1>6, NextStack, SameRegistry DEF docVars, Dts
<1>7. CASE /\ Copy(u, included) # None
           /\ urlDocs' = [urlDocs EXCEPT ![u] = Copy(u, included)]
           /\ stack' = returning(Copy(u, included))
           /\ UNCHANGED <<order, type, inDTS, targetNs, namespaceDocs, outside, unloadable>>
  <2>1. StackSound(stack, S)'
    BY <1>1, <1>2, <1>4, <1>7, NextStack
  <2>2. RegistrySound'
    BY <1>2, <1>7 DEF RegistrySound, SameSchema, TypeOK
  <2> QED
    BY <1>7, <2>1, <2>2 DEF Dts
<1>8. CASE NewDocument(u, FALSE, discovered, included, expected, returning(u))
  <2>1. StackSound(returning(u), S) /\ returning(u) \in Seq(FrameType)
    BY <1>1, <1>3
  <2> QED
    BY <1>8, <2>1, NewDocumentSound
<1> QED
  BY <1>5, <1>6, <1>7, <1>8 DEF Load, returning

\* A reference of the DTS that a member of S holds leads into S.
LEMMA ReferredTo ==
  ASSUME NEW S \in SUBSET Docs, ClosedDts(S), TypeOK, stack # <<>>, Top.doc \in S,
         Top.next <= Len(Items(Top)), Top.kind # "hints", Item.how \in Schemas \cup Links
  PROVE  /\ Targets(Item) \subseteq S /\ Item.to \in S
         /\ \A t \in Docs : SameSchema(Item.to, t) => t \in S
<1>1. Item.to \in Docs /\ Top.next \in 1..Len(file[Top.doc].refs)
      /\ Item = file[Top.doc].refs[Top.next]
  BY ItemAtTop
<1>2. Item \in Refers(Top.doc)
  BY <1>1 DEF Refers
<1>3. Targets(Item) \subseteq S
  BY <1>2 DEF ClosedDts
<1> QED
  BY <1>1, <1>3 DEF Targets

\* What an import finds among the loaded schemas is one of its targets.
LEMMA MatchTarget ==
  ASSUME NEW S, Sound(S), stack # <<>>, Top.next <= Len(Items(Top)), Item.how \in Schemas,
         NEW n \in Namespaces, n = ImportNs(Top.doc, Item), Match(Item, n) # None
  PROVE  Match(Item, n) \in Targets(Item)
<1> USE DEF Sound
<1>1. Item.to \in Docs
  BY ItemAtTop
<1>2. namespaceDocs[n] \in Seq(Docs) /\ n # None
  BY DocsAssumption DEF TypeOK
<1> DEFINE last == namespaceDocs[n][Len(namespaceDocs[n])]
<1>3. CASE Match(Item, n) = Item.to
  BY <1>1, <1>3 DEF Targets
<1>4. CASE /\ namespaceDocs[n] # <<>> /\ Item.how = "import"
           /\ BaseName[last] = NsBaseName[n] /\ Match(Item, n) = last
  <2>1. Len(namespaceDocs[n]) \in 1..Len(namespaceDocs[n]) /\ last \in Docs
    BY <1>2, <1>4
  <2>2. file[last].root = "schema" /\ file[last].ns = n
    BY <2>1 DEF RegistrySound
  <2>3. Item.ns = n
    BY <1>4 DEF ImportNs
  <2> QED
    BY <1>2, <1>4, <2>1, <2>2, <2>3 DEF Targets, TakenByName
<1> QED
  BY <1>3, <1>4 DEF Match

\* Every step of the discovery keeps a sound state sound.
LEMMA SoundStep ==
  ASSUME NEW S \in SUBSET Docs, ClosedDts(S), Sound(S), TypeOK', [Next]_vars
  PROVE  Sound(S)'
<1> DEFINE Goal == RegistrySound' /\ Dts' \subseteq S /\ StackSound(stack, S)'
<1>0. TypeOK /\ RegistrySound /\ Dts \subseteq S /\ StackSound(stack, S)
      /\ stack \in Seq(FrameType)
  BY DEF Sound, TypeOK
<1> SUFFICES Goal
  BY DEF Sound
<1>a. file' = file
  BY DEF Next, vars, LoadEntry, Import, IgnoreLink, Href, Element, Xbrldi, Hint,
         ImportReturns, HrefPromotes, HrefReturns, HintReturns, Return, EntryLoaded,
         LocateSchemas, Finish
<1>b. ASSUME stack # <<>>, stack' = <<Past(Top)>> \o Callers,
             UNCHANGED <<urlDocs, namespaceDocs>>, Dts' \subseteq S
      PROVE  Goal
  <2>1. StackSound(<<Past(Top)>> \o Callers, S) /\ <<Past(Top)>> \o Callers \in Seq(FrameType)
    BY <1>0, <1>b, CallersSound, StackSteps
  <2>2. StackSound(stack, S)'
    BY <1>a, <1>b, <2>1, NextStack
  <2> QED
    BY <1>0, <1>a, <1>b, <2>2, SameRegistry
<1>c. ASSUME UNCHANGED <<urlDocs, namespaceDocs, inDTS, stack>> PROVE Goal
  BY <1>0, <1>a, <1>c, NextStack, SameRegistry DEF Dts
<1>1. CASE LoadEntry
  <2>1. CASE UNCHANGED <<docVars, stack>>
    BY <1>c, <2>1 DEF docVars
  <2>2. CASE NewDocument(Entry, TRUE, FALSE, FALSE, None, <<>>)
    <3>1. <<>> \in Seq(FrameType) /\ StackSound(<<>>, S)
      BY DEF StackSound
    <3>2. Entry \in S
      BY DEF ClosedDts
    <3> QED
      BY <1>a, <2>2, <3>1, <3>2, NewDocumentSound, DocsAssumption
  <2> QED
    BY <1>1, <2>1, <2>2 DEF LoadEntry
<1>2. CASE Import
  <2>1. stack # <<>> /\ Top.next <= Len(Items(Top)) /\ Item.how \in Schemas
    BY <1>2 DEF Import, AtItem
  <2>2. /\ Item.to \in Docs /\ Item.ns \in Namespaces \cup {None} /\ Top.kind # "hints"
        /\ Awaited(Top) = Item /\ Top.doc \in Docs
    BY <1>0, <2>1, ItemAtTop, StackSteps DEF Awaited, Schemas
  <2> DEFINE n == ImportNs(Top.doc, Item)
             doc == Match(Item, n)
             call == <<Waiting(Top, doc)>> \o Callers
  <2>3. n \in Namespaces \cup {None} /\ inDTS[Top.doc] \in BOOLEAN
    BY <1>0, <2>2 DEF ImportNs, TypeOK
  <2>4. inDTS[Top.doc] => Top.doc \in S
    BY <1>0, <2>2 DEF Dts
  <2>5. Item.how \notin Links
    BY <2>1 DEF Schemas, Links
  <2>6. CASE n = None /\ stack' = <<Past(Top)>> \o Callers /\ UNCHANGED <<docVars, unloadable>>
    BY <1>0, <1>b, <2>1, <2>6 DEF docVars, Dts
  <2>7. CASE Load(Item.to, inDTS[Top.doc], Item.how = "include", n)
    <3>1. inDTS[Top.doc] => Item.to \in S
      BY <1>0, <2>1, <2>2, <2>4, ReferredTo
    <3> QED
      BY <1>a, <2>1, <2>2, <2>3, <2>5, <2>7, <3>1, LoadSound
  <2>8. doc \in Docs \cup {None} /\ call \in Seq(FrameType) /\ StackSound(call, S)
    <3>1. doc \in Docs \cup {None}
      BY <1>0, <2>2, <2>3, MatchType
    <3> QED
      BY <1>0, <2>1, <2>2, <2>5, <3>1, StackSteps, WaitingSound
  <2>9. CASE stack' = call /\ UNCHANGED <<docVars, unloadable>>
    BY <1>0, <1>a, <2>8, <2>9, NextStack, SameRegistry DEF docVars, Dts
  <2>10. CASE /\ n # None /\ doc # None /\ inDTS[Top.doc] /\ Promote(doc)
              /\ stack' = <<Frame(doc, "rescan")>> \o call
              /\ UNCHANGED <<urlDocs, order, type, targetNs, namespaceDocs, outside, unloadable>>
    <3>1. doc \in S
      <4>1. doc \in Targets(Item)
        BY <2>1, <2>3, <2>10, MatchTarget
      <4> QED
        BY <1>0, <2>1, <2>2, <2>4, <2>10, <4>1, ReferredTo
    <3>2. Frame(doc, "rescan") \in FrameType /\ FrameSound(Frame(doc, "rescan"), S)
      BY <2>8, <2>10, <3>1, FrameSteps DEF FrameSound, Frame, Scan
    <3>3. StackSound(stack, S)'
      BY <1>a, <2>8, <2>10, <3>2, Push, PushSound, NextStack
    <3>4. Dts' \subseteq S
      BY <1>0, <2>10, <3>1 DEF Promote, Dts, TypeOK
    <3> QED
      BY <1>0, <1>a, <2>10, <3>3, <3>4, SameRegistry
  <2> QED
    BY <1>2, <2>6, <2>7, <2>9, <2>10 DEF Import
<1>3. CASE IgnoreLink
  BY <1>0, <1>b, <1>3 DEF IgnoreLink, AtItem, docVars, Dts
<1>4. CASE Href
  <2>1. /\ stack # <<>> /\ Top.next <= Len(Items(Top))
        /\ Item.how \in Links \cup {"locator"} /\ ~LinkIgnored
        /\ Load(Item.to, Item.how # "locator", FALSE, None)
    BY <1>4 DEF Href, AtItem
  <2>2. /\ Item.to \in Docs /\ Top.kind # "hints" /\ Awaited(Top) = Item /\ Top.doc \in Docs
    BY <1>0, <2>1, ItemAtTop, StackSteps DEF Awaited, Links
  <2>3. Top.doc \in S
    <3>1. file[Top.doc].root = "schema" \/ Top.doc \in S
      BY <2>1, <2>2, CallersSound DEF FrameSound
    <3>2. file[Top.doc].root = "schema" => inDTS[Top.doc]
      BY <2>1 DEF LinkIgnored
    <3> QED
      BY <1>0, <2>2, <3>1, <3>2 DEF Dts
  <2>4. Item.how \in Links =>
           Item.to \in S /\ \A t \in Docs : SameSchema(Item.to, t) => t \in S
    BY <1>0, <2>1, <2>2, <2>3, ReferredTo
  <2>5. Item.how # "locator" => Item.how \in Links
    BY <2>1
  <2> QED
    BY <1>a, <2>1, <2>2, <2>4, <2>5, LoadSound
<1>5. CASE Element
  <2>1. stack # <<>> /\ Top.next <= Len(Items(Top)) /\ Item.how = "element" /\ Top.doc \in Docs
    BY <1>0, <1>5, StackSteps DEF Element, AtItem
  <2>2. Item.ns \in Namespaces \cup {None} /\ Top.kind # "hints" /\ Awaited(Top) = Item
    BY <1>0, <2>1, ItemAtTop DEF Awaited
  <2>3. Item.how \notin Links
    BY <2>1 DEF Links
  <2>4. ASSUME NEW i \in 1..Len(file[Top.doc].hints),
               Load(file[Top.doc].hints[i].to, FALSE, FALSE, Item.ns)
        PROVE  Goal
    <3>1. file[Top.doc].hints \in Seq(Hints)
      BY <1>0, <2>1 DEF TypeOK, Files
    <3>2. file[Top.doc].hints[i] \in Hints
      BY <3>1
    <3>3. file[Top.doc].hints[i].to \in Docs
      BY <3>2 DEF Hints
    <3> QED
      BY <1>a, <2>1, <2>2, <2>3, <2>4, <3>3, LoadSound
  <2>5. CASE stack' = <<Past(Top)>> \o Callers /\ UNCHANGED <<docVars, unloadable>>
    BY <1>0, <1>b, <2>1, <2>5 DEF docVars, Dts
  <2> QED
    BY <1>5, <2>4, <2>5 DEF Element
<1>6. CASE Xbrldi
  <2>1. /\ stack # <<>> /\ Top.next <= Len(Items(Top)) /\ Item.how = "xbrldi"
        /\ Load(XbrldiDoc, FALSE, FALSE, XbrldiNs)
    BY <1>6 DEF Xbrldi, AtItem
  <2>2. Top.kind # "hints" /\ Awaited(Top) = Item
    BY <1>0, <2>1, ItemAtTop DEF Awaited
  <2>3. Item.how \notin Links
    BY <2>1 DEF Links
  <2> QED
    BY <1>a, <2>1, <2>2, <2>3, LoadSound, DocsAssumption
<1>7. CASE Hint
  <2>1. stack # <<>> /\ Top.next <= Len(Items(Top)) /\ Item.how = "hint"
    BY <1>7 DEF Hint, AtItem
  <2>2. /\ Item.to \in Docs /\ Item.ns \in Namespaces \cup {None}
        /\ Top.kind # "hints" => Item.how \in Hows
    BY <1>0, <2>1, ItemAtTop
  <2>3. Top.kind = "hints"
    BY <2>1, <2>2 DEF Hows, Schemas, Links
  <2>4. CASE Load(Item.to, FALSE, FALSE, Item.ns)
    BY <1>a, <2>1, <2>2, <2>3, <2>4, LoadSound
  <2>5. CASE stack' = <<Past(Top)>> \o Callers /\ UNCHANGED <<docVars, unloadable>>
    BY <1>0, <1>b, <2>1, <2>5 DEF docVars, Dts
  <2> QED
    BY <1>7, <2>4, <2>5 DEF Hint
<1>8. CASE ImportReturns \/ HrefReturns
  BY <1>0, <1>b, <1>8 DEF ImportReturns, HrefReturns, Returned, docVars, Dts
<1>9. CASE HrefPromotes
  <2>1. /\ stack # <<>> /\ Top.next <= Len(Items(Top)) /\ Top.waiting
        /\ Item.how \in Links /\ Top.got # None
    BY <1>9 DEF HrefPromotes, Returned, NewlyDiscovered
  <2>2. /\ Top.kind # "hints" /\ Top.next \in 1..Len(file[Top.doc].refs) /\ Awaited(Top) = Item
        /\ Top.got \in Docs
    BY <1>0, <2>1, ItemAtTop, StackSteps DEF Awaited, Links
  <2>3. Top.got \in S
    BY <2>1, <2>2, CallersSound DEF FrameSound
  <2>4. Frame(Top.got, "rescan") \in FrameType /\ FrameSound(Frame(Top.got, "rescan"), S)
    BY <2>2, <2>3, FrameSteps DEF FrameSound, Frame, Scan
  <2>5. StackSound(stack, S)'
    <3>1. CASE type[Top.got] = "schema"
      <4>1. stack' = <<Frame(Top.got, "rescan")>> \o stack
        BY <1>9, <3>1 DEF HrefPromotes
      <4> QED
        BY <1>0, <1>a, <2>4, <4>1, Push, PushSound, NextStack
    <3>2. CASE type[Top.got] # "schema"
      <4>1. stack' = <<>> \o stack
        BY <1>9, <3>2 DEF HrefPromotes
      <4>2. stack' = stack
        BY <1>0, <4>1
      <4> QED
        BY <1>0, <1>a, <4>2, NextStack
    <3> QED
      BY <3>1, <3>2
  <2>6. Dts' \subseteq S
    BY <1>0, <1>9, <2>3 DEF HrefPromotes, Promote, Dts, TypeOK
  <2>7. UNCHANGED <<urlDocs, namespaceDocs>>
    BY <1>9 DEF HrefPromotes
  <2> QED
    BY <1>0, <1>a, <2>5, <2>6, <2>7, SameRegistry
<1>10. CASE HintReturns
  <2>1. Dts' \subseteq S
    BY <1>0, <1>10 DEF HintReturns, Dts, TypeOK
  <2> QED
    BY <1>b, <1>10, <2>1 DEF HintReturns, Returned
<1>11. CASE Return
  <2>1. stack # <<>> /\ stack' = Callers /\ UNCHANGED docVars
    BY <1>11 DEF Return
  <2>2. StackSound(Callers, S) /\ Callers \in Seq(FrameType)
    BY <1>0, <2>1, CallersSound, StackSteps
  <2> QED
    BY <1>0, <1>a, <2>1, <2>2, NextStack, SameRegistry DEF docVars, Dts
<1>12. CASE EntryLoaded \/ Finish
  BY <1>c, <1>12 DEF EntryLoaded, Finish, docVars
<1>13. CASE LocateSchemas
  <2>1. order[located + 1] \in Docs
    BY <1>0, <1>13 DEF LocateSchemas, TypeOK
  <2> DEFINE f == Frame(order[located + 1], "hints")
  <2>2. f \in FrameType /\ FrameSound(f, S)
    BY <2>1, FrameSteps DEF FrameSound, Frame, Scan
  <2>3. <<f>> \in Seq(FrameType) /\ StackSound(<<f>>, S)
    BY <2>2 DEF StackSound
  <2>4. stack' = <<f>> /\ UNCHANGED docVars
    BY <1>13 DEF LocateSchemas
  <2> QED
    BY <1>0, <1>a, <2>3, <2>4, NextStack, SameRegistry DEF docVars, Dts
<1>14. CASE UNCHANGED vars
  BY <1>c, <1>14 DEF vars, docVars
<1> QED
  BY <1>1, <1>2, <1>3, <1>4, <1>5, <1>6, <1>7, <1>8, <1>9, <1>10, <1>11, <1>12, <1>13, <1>14
     DEF Next

Inv == \A S \in SUBSET Docs : ClosedDts(S) => Sound(S)

LEMMA AlwaysSound == Spec => []Inv
<1>1. Init => Inv
  <2> SUFFICES ASSUME Init, NEW S \in SUBSET Docs, ClosedDts(S) PROVE Sound(S)
    BY DEF Inv
  <2>1. TypeOK
    <3>1. file \in [Docs -> Files]
      BY TaxonomiesAssumption DEF Init
    <3> QED
      BY <3>1 DEF Init, TypeOK
  <2>2. RegistrySound
    BY DEF Init, RegistrySound
  <2> QED
    BY <2>1, <2>2 DEF Init, Sound, Dts, StackSound
<1>2. TypeOK' /\ Inv /\ [Next]_vars => Inv'
  <2> SUFFICES ASSUME TypeOK', Inv, [Next]_vars, NEW S \in SUBSET Docs, ClosedDts(S)'
               PROVE  Sound(S)'
    BY DEF Inv
  <2>1. file' = file
    BY DEF Next, vars, LoadEntry, Import, IgnoreLink, Href, Element, Xbrldi, Hint,
           ImportReturns, HrefPromotes, HrefReturns, HintReturns, Return, EntryLoaded,
           LocateSchemas, Finish
  <2>2. ClosedDts(S)
    BY <2>1 DEF ClosedDts, Refers, Targets, SameSchema, TakenByName
  <2> QED
    BY <2>2, SoundStep DEF Inv
<1> QED
  BY <1>1, <1>2, TypeCorrect, PTL DEF Spec

\* For any taxonomy, however its documents refer to each other: only what the
\* entry point leads to by imports, includes and links is ever in the DTS.
THEOREM OnlyDiscoveredInDts == Spec => []DtsSound
<1>1. Inv => DtsSound
  BY DEF Inv, DtsSound, Sound
<1> QED
  BY <1>1, AlwaysSound, PTL

\* All documents are a closed set, so what is registered is sound always.
LEMMA RegistryCorrect == Spec => []RegistrySound
<1>1. Inv => RegistrySound
  BY DocsAssumption DEF Inv, Sound, ClosedDts, Targets
<1> QED
  BY <1>1, AlwaysSound, PTL

-----------------------------------------------------------------------------
(* The steps by what they do to the stack: few kinds of steps, so that each   *)
(* invariant of the scans needs few cases.                                   *)

HintHows == {"element", "xbrldi", "hint"}
LinkHows == Links \cup {"locator"}

\* The call was made for a reference of such a kind.
Awaits(f, hows) == f.waiting /\ f.next <= Len(Items(f)) /\ Items(f)[f.next].how \in hows

\* Nothing is called, made or promoted.
Rests == UNCHANGED <<docVars, stack, history>>

\* The scan goes on to its next reference.
Clears == /\ Awaits(Top, HintHows) /\ Top.got # None /\ targetNs[Top.got] = Expected
          /\ inDTS' = [inDTS EXCEPT ![Top.got] = FALSE]
Skips ==
    /\ stack # <<>> /\ Top.next <= Len(Items(Top))
    /\ stack' = <<Past(Top)>> \o Callers
    /\ UNCHANGED <<urlDocs, order, type, targetNs, namespaceDocs, outside, history>>
    /\ inDTS' = inDTS \/ Clears
    /\ Item.how \in LinkHows => Top.waiting \/ LinkIgnored
    /\ Item.how \in Schemas => Top.waiting \/ ImportNs(Top.doc, Item) = None
    /\ Item.how \in Schemas \cup LinkHows /\ Top.waiting => ImportReturns \/ HrefReturns

\* load() is called for a reference.
Calling(u, discovered, included, expected) ==
    /\ Item.how \in LinkHows =>
          u = Item.to /\ ~LinkIgnored /\ ~included /\ (discovered <=> Item.how \in Links)
    /\ Item.how \in Schemas =>
          /\ u = Item.to /\ discovered = inDTS[Top.doc] /\ (included <=> Item.how = "include")
          /\ expected = ImportNs(Top.doc, Item) /\ expected # None /\ expected \in asked'
          /\ Match(Item, expected) = None
    /\ Item.how \in HintHows => ~discovered /\ ~included
    /\ Item.how \in {"element", "hint"} => Item.ns \in Namespaces /\ ~Known(Item.ns)
    /\ Item.how = "xbrldi" => u = XbrldiDoc
Loads(u, discovered, included, expected) ==
    /\ AtItem /\ Calling(u, discovered, included, expected)
    /\ Load(u, discovered, included, expected)
    /\ LET link == IF Item.how \in LinkHows THEN {<<Top.doc, Top.next>>} ELSE {}
       IN  processed' = processed \cup link /\ again' = again \cup (link \cap processed)

\* An import takes a schema that is loaded, and may promote it.
Taking(doc) ==
    /\ AtItem /\ Item.how \in Schemas
    /\ ImportNs(Top.doc, Item) \in Namespaces
    /\ doc = Match(Item, ImportNs(Top.doc, Item))
    /\ UNCHANGED <<urlDocs, order, type, targetNs, namespaceDocs, outside, history>>
Takes(doc) ==
    /\ Taking(doc) /\ (inDTS[doc] \/ ~inDTS[Top.doc])
    /\ inDTS' = inDTS
    /\ stack' = <<Waiting(Top, doc)>> \o Callers
TakesAndPromotes(doc) ==
    /\ Taking(doc) /\ inDTS[Top.doc] /\ ~inDTS[doc]
    /\ Promote(doc)
    /\ stack' = <<Frame(doc, "rescan")>> \o (<<Waiting(Top, doc)>> \o Callers)

Enters ==
    /\ phase = "start" /\ phase' # "start" /\ UNCHANGED history
    /\ NewDocument(Entry, TRUE, FALSE, FALSE, None, <<>>)

LoadsOne ==
    \E u \in Docs, discovered \in BOOLEAN, included \in BOOLEAN, expected \in Namespaces \cup {None} :
        Loads(u, discovered, included, expected)
Kinds ==
    \/ Rests \/ Skips \/ LoadsOne \/ HrefPromotes \/ Return \/ LocateSchemas \/ Enters
    \/ \E doc \in Docs : Takes(doc) \/ TakesAndPromotes(doc)

\* What is passed only ever grows.
Grows == /\ file' = file /\ asked \subseteq asked'
         /\ phase' = "start" => phase = "start"
         /\ phase # "start" => unloadable \subseteq unloadable'

\* An element of a namespace that is known, or for which there is no schemaLocation,
\* makes no call.
LEMMA ElementCalls ==
  ASSUME Element
  PROVE  \/ /\ ~Known(Item.ns)
            /\ \E i \in 1..Len(file[Top.doc].hints) :
                  /\ file[Top.doc].hints[i].ns = Item.ns
                  /\ Load(file[Top.doc].hints[i].to, FALSE, FALSE, Item.ns)
         \/ stack' = <<Past(Top)>> \o Callers /\ UNCHANGED <<docVars, unloadable>>
  BY DEF Element

\* The steps of the class lookup are of these kinds.
LEMMA ElementKinds ==
  ASSUME TypeOK, Element
  PROVE  Skips \/ LoadsOne
<1>1. /\ stack # <<>> /\ Top.next <= Len(Items(Top)) /\ Item.how = "element"
      /\ Item.how \notin LinkHows /\ Item.how \notin Schemas /\ AtItem /\ Top.doc \in Docs
  BY StackSteps DEF Element, AtItem, LinkHows, Links, Schemas
<1>2. Item.ns \in Namespaces \cup {None}
  BY <1>1, ItemAtTop
<1>3. CASE stack' = <<Past(Top)>> \o Callers /\ UNCHANGED <<docVars, unloadable>>
  BY <1>1, <1>3 DEF Element, Skips, docVars
<1>4. ASSUME ~Known(Item.ns), NEW i \in 1..Len(file[Top.doc].hints),
             file[Top.doc].hints[i].ns = Item.ns,
             Load(file[Top.doc].hints[i].to, FALSE, FALSE, Item.ns)
      PROVE  LoadsOne
  <2>1. file[Top.doc].hints \in Seq(Hints)
    BY <1>1 DEF TypeOK, Files
  <2>2. file[Top.doc].hints[i] \in Hints
    BY <2>1
  <2>3. file[Top.doc].hints[i].to \in Docs /\ Item.ns \in Namespaces
    BY <1>4, <2>2 DEF Hints
  <2>4. Loads(file[Top.doc].hints[i].to, FALSE, FALSE, Item.ns)
    BY <1>1, <1>4, <2>3 DEF Element, Loads, Calling, history
  <2> QED
    BY <1>2, <2>3, <2>4 DEF LoadsOne
<1>5. \/ /\ ~Known(Item.ns)
         /\ \E i \in 1..Len(file[Top.doc].hints) :
               /\ file[Top.doc].hints[i].ns = Item.ns
               /\ Load(file[Top.doc].hints[i].to, FALSE, FALSE, Item.ns)
      \/ stack' = <<Past(Top)>> \o Callers /\ UNCHANGED <<docVars, unloadable>>
  BY ElementCalls, Zenon
<1> QED
  BY <1>3, <1>4, <1>5

\* Every step is of one of these kinds.
LEMMA NextKinds ==
  ASSUME TypeOK, [Next]_vars
  PROVE  Grows /\ Kinds
<1>0. Grows
  <2>1. file' = file
    BY DEF Next, vars, LoadEntry, Import, IgnoreLink, Href, Element, Xbrldi, Hint, ImportReturns,
           HrefPromotes, HrefReturns, HintReturns, Return, EntryLoaded, LocateSchemas, Finish
  <2>2. asked \subseteq asked'
    BY DEF Next, vars, LoadEntry, Import, IgnoreLink, Href, Element, Xbrldi, Hint, ImportReturns,
           HrefPromotes, HrefReturns, HintReturns, Return, EntryLoaded, LocateSchemas, Finish
  <2>0. phase' = "start" => phase = "start"
    BY DEF Next, vars, LoadEntry, Import, IgnoreLink, Href, Element, Xbrldi, Hint, ImportReturns,
           HrefPromotes, HrefReturns, HintReturns, Return, EntryLoaded, LocateSchemas, Finish
  <2>3. ASSUME NEW u, NEW discovered, NEW included, NEW expected,
               Load(u, discovered, included, expected)
        PROVE  unloadable \subseteq unloadable'
    BY <2>3 DEF Load
  <2>5. phase # "start" => unloadable \subseteq unloadable'
    <3>1. CASE Import
      BY <2>3, <3>1 DEF Import
    <3>2. CASE Element
      BY <2>3, <3>2, ElementCalls
    <3>3. CASE Href \/ Xbrldi \/ Hint
      BY <2>3, <3>3 DEF Href, Xbrldi, Hint
    <3> QED
      BY <3>1, <3>2, <3>3 DEF Next, vars, LoadEntry, IgnoreLink, ImportReturns,
           HrefPromotes, HrefReturns, HintReturns, Return, EntryLoaded, LocateSchemas, Finish
  <2> QED
    BY <2>0, <2>1, <2>2, <2>5 DEF Grows
<1> SUFFICES Kinds
  BY <1>0
<1>1. CASE LoadEntry
  BY <1>1 DEF LoadEntry, Rests, Enters, Kinds
<1>2. CASE Import
  <2>1. /\ stack # <<>> /\ Top.next <= Len(Items(Top)) /\ Item.how \in Schemas /\ AtItem
        /\ Item.how \notin LinkHows /\ Item.how \notin HintHows
    BY <1>2 DEF Import, AtItem, Schemas, LinkHows, Links, HintHows
  <2>2. Item.to \in Docs /\ Item.ns \in Namespaces \cup {None} /\ Top.doc \in Docs
    BY <2>1, ItemAtTop, StackSteps
  <2> DEFINE n == ImportNs(Top.doc, Item)
             doc == Match(Item, n)
  <2>3. n \in Namespaces \cup {None} /\ inDTS[Top.doc] \in BOOLEAN /\ doc \in Docs \cup {None}
    <3>1. n \in Namespaces \cup {None} /\ inDTS[Top.doc] \in BOOLEAN
      BY <2>2 DEF ImportNs, TypeOK
    <3> QED
      BY <2>2, <3>1, MatchType
  <2>4. asked' = asked \cup ({n} \ {None}) /\ UNCHANGED history
    BY <1>2 DEF Import
  <2>5. CASE n = None /\ stack' = <<Past(Top)>> \o Callers /\ UNCHANGED <<docVars, unloadable>>
    <3>1. ~Top.waiting
      BY <2>1 DEF AtItem
    <3> QED
      BY <2>1, <2>4, <2>5, <3>1 DEF Kinds, Skips, docVars
  <2>6. CASE n # None /\ doc = None /\ Load(Item.to, inDTS[Top.doc], Item.how = "include", n)
    <3>1. Calling(Item.to, inDTS[Top.doc], Item.how = "include", n)
      BY <2>1, <2>3, <2>4, <2>6 DEF Calling, HintHows, Schemas
    <3>2. Loads(Item.to, inDTS[Top.doc], Item.how = "include", n)
      BY <2>1, <2>4, <2>6, <3>1 DEF Loads, history
    <3> QED
      BY <2>2, <2>3, <3>2 DEF LoadsOne, Kinds
  <2>7. CASE /\ n # None /\ doc # None /\ ~(inDTS[Top.doc] /\ ~inDTS[doc])
             /\ stack' = <<Waiting(Top, doc)>> \o Callers /\ UNCHANGED <<docVars, unloadable>>
    <3>1. Takes(doc)
      BY <2>1, <2>3, <2>4, <2>7 DEF Takes, Taking, docVars
    <3> QED
      BY <2>3, <2>7, <3>1 DEF Kinds
  <2>8. CASE /\ n # None /\ doc # None /\ inDTS[Top.doc] /\ ~inDTS[doc] /\ Promote(doc)
             /\ stack' = <<Frame(doc, "rescan")>> \o (<<Waiting(Top, doc)>> \o Callers)
             /\ UNCHANGED <<urlDocs, order, type, targetNs, namespaceDocs, outside, unloadable>>
    <3>1. TakesAndPromotes(doc)
      BY <2>1, <2>3, <2>4, <2>8 DEF TakesAndPromotes, Taking
    <3> QED
      BY <2>3, <2>8, <3>1 DEF Kinds
  <2> QED
    BY <1>2, <2>5, <2>6, <2>7, <2>8 DEF Import
<1>3. CASE IgnoreLink
  BY <1>3 DEF IgnoreLink, AtItem, Skips, docVars, LinkIgnored, Links, LinkHows, Schemas, Kinds
<1>4. CASE Href
  <2>1. /\ stack # <<>> /\ Top.next <= Len(Items(Top)) /\ Item.how \in LinkHows /\ AtItem
        /\ Item.how \notin Schemas /\ Item.how \notin HintHows /\ ~LinkIgnored
    BY <1>4 DEF Href, AtItem, Schemas, LinkHows, Links, HintHows
  <2>2. Item.to \in Docs
    BY <2>1, ItemAtTop
  <2>3. (Item.how # "locator") <=> Item.how \in Links
    BY <2>1 DEF LinkHows, Links
  <2>4. Calling(Item.to, Item.how # "locator", FALSE, None)
    BY <2>1, <2>3 DEF Calling, HintHows
  <2>5. Loads(Item.to, Item.how # "locator", FALSE, None)
    BY <1>4, <2>1, <2>4 DEF Loads, Href
  <2> QED
    BY <2>2, <2>5 DEF LoadsOne, Kinds
<1>5. CASE Element
  BY <1>5, ElementKinds DEF Kinds
<1>6. CASE Xbrldi
  <2>1. AtItem /\ Item.how = "xbrldi" /\ Load(XbrldiDoc, FALSE, FALSE, XbrldiNs) /\ UNCHANGED history
    BY <1>6 DEF Xbrldi
  <2>2. Loads(XbrldiDoc, FALSE, FALSE, XbrldiNs)
    BY <2>1 DEF Loads, Calling, history, LinkHows, Links, Schemas
  <2> QED
    BY <2>2, DocsAssumption DEF LoadsOne, Kinds
<1>7. CASE Hint
  <2>1. AtItem /\ Item.how = "hint" /\ stack # <<>> /\ Top.next <= Len(Items(Top)) /\ UNCHANGED history
    BY <1>7 DEF Hint, AtItem
  <2>2. Item.to \in Docs /\ Item.ns \in Namespaces
    BY <2>1, ItemAtTop DEF Hows, Schemas, Links
  <2>3. CASE stack' = <<Past(Top)>> \o Callers /\ UNCHANGED <<docVars, unloadable>>
    BY <2>1, <2>3 DEF Kinds, Skips, docVars, AtItem, LinkHows, Links, Schemas
  <2>4. CASE ~Known(Item.ns) /\ Load(Item.to, FALSE, FALSE, Item.ns)
    <3>1. Loads(Item.to, FALSE, FALSE, Item.ns)
      BY <2>1, <2>2, <2>4 DEF Loads, Calling, history, LinkHows, Links, Schemas
    <3> QED
      BY <2>2, <3>1 DEF LoadsOne, Kinds
  <2> QED
    BY <1>7, <2>3, <2>4 DEF Hint
<1>8. CASE ImportReturns \/ HrefReturns
  BY <1>8 DEF ImportReturns, HrefReturns, Returned, Skips, docVars, Kinds, LinkHows, Links, Schemas
<1>9. CASE HintReturns
  <2>1. Awaits(Top, HintHows)
    BY <1>9 DEF HintReturns, Returned, Awaits, Item, HintHows
  <2> QED
    BY <1>9, <2>1 DEF HintReturns, Returned, Skips, Clears, LinkHows, Links, Schemas, HintHows, Kinds
<1>10. CASE EntryLoaded \/ Finish \/ UNCHANGED vars
  BY <1>10 DEF EntryLoaded, Finish, vars, Rests, Kinds
<1>11. CASE HrefPromotes \/ Return \/ LocateSchemas
  BY <1>11 DEF Kinds
<1> QED
  BY <1>1, <1>2, <1>3, <1>4, <1>5, <1>6, <1>7, <1>8, <1>9, <1>10, <1>11 DEF Next

-----------------------------------------------------------------------------
(* The documents that were made, and the scans on the stack.                  *)

Made(d) == urlDocs[d] = d
Scanned == {"schema", "linkbase", "instance"}

\* What is known of a document that was made.
DocOk(d) ==
    /\ type[d] # None /\ (type[d] = "schema" <=> file[d].root = "schema")
    /\ ~inDTS[d] => type[d] \notin {"linkbase", "instance"}
    /\ targetNs[d] # None => type[d] = "schema" /\ Known(targetNs[d])
    /\ (file[d].root = "schema" /\ file[d].ns # None) =>
         /\ targetNs[d] = file[d].ns
         /\ \E i \in 1..Len(namespaceDocs[file[d].ns]) : namespaceDocs[file[d].ns][i] = d

DocsOk ==
    /\ \A u \in Docs : urlDocs[u] # None => Made(urlDocs[u])
    /\ \A n \in Namespaces \cup {None} :
          \A i \in 1..Len(namespaceDocs[n]) : Made(namespaceDocs[n][i])
    /\ \A d \in Docs : Made(d) => DocOk(d)
    /\ \A d \in Docs : ~Made(d) => type[d] = None /\ ~inDTS[d]
    /\ \A i \in 1..Len(order) : Made(order[i])
    /\ phase = "start" => stack = <<>> /\ \A u \in Docs : urlDocs[u] = None

\* A call that leads outside of the DTS: for a schemaLocation, or from a schema that
\* is not in it.  And a scan in which such calls may be nested.
OutsideCall(f) ==
    \/ Awaits(f, HintHows)
    \/ f.kind # "hints" /\ ~inDTS[f.doc] /\ f.doc \notin XbrldiSchemas
OutsideScan(f) == f.kind # "hints" /\ ~inDTS[f.doc] /\ ~Awaits(f, LinkHows)

\* The first scan of a document, for which load() made it.
First(f) == f.kind \in {"new", "included"}
SameNamespace(d, e) ==
    /\ file[d].root = "schema" /\ file[e].root = "schema"
    /\ file[d].ns = file[e].ns /\ file[d].ns # None

\* f is called, directly or not, from g.
Above(f, g) ==
    /\ OutsideCall(g) => OutsideScan(f)
    /\ (f.kind # "hints" /\ g.kind # "hints" /\ f.doc = g.doc) => f.doc \in XbrldiSchemas
    /\ (First(f) /\ First(g)) => f.doc # g.doc
    /\ (First(f) /\ First(g) /\ SameNamespace(f.doc, g.doc)) =>
          f.doc # namespaceDocs[file[f.doc].ns][1]

FrameOk(f) ==
    /\ Made(f.doc) /\ (f.got # None => Made(f.got))
    /\ f.kind # "hints" => type[f.doc] \in Scanned
    /\ Awaits(f, LinkHows) => inDTS[f.doc] \/ f.doc \in XbrldiSchemas
    /\ (Awaits(f, {"element", "hint"}) /\ f.got # None) =>
          targetNs[f.got] # Items(f)[f.next].ns \/ ~inDTS[f.got]
    /\ (Awaits(f, {"xbrldi"}) /\ f.got # None) => f.got \in XbrldiSchemas

StackOk(stk) ==
    /\ \A i \in 1..Len(stk) : FrameOk(stk[i])
    /\ \A i, j \in 1..Len(stk) : i < j => Above(stk[i], stk[j])

\* (The stack is named so that it may be replaced by an equal one in the next state.)
ScanInv == DocsOk /\ \A stk : stk = stack => StackOk(stk)

\* Each frame of a stack with one more call is that call or was there.
LEMMA PushCases ==
  ASSUME NEW T, NEW f \in T, NEW stk \in Seq(T), NEW s, s = <<f>> \o stk
  PROVE  /\ s \in Seq(T) /\ Len(s) = Len(stk) + 1 /\ s[1] = f
         /\ \A i \in 1..Len(s) : i = 1 \/ (i - 1 \in 1..Len(stk) /\ s[i] = stk[i - 1])
<1>1. /\ s \in Seq(T) /\ Len(s) = Len(stk) + 1 /\ s[1] = f
      /\ \A i \in 1..Len(stk) : s[i + 1] = stk[i]
  BY Push
<1>2. ASSUME NEW i \in 1..Len(s), i # 1 PROVE i - 1 \in 1..Len(stk) /\ s[i] = stk[i - 1]
  <2>1. i - 1 \in 1..Len(stk) /\ (i - 1) + 1 = i
    BY <1>1, <1>2
  <2> QED
    BY <1>1, <2>1
<1> QED
  BY <1>1, <1>2

\* In the next state a frame is put on a stack.
LEMMA NextPush ==
  ASSUME NEW f \in FrameType, NEW stk \in Seq(FrameType), FrameOk(f)', StackOk(stk)',
         \A i \in 1..Len(stk) : Above(f, stk[i])', NEW s, s = <<f>> \o stk
  PROVE  StackOk(s)' /\ s \in Seq(FrameType)
<1>1. /\ s \in Seq(FrameType) /\ Len(s) = Len(stk) + 1 /\ s[1] = f
      /\ \A i \in 1..Len(s) : i = 1 \/ (i - 1 \in 1..Len(stk) /\ s[i] = stk[i - 1])
  BY PushCases
<1>2. ASSUME NEW i \in 1..Len(s) PROVE FrameOk(s[i])'
  <2>1. CASE i = 1
    BY <1>1, <2>1
  <2>2. CASE i # 1
    BY <1>1, <2>2 DEF StackOk
  <2> QED
    BY <2>1, <2>2
<1>3. ASSUME NEW i \in 1..Len(s), NEW j \in 1..Len(s), i < j PROVE Above(s[i], s[j])'
  <2>1. j - 1 \in 1..Len(stk) /\ s[j] = stk[j - 1]
    BY <1>1, <1>3
  <2>2. CASE i = 1
    BY <1>1, <2>1, <2>2
  <2>3. CASE i # 1
    <3>1. i - 1 \in 1..Len(stk) /\ s[i] = stk[i - 1] /\ i - 1 < j - 1
      BY <1>1, <1>3, <2>3
    <3> QED
      BY <2>1, <3>1 DEF StackOk
  <2> QED
    BY <2>2, <2>3
<1> QED
  BY <1>1, <1>2, <1>3 DEF StackOk

\* The innermost call, its callers, and what holds between them.
LEMMA TopOk ==
  ASSUME TypeOK, stack # <<>>, StackOk(stack)
  PROVE  /\ Top \in FrameType /\ FrameOk(Top)
         /\ Callers \in Seq(FrameType) /\ StackOk(Callers)
         /\ \A i \in 1..Len(Callers) : Callers[i] \in FrameType /\ Above(Top, Callers[i])
         /\ \A i \in 1..Len(stack) : i = 1 \/ \E j \in 1..Len(Callers) : stack[i] = Callers[j]
<1>1. stack \in Seq(FrameType) /\ Top \in FrameType /\ Callers \in Seq(FrameType)
  BY Calls DEF TypeOK
<1>2. Len(Callers) = Len(stack) - 1 /\ Len(stack) \in Nat /\ Len(stack) >= 1
  BY <1>1 DEF Callers
<1>3. \A i \in 1..Len(Callers) : i + 1 \in 1..Len(stack) /\ Callers[i] = stack[i + 1]
  BY <1>1, <1>2 DEF Callers
<1>4. FrameOk(Top)
  BY <1>2 DEF StackOk, Top
<1>5. \A i \in 1..Len(Callers) : FrameOk(Callers[i]) /\ Above(Top, Callers[i])
  BY <1>2, <1>3 DEF StackOk, Top
<1>6. ASSUME NEW i \in 1..Len(Callers), NEW j \in 1..Len(Callers), i < j
      PROVE  Above(Callers[i], Callers[j])
  <2>1. /\ i + 1 \in 1..Len(stack) /\ j + 1 \in 1..Len(stack) /\ i + 1 < j + 1
        /\ Callers[i] = stack[i + 1] /\ Callers[j] = stack[j + 1]
    BY <1>2, <1>3, <1>6
  <2> QED
    BY <2>1 DEF StackOk
<1>7. ASSUME NEW i \in 1..Len(stack), i # 1 PROVE \E j \in 1..Len(Callers) : stack[i] = Callers[j]
  <2>1. i - 1 \in 1..Len(Callers) /\ (i - 1) + 1 = i
    BY <1>2, <1>7
  <2> QED
    BY <1>3, <2>1
<1> QED
  BY <1>1, <1>4, <1>5, <1>6, <1>7 DEF StackOk

\* What is awaited depends on the files only, which never change.
LEMMA SameFiles ==
  ASSUME file' = file
  PROVE  /\ XbrldiSchemas' = XbrldiSchemas
         /\ \A f, hows : Awaits(f, hows)' <=> Awaits(f, hows)
         /\ \A f : Items(f)' = Items(f)
         /\ \A d, e : SameNamespace(d, e)' <=> SameNamespace(d, e)
  BY DEF XbrldiSchemas, SameSchema, Awaits, Items, HintRefs, SameNamespace

\* Documents that were made stay what they are.
Kept ==
    /\ \A d \in Docs : Made(d) =>
          urlDocs'[d] = d /\ type'[d] = type[d] /\ targetNs'[d] = targetNs[d]
    /\ \A n \in Namespaces :
          namespaceDocs[n] # <<>> => namespaceDocs'[n][1] = namespaceDocs[n][1]

\* Of those only the xbrldi schema may leave the DTS, and none enters it.
Lowered ==
    \A d \in Docs : Made(d) =>
       (inDTS'[d] => inDTS[d]) /\ (d \notin XbrldiSchemas => inDTS'[d] = inDTS[d])

\* None leaves it.
Raised == \A d \in Docs : Made(d) /\ inDTS[d] => inDTS'[d]

LEMMA FrameKept ==
  ASSUME TypeOK, file' = file, Kept, NEW f \in FrameType, FrameOk(f),
         Lowered \/ (Raised /\ ~OutsideCall(f))
  PROVE  FrameOk(f)'
<1>1. f.doc \in Docs /\ f.got \in Docs \cup {None}
  BY DEF FrameType
<1>2. /\ XbrldiSchemas' = XbrldiSchemas /\ Items(f)' = Items(f)
      /\ \A hows : Awaits(f, hows)' <=> Awaits(f, hows)
  BY SameFiles
<1>3. Made(f.doc)' /\ (f.got # None => Made(f.got)') /\ (f.kind # "hints" => type'[f.doc] \in Scanned)
  BY <1>1 DEF FrameOk, Kept, Made
<1>4. Awaits(f, LinkHows)' => inDTS'[f.doc] \/ f.doc \in XbrldiSchemas'
  BY <1>1, <1>2 DEF FrameOk, Lowered, Raised
<1>5. (Awaits(f, {"element", "hint"})' /\ f.got # None) =>
          targetNs'[f.got] # Items(f)'[f.next].ns \/ ~inDTS'[f.got]
  <2>1. Awaits(f, {"element", "hint"}) => OutsideCall(f)
    BY DEF OutsideCall, Awaits, HintHows
  <2> QED
    BY <1>1, <1>2, <2>1 DEF FrameOk, Lowered, Kept
<1>6. (Awaits(f, {"xbrldi"})' /\ f.got # None) => f.got \in XbrldiSchemas'
  BY <1>2 DEF FrameOk
<1> QED
  BY <1>3, <1>4, <1>5, <1>6 DEF FrameOk

LEMMA AboveKept ==
  ASSUME TypeOK, DocsOk, file' = file, Kept, NEW f \in FrameType, NEW g \in FrameType,
         Made(f.doc), Made(g.doc), Above(f, g), Lowered \/ (Raised /\ ~OutsideCall(g))
  PROVE  Above(f, g)'
<1>1. f.doc \in Docs /\ g.doc \in Docs
  BY DEF FrameType
<1>2. /\ XbrldiSchemas' = XbrldiSchemas
      /\ \A hows : (Awaits(f, hows)' <=> Awaits(f, hows)) /\ (Awaits(g, hows)' <=> Awaits(g, hows))
      /\ SameNamespace(f.doc, g.doc)' <=> SameNamespace(f.doc, g.doc)
  BY SameFiles
<1>3. OutsideCall(g)' => OutsideScan(f)'
  BY <1>1, <1>2 DEF Above, OutsideCall, OutsideScan, Lowered, Raised
<1>4. (First(f) /\ First(g) /\ SameNamespace(f.doc, g.doc)) =>
          f.doc # namespaceDocs'[file'[f.doc].ns][1]
  <2> SUFFICES ASSUME First(f), First(g), SameNamespace(f.doc, g.doc)
               PROVE  f.doc # namespaceDocs'[file[f.doc].ns][1]
    OBVIOUS
  <2>1. file[f.doc].ns \in Namespaces /\ file[f.doc].root = "schema" /\ file[f.doc].ns # None
    BY <1>1 DEF SameNamespace, TypeOK, Files
  <2>2. \E i \in 1..Len(namespaceDocs[file[f.doc].ns]) : namespaceDocs[file[f.doc].ns][i] = f.doc
    BY <1>1, <2>1 DEF DocsOk, DocOk
  <2>3. namespaceDocs[file[f.doc].ns] # <<>>
    BY <2>2
  <2> QED
    BY <2>1, <2>3 DEF Kept, Above
<1> QED
  BY <1>2, <1>3, <1>4 DEF Above, First

\* A stack stays right as long as its documents do.
LEMMA StackKept ==
  ASSUME TypeOK, DocsOk, file' = file, Kept, NEW stk \in Seq(FrameType), StackOk(stk),
         Lowered \/ (Raised /\ \A i \in 1..Len(stk) : ~OutsideCall(stk[i]))
  PROVE  StackOk(stk)'
<1>1. ASSUME NEW i \in 1..Len(stk) PROVE FrameOk(stk[i])'
  <2>1. stk[i] \in FrameType /\ FrameOk(stk[i])
    BY DEF StackOk
  <2> QED
    BY <2>1, FrameKept
<1>2. ASSUME NEW i \in 1..Len(stk), NEW j \in 1..Len(stk), i < j PROVE Above(stk[i], stk[j])'
  <2>1. /\ stk[i] \in FrameType /\ stk[j] \in FrameType /\ Above(stk[i], stk[j])
        /\ Made(stk[i].doc) /\ Made(stk[j].doc)
    BY <1>2 DEF StackOk, FrameOk
  <2> QED
    BY <2>1, AboveKept
<1> QED
  BY <1>1, <1>2 DEF StackOk

\* The innermost scan goes on, or waits.
LEMMA NextTop ==
  ASSUME TypeOK, ScanInv, stack # <<>>, file' = file, Kept,
         NEW rest, rest = Callers, NEW f \in FrameType,
         f.doc = Top.doc, f.kind = Top.kind, OutsideScan(Top) => OutsideScan(f),
         Lowered \/ (Raised /\ \A i \in 1..Len(rest) : ~OutsideCall(rest[i])),
         FrameOk(f)', NEW s, s = <<f>> \o rest
  PROVE  /\ StackOk(s)' /\ s \in Seq(FrameType)
         /\ \A i \in 1..Len(s) : s[i] = f \/ \E j \in 1..Len(rest) : s[i] = rest[j]
         /\ \A i \in 1..Len(s) : Made(s[i].doc)
<1>1. /\ rest \in Seq(FrameType) /\ StackOk(rest) /\ FrameOk(Top)
      /\ \A i \in 1..Len(rest) : rest[i] \in FrameType /\ Above(Top, rest[i])
  BY TopOk DEF ScanInv
<1>2. StackOk(rest)'
  BY <1>1, StackKept DEF ScanInv
<1>3. ASSUME NEW i \in 1..Len(rest) PROVE Above(f, rest[i])'
  <2>1. Above(f, rest[i])
    BY <1>1 DEF Above, First
  <2>2. Made(f.doc) /\ Made(rest[i].doc) /\ rest[i] \in FrameType
    BY <1>1 DEF StackOk, FrameOk
  <2> QED
    BY <2>1, <2>2, AboveKept DEF ScanInv
<1>4. /\ Len(s) = Len(rest) + 1 /\ s[1] = f
      /\ \A i \in 1..Len(s) : i = 1 \/ (i - 1 \in 1..Len(rest) /\ s[i] = rest[i - 1])
  BY <1>1, PushCases
<1>5. \A i \in 1..Len(s) : s[i] = f \/ \E j \in 1..Len(rest) : s[i] = rest[j]
  BY <1>4
<1>6. \A i \in 1..Len(s) : Made(s[i].doc)
  BY <1>1, <1>5 DEF StackOk, FrameOk
<1> QED
  BY <1>1, <1>2, <1>3, <1>5, <1>6, NextPush

\* Where a call inside the DTS is made nothing around it leads outside.
LEMMA NoneOutside ==
  ASSUME TypeOK, StackOk(stack), stack # <<>>, ~OutsideCall(Top), ~OutsideScan(Top)
  PROVE  \A i \in 1..Len(stack) : ~OutsideCall(stack[i])
<1>1. \A i \in 1..Len(Callers) : ~OutsideCall(Callers[i])
  BY TopOk DEF Above
<1> QED
  BY <1>1, TopOk DEF Top


\* The documents stay right when only what is in the DTS changes.
LEMMA DocsKept ==
  ASSUME TypeOK, DocsOk, file' = file, asked \subseteq asked',
         UNCHANGED <<urlDocs, order, type, targetNs, namespaceDocs>>,
         phase' = "start" => phase = "start" /\ stack' = <<>>,
         \A d \in Docs : inDTS'[d] => inDTS[d] \/ Made(d),
         \A d \in Docs : inDTS[d] /\ ~inDTS'[d] => type[d] = "schema"
  PROVE  DocsOk' /\ Kept
<1>1. \A d : Made(d)' <=> Made(d)
  BY DEF Made
<1>2. ASSUME NEW d \in Docs, Made(d) PROVE DocOk(d)'
  <2>1. DocOk(d)
    BY <1>2 DEF DocsOk
  <2>2. ~inDTS'[d] => type[d] \notin {"linkbase", "instance"}
    BY <2>1 DEF DocOk
  <2> QED
    BY <2>1, <2>2 DEF DocOk, Known
<1>3. \A d \in Docs : ~Made(d) => type'[d] = None /\ ~inDTS'[d]
  BY DEF DocsOk
<1>4. /\ \A u \in Docs : urlDocs'[u] # None => Made(urlDocs[u])
      /\ \A n \in Namespaces \cup {None} :
            \A i \in 1..Len(namespaceDocs[n]) : Made(namespaceDocs[n][i])
      /\ \A i \in 1..Len(order) : Made(order[i])
      /\ phase' = "start" => stack' = <<>> /\ \A u \in Docs : urlDocs'[u] = None
  BY DEF DocsOk
<1>5. DocsOk'
  BY <1>1, <1>2, <1>3, <1>4 DEF DocsOk
<1>6. Kept
  BY DEF Kept, Made
<1> QED
  BY <1>5, <1>6

\* A document that load() makes: it is right, and so are those made before.
LEMMA NewDocumentOk ==
  ASSUME TypeOK, TypeOK', DocsOk, file' = file, asked \subseteq asked', phase' # "start",
         NEW u \in Docs, urlDocs[u] = None,
         NEW entry \in BOOLEAN, NEW discovered \in BOOLEAN,
         NEW included \in BOOLEAN, NEW expected \in Namespaces \cup {None},
         included => expected \in asked',
         NEW callers, NewDocument(u, entry, discovered, included, expected, callers)
  PROVE  /\ DocsOk' /\ Kept /\ Lowered /\ Raised /\ Made(u)'
         /\ \A d \in Docs : d # u => inDTS'[d] = inDTS[d]
         /\ inDTS'[u] => entry \/ discovered
<1>1. /\ urlDocs' = [urlDocs EXCEPT ![u] = u]
      /\ order' = Append(order, u)
      /\ type' = [type EXCEPT ![u] = TypeOf(u, entry, discovered)]
      /\ inDTS' = [inDTS EXCEPT ![u] = file[u].root # "notXml" /\ (entry \/ discovered)]
      /\ targetNs' = [targetNs EXCEPT ![u] =
             IF TypeOf(u, entry, discovered) # "schema" THEN None
             ELSE IF file[u].ns = None /\ included THEN expected ELSE file[u].ns]
      /\ Register(u, included, expected)
  BY DEF NewDocument
<1>2. u # None /\ ~Made(u)
  BY DocsAssumption DEF Made
<1>3. /\ file[u].ns \in Namespaces \cup {None}
      /\ file[u].root \in Roots
      /\ \A n \in Namespaces \cup {None} : namespaceDocs[n] \in Seq(Docs) /\ namespaceDocs'[n] \in Seq(Docs)
      /\ order \in Seq(Docs)
  BY DEF TypeOK, Files
<1>4. /\ urlDocs'[u] = u /\ type'[u] = TypeOf(u, entry, discovered)
      /\ inDTS'[u] <=> file[u].root # "notXml" /\ (entry \/ discovered)
      /\ targetNs'[u] = IF TypeOf(u, entry, discovered) # "schema" THEN None
             ELSE IF file[u].ns = None /\ included THEN expected ELSE file[u].ns
  BY <1>1 DEF TypeOK
<1>5. ASSUME NEW d \in Docs, d # u
      PROVE  /\ urlDocs'[d] = urlDocs[d] /\ type'[d] = type[d]
             /\ inDTS'[d] = inDTS[d] /\ targetNs'[d] = targetNs[d] /\ (Made(d)' <=> Made(d))
  <2>1. /\ urlDocs'[d] = urlDocs[d] /\ type'[d] = type[d]
        /\ inDTS'[d] = inDTS[d] /\ targetNs'[d] = targetNs[d]
    BY <1>1, <1>5 DEF TypeOK
  <2> QED
    BY <2>1 DEF Made
<1>6. ASSUME NEW n \in Namespaces \cup {None}
      PROVE  namespaceDocs'[n] = namespaceDocs[n] \/ namespaceDocs'[n] = Append(namespaceDocs[n], u)
  BY <1>1, <1>3 DEF Register, TypeOK
<1>7. (file[u].root = "schema" /\ file[u].ns # None) =>
          namespaceDocs'[file[u].ns] = Append(namespaceDocs[file[u].ns], u)
  BY <1>1, <1>3 DEF Register, TypeOK
<1>8. ASSUME NEW n \in Namespaces \cup {None}
      PROVE  /\ Known(n) => n \in asked' \/ namespaceDocs'[n] # <<>>
             /\ \A i \in 1..Len(namespaceDocs[n]) :
                   i \in 1..Len(namespaceDocs'[n]) /\ namespaceDocs'[n][i] = namespaceDocs[n][i]
             /\ namespaceDocs[n] # <<>> => namespaceDocs'[n][1] = namespaceDocs[n][1]
             /\ \A i \in 1..Len(namespaceDocs'[n]) :
                   \/ namespaceDocs'[n][i] = u
                   \/ i \in 1..Len(namespaceDocs[n]) /\ namespaceDocs'[n][i] = namespaceDocs[n][i]
  <2>1. CASE namespaceDocs'[n] = namespaceDocs[n]
    BY <2>1 DEF Known
  <2>2. CASE namespaceDocs'[n] = Append(namespaceDocs[n], u)
    <3>1. namespaceDocs[n] \in Seq(Docs)
      BY <1>3
    <3>2. /\ Len(namespaceDocs'[n]) = Len(namespaceDocs[n]) + 1
          /\ \A i \in 1..Len(namespaceDocs[n]) : namespaceDocs'[n][i] = namespaceDocs[n][i]
          /\ namespaceDocs'[n][Len(namespaceDocs[n]) + 1] = u
      BY <2>2, <3>1
    <3>3. namespaceDocs'[n] # <<>> /\ Len(namespaceDocs[n]) \in Nat
      BY <3>1, <3>2
    <3>4. \A i \in 1..Len(namespaceDocs'[n]) : i \in 1..Len(namespaceDocs[n]) \/ i = Len(namespaceDocs[n]) + 1
      BY <3>2, <3>3
    <3>5. namespaceDocs[n] # <<>> => 1 \in 1..Len(namespaceDocs[n])
      BY <3>1
    <3>6. \A i \in 1..Len(namespaceDocs[n]) : i \in 1..Len(namespaceDocs'[n])
      BY <3>2, <3>3
    <3>7. Known(n) => n \in asked' \/ namespaceDocs'[n] # <<>>
      BY <3>3 DEF Known
    <3>8. namespaceDocs[n] # <<>> => namespaceDocs'[n][1] = namespaceDocs[n][1]
      BY <3>2, <3>5
    <3>9. \A i \in 1..Len(namespaceDocs'[n]) :
              \/ namespaceDocs'[n][i] = u
              \/ i \in 1..Len(namespaceDocs[n]) /\ namespaceDocs'[n][i] = namespaceDocs[n][i]
      BY <3>2, <3>4
    <3> QED
      BY <3>2, <3>6, <3>7, <3>8, <3>9
  <2> QED
    BY <1>6, <2>1, <2>2
<1>9. Made(u)'
  BY <1>4 DEF Made
<1>10. DocOk(u)'
  <2>1. /\ TypeOf(u, entry, discovered) \in Types
        /\ TypeOf(u, entry, discovered) = "schema" <=> file[u].root = "schema"
        /\ TypeOf(u, entry, discovered) \in {"linkbase", "instance"} =>
              (entry \/ discovered) /\ file[u].root # "notXml"
    BY DEF TypeOf, Types
  <2>2. /\ type'[u] # None /\ (type'[u] = "schema" <=> file[u].root = "schema")
        /\ ~inDTS'[u] => type'[u] \notin {"linkbase", "instance"}
    BY <1>4, <2>1, DocsAssumption
  <2>3. (file[u].root = "schema" /\ file[u].ns # None) =>
            /\ targetNs'[u] = file[u].ns
            /\ \E i \in 1..Len(namespaceDocs'[file[u].ns]) : namespaceDocs'[file[u].ns][i] = u
    <3> SUFFICES ASSUME file[u].root = "schema", file[u].ns # None
                 PROVE  \E i \in 1..Len(namespaceDocs'[file[u].ns]) : namespaceDocs'[file[u].ns][i] = u
      BY <1>4, <2>1
    <3>1. namespaceDocs'[file[u].ns] = Append(namespaceDocs[file[u].ns], u)
          /\ namespaceDocs[file[u].ns] \in Seq(Docs)
      BY <1>3, <1>7
    <3>2. Len(namespaceDocs[file[u].ns]) + 1 \in 1..Len(namespaceDocs'[file[u].ns])
          /\ namespaceDocs'[file[u].ns][Len(namespaceDocs[file[u].ns]) + 1] = u
      BY <3>1
    <3> QED
      BY <3>2
  <2> DEFINE known(n) == n \in asked' \/ namespaceDocs'[n] # <<>>
  <2>4. targetNs'[u] # None => type'[u] = "schema" /\ known(targetNs'[u])
    <3> SUFFICES ASSUME targetNs'[u] # None PROVE type'[u] = "schema" /\ known(targetNs'[u])
      OBVIOUS
    <3>1. CASE file[u].ns = None
      BY <1>4, <2>1, <3>1
    <3>2. CASE file[u].ns # None
      <4>1. type'[u] = "schema" /\ targetNs'[u] = file[u].ns /\ file[u].root = "schema"
        BY <1>4, <2>1, <3>2
      <4>2. namespaceDocs'[file[u].ns] # <<>>
        BY <2>3, <3>2, <4>1
      <4> QED
        BY <4>1, <4>2
    <3> QED
      BY <3>1, <3>2
  <2> QED
    BY <2>2, <2>3, <2>4 DEF DocOk, Known
<1>11. ASSUME NEW d \in Docs, Made(d), d # u PROVE DocOk(d)'
  <2>1. DocOk(d) /\ file[d].ns \in Namespaces \cup {None} /\ targetNs[d] \in Namespaces \cup {None}
    BY <1>11 DEF DocsOk, TypeOK, Files
  <2>2. targetNs[d] # None =>
           type[d] = "schema" /\ (targetNs[d] \in asked' \/ namespaceDocs'[targetNs[d]] # <<>>)
    BY <1>8, <2>1 DEF DocOk, Known
  <2>3. (file[d].root = "schema" /\ file[d].ns # None) =>
            \E i \in 1..Len(namespaceDocs'[file[d].ns]) : namespaceDocs'[file[d].ns][i] = d
    BY <1>8, <2>1 DEF DocOk
  <2> QED
    BY <1>5, <1>11, <2>1, <2>2, <2>3 DEF DocOk, Known
<1>12. DocsOk'
  <2>1. ASSUME NEW d \in Docs, urlDocs'[d] # None PROVE urlDocs'[urlDocs'[d]] = urlDocs'[d]
    <3>1. CASE d = u
      BY <1>4, <3>1
    <3>2. CASE d # u
      <4>1. urlDocs'[d] = urlDocs[d] /\ Made(urlDocs[d]) /\ urlDocs[d] \in Docs
        BY <1>5, <2>1, <3>2 DEF DocsOk, TypeOK
      <4> QED
        BY <1>4, <1>5, <4>1 DEF Made
    <3> QED
      BY <3>1, <3>2
  <2>2. ASSUME NEW n \in Namespaces \cup {None}, NEW i \in 1..Len(namespaceDocs'[n])
        PROVE  urlDocs'[namespaceDocs'[n][i]] = namespaceDocs'[n][i]
    <3>1. CASE namespaceDocs'[n][i] = u
      BY <1>4, <3>1
    <3>2. CASE i \in 1..Len(namespaceDocs[n]) /\ namespaceDocs'[n][i] = namespaceDocs[n][i]
      <4>1. Made(namespaceDocs[n][i]) /\ namespaceDocs[n][i] \in Docs
        BY <1>3, <3>2 DEF DocsOk
      <4> QED
        BY <1>4, <1>5, <3>2, <4>1 DEF Made
    <3> QED
      BY <1>8, <3>1, <3>2
  <2>3. \A d \in Docs : Made(d)' => DocOk(d)'
    <3> SUFFICES ASSUME NEW d \in Docs, Made(d)' PROVE DocOk(d)'
      OBVIOUS
    <3> QED
      BY <1>5, <1>10, <1>11
  <2>4. \A d \in Docs : ~Made(d)' => type'[d] = None /\ ~inDTS'[d]
    <3> SUFFICES ASSUME NEW d \in Docs, ~Made(d)' PROVE type'[d] = None /\ ~inDTS'[d]
      OBVIOUS
    <3> QED
      BY <1>5, <1>9 DEF DocsOk
  <2>5. ASSUME NEW i \in 1..Len(order') PROVE urlDocs'[order'[i]] = order'[i]
    <3>1. order'[i] = u \/ (i \in 1..Len(order) /\ order'[i] = order[i])
      BY <1>1, <1>3
    <3>2. i \in 1..Len(order) => Made(order[i]) /\ order[i] \in Docs
      BY <1>3 DEF DocsOk
    <3> QED
      BY <1>4, <1>5, <3>1, <3>2 DEF Made
  <2> QED
    BY <2>1, <2>2, <2>3, <2>4, <2>5 DEF DocsOk, Made
<1>13. Kept
  BY <1>2, <1>5, <1>8 DEF Kept, Made
<1>14. Lowered /\ Raised
  BY <1>2, <1>5 DEF Lowered, Raised
<1> QED
  BY <1>4, <1>5, <1>9, <1>12, <1>13, <1>14

\* A call for a document that is just made, above those for documents made before.
LEMMA NewAbove ==
  ASSUME TypeOK, DocsOk, file' = file, Kept, NEW u \in Docs, ~Made(u),
         NEW k \in {"new", "included"}, NEW g \in FrameType, Made(g.doc),
         OutsideCall(g)' => ~inDTS'[u]
  PROVE  Above(Frame(u, k), g)'
<1> DEFINE f == Frame(u, k)
<1>1. f.doc = u /\ f.kind = k /\ ~f.waiting /\ g.doc \in Docs /\ g.doc # u
  BY DEF Frame, Scan, FrameType
<1>2. OutsideCall(g)' => OutsideScan(f)'
  BY <1>1 DEF OutsideScan, Awaits
<1>3. (First(g) /\ SameNamespace(u, g.doc)) => u # namespaceDocs'[file[u].ns][1]
  <2> SUFFICES ASSUME SameNamespace(u, g.doc) PROVE u # namespaceDocs'[file[u].ns][1]
    OBVIOUS
  <2>1. /\ file[g.doc].root = "schema" /\ file[g.doc].ns = file[u].ns
        /\ file[u].ns \in Namespaces /\ file[u].ns # None
    BY DEF SameNamespace, TypeOK, Files
  <2>2. \E i \in 1..Len(namespaceDocs[file[u].ns]) : namespaceDocs[file[u].ns][i] = g.doc
    BY <1>1, <2>1 DEF DocsOk, DocOk
  <2>3. namespaceDocs[file[u].ns] # <<>> /\ namespaceDocs[file[u].ns] \in Seq(Docs)
    BY <2>1, <2>2 DEF TypeOK
  <2>4. 1 \in 1..Len(namespaceDocs[file[u].ns])
    BY <2>3
  <2>5. Made(namespaceDocs[file[u].ns][1])
    BY <2>1, <2>4 DEF DocsOk
  <2>6. namespaceDocs'[file[u].ns][1] = namespaceDocs[file[u].ns][1]
    BY <2>1, <2>3 DEF Kept
  <2> QED
    BY <2>5, <2>6
<1> HIDE DEF f
<1>4. SameNamespace(f.doc, g.doc)' <=> SameNamespace(f.doc, g.doc)
  BY SameFiles
<1>5. Above(f, g)'
  BY <1>1, <1>2, <1>3, <1>4 DEF Above, First
<1> QED
  BY <1>5 DEF f

\* A call inside the DTS is made from a scan inside it, with none outside around it.
LEMMA InsideCall ==
  ASSUME TypeOK, ScanInv, AtItem,
         \/ Item.how \in Schemas /\ inDTS[Top.doc]
         \/ Item.how \in LinkHows /\ ~LinkIgnored
  PROVE  /\ inDTS[Top.doc] /\ Top.kind # "hints" /\ ~OutsideCall(Top) /\ ~OutsideScan(Top)
         /\ \A i \in 1..Len(stack) : ~OutsideCall(stack[i])
         /\ \A i \in 1..Len(Callers) : ~OutsideCall(Callers[i])
<1>1. /\ stack # <<>> /\ Top.next <= Len(Items(Top)) /\ ~Top.waiting
      /\ Top \in FrameType /\ FrameOk(Top) /\ Top.doc \in Docs
  BY TopOk DEF AtItem, ScanInv, FrameType
<1>2. Top.kind # "hints"
  BY <1>1, ItemAtTop DEF Schemas, LinkHows, Links
<1>3. inDTS[Top.doc]
  <2> SUFFICES ASSUME ~inDTS[Top.doc], ~LinkIgnored, Item.how \in LinkHows PROVE FALSE
    OBVIOUS
  <2>1. type[Top.doc] = "schema" /\ file[Top.doc].root = "schema"
    BY <1>1, <1>2 DEF FrameOk, ScanInv, DocsOk, DocOk, Scanned
  <2> QED
    BY <2>1 DEF LinkIgnored, LinkHows
<1>4. ~OutsideCall(Top) /\ ~OutsideScan(Top)
  BY <1>1, <1>3 DEF OutsideCall, OutsideScan, Awaits
<1> QED
  BY <1>1, <1>2, <1>3, <1>4, TopOk, NoneOutside DEF ScanInv, Above

\* What the scan that makes a call awaits.
LEMMA WaitingFor ==
  ASSUME TypeOK, AtItem, NEW d \in Docs \cup {None}, NEW f, f = Waiting(Top, d)
  PROVE  /\ f \in FrameType /\ f.doc = Top.doc /\ f.kind = Top.kind /\ f.got = d
         /\ f.next = Top.next /\ f.waiting
         /\ Items(f)[f.next] = Item
         /\ \A hows : Awaits(f, hows) <=> Item.how \in hows
<1>1. stack # <<>> /\ Top.next <= Len(Items(Top)) /\ Top \in FrameType
  BY Calls DEF AtItem
<1>2. f \in FrameType
  BY <1>1, FrameSteps
<1>3. Items(f) = Items(Top)
  BY DEF Items, Waiting
<1> QED
  BY <1>1, <1>2, <1>3 DEF Awaits, Item, Waiting

\* A scan waits for what the call it makes returns.
LEMMA WaitingOk ==
  ASSUME TypeOK, ScanInv, file' = file, Kept, Lowered, AtItem,
         Item.how \in LinkHows => ~LinkIgnored,
         NEW d \in Docs \cup {None}, d # None => Made(d)',
         (Item.how \in {"element", "hint"} /\ d # None) => targetNs'[d] # Item.ns \/ ~inDTS'[d],
         (Item.how = "xbrldi" /\ d # None) => d \in XbrldiSchemas,
         NEW f, f = Waiting(Top, d), NEW rest, rest = Callers, NEW s, s = <<f>> \o rest
  PROVE  /\ StackOk(s)' /\ s \in Seq(FrameType)
         /\ \A i \in 1..Len(s) : s[i] = f \/ \E j \in 1..Len(rest) : s[i] = rest[j]
         /\ \A i \in 1..Len(s) : Made(s[i].doc)
<1>1. /\ f \in FrameType /\ f.doc = Top.doc /\ f.kind = Top.kind /\ f.got = d
      /\ Items(f)[f.next] = Item
      /\ \A hows : Awaits(f, hows) <=> Item.how \in hows
  BY WaitingFor
<1>2. stack # <<>> /\ FrameOk(Top) /\ Top.doc \in Docs
  BY TopOk DEF AtItem, ScanInv, FrameType
<1>3. /\ XbrldiSchemas' = XbrldiSchemas /\ Items(f)' = Items(f)
      /\ \A hows : Awaits(f, hows)' <=> Awaits(f, hows)
  BY SameFiles
<1>4. Item.how \in LinkHows => inDTS[Top.doc]
  BY InsideCall
<1>5. FrameOk(f)'
  <2>1. Made(f.doc)' /\ (f.got # None => Made(f.got)') /\ (f.kind # "hints" => type'[f.doc] \in Scanned)
    BY <1>1, <1>2 DEF FrameOk, Kept, Made
  <2>2. Awaits(f, LinkHows)' => inDTS'[f.doc] \/ f.doc \in XbrldiSchemas'
    <3>1. Made(f.doc) /\ f.doc \in Docs
      BY <1>1, <1>2 DEF FrameOk
    <3> QED
      BY <1>1, <1>3, <1>4, <3>1 DEF Lowered
  <2>3. (Awaits(f, {"element", "hint"})' /\ f.got # None) =>
            targetNs'[f.got] # Items(f)'[f.next].ns \/ ~inDTS'[f.got]
    BY <1>1, <1>3
  <2>4. (Awaits(f, {"xbrldi"})' /\ f.got # None) => f.got \in XbrldiSchemas'
    BY <1>1, <1>3
  <2> QED
    BY <2>1, <2>2, <2>3, <2>4 DEF FrameOk
<1>6. OutsideScan(Top) => OutsideScan(f)
  <2>1. Item.how \in LinkHows => ~OutsideScan(Top)
    BY InsideCall
  <2> QED
    BY <1>1, <2>1 DEF OutsideScan
<1>7. stack # <<>> /\ f \in FrameType /\ f.doc = Top.doc /\ f.kind = Top.kind
  BY <1>1, <1>2
<1>8. Lowered \/ (Raised /\ \A i \in 1..Len(rest) : ~OutsideCall(rest[i]))
  OBVIOUS
<1>9. StackOk(s)' /\ s \in Seq(FrameType)
  BY <1>5, <1>6, <1>7, <1>8, NextTop
<1>10. \A i \in 1..Len(s) : s[i] = f \/ \E j \in 1..Len(rest) : s[i] = rest[j]
  BY <1>5, <1>6, <1>7, <1>8, NextTop
<1>11. \A i \in 1..Len(s) : Made(s[i].doc)
  BY <1>5, <1>6, <1>7, <1>8, NextTop
<1> QED
  BY <1>9, <1>10, <1>11

LEMMA NextScanInv ==
  ASSUME DocsOk', NEW s, stack' = s, StackOk(s)'
  PROVE  ScanInv'
  BY DEF ScanInv

\* What a call for a schemaLocation gets may not be in the DTS under the namespace it
\* asks for, which was not known.
LEMMA NotExpected ==
  ASSUME TypeOK, DocsOk, NEW u, NEW discovered, NEW included, NEW expected,
         Calling(u, discovered, included, expected), NEW d \in Docs, Made(d)
  PROVE  Item.how \in {"element", "hint"} => targetNs[d] # Item.ns
<1> SUFFICES ASSUME Item.how \in {"element", "hint"}, targetNs[d] = Item.ns PROVE FALSE
  OBVIOUS
<1>1. ~Known(Item.ns) /\ Item.ns \in Namespaces
  BY DEF Calling
<1>2. targetNs[d] # None
  BY <1>1, DocsAssumption
<1> QED
  BY <1>1, <1>2 DEF DocsOk, DocOk

\* load() that makes no document returns at once.
LEMMA ReturnsScans ==
  ASSUME TypeOK, ScanInv, AtItem, file' = file, phase' # "start",
         NEW u \in Docs, NEW discovered, NEW included, NEW expected,
         Calling(u, discovered, included, expected),
         DocsOk', Kept, inDTS' = inDTS, targetNs' = targetNs,
         NEW d \in Docs \cup {None}, d # None => Made(d) /\ (d = u \/ SameSchema(u, d)),
         stack' = <<Waiting(Top, d)>> \o Callers
  PROVE  ScanInv'
<1>1. PICK f : f = Waiting(Top, d)
  OBVIOUS
<1>2. PICK rest : rest = Callers
  OBVIOUS
<1>3. PICK s : s = <<f>> \o rest
  OBVIOUS
<1>4. stack' = s
  BY <1>1, <1>2, <1>3
<1>5. Lowered
  BY DEF Lowered
<1>6. Item.how \in LinkHows => ~LinkIgnored
  BY DEF Calling
<1>7. d # None => Made(d)'
  BY DEF Kept, Made
<1>8. (Item.how \in {"element", "hint"} /\ d # None) => targetNs'[d] # Item.ns \/ ~inDTS'[d]
  BY NotExpected DEF ScanInv
<1>9. (Item.how = "xbrldi" /\ d # None) => d \in XbrldiSchemas
  BY DEF Calling, XbrldiSchemas
<1>10. StackOk(s)'
  BY <1>1, <1>2, <1>3, <1>5, <1>6, <1>7, <1>8, <1>9, WaitingOk
<1> QED
  BY <1>4, <1>10, NextScanInv

\* load() that makes a document scans it.
LEMMA NewScans ==
  ASSUME TypeOK, TypeOK', ScanInv, AtItem, file' = file, asked \subseteq asked', phase' # "start",
         NEW u \in Docs, NEW discovered \in BOOLEAN, NEW included \in BOOLEAN,
         NEW expected \in Namespaces \cup {None},
         Calling(u, discovered, included, expected), urlDocs[u] = None,
         NewDocument(u, FALSE, discovered, included, expected, <<Waiting(Top, u)>> \o Callers)
  PROVE  ScanInv'
<1>1. PICK f : f = Waiting(Top, u)
  OBVIOUS
<1>2. PICK rest : rest = Callers
  OBVIOUS
<1>3. PICK s : s = <<f>> \o rest
  OBVIOUS
<1>4. s = <<Waiting(Top, u)>> \o Callers
  BY <1>1, <1>2, <1>3
<1>5. included => expected \in asked'
  BY ItemAtTop DEF Calling, AtItem, Schemas, Links, LinkHows, HintHows, Hows
<1>6. NewDocument(u, FALSE, discovered, included, expected, s)
  BY <1>4
<1>7. /\ DocsOk' /\ Kept /\ Lowered /\ Made(u)'
      /\ \A d \in Docs : d # u => inDTS'[d] = inDTS[d]
      /\ inDTS'[u] => discovered
  BY <1>5, <1>6, NewDocumentOk DEF ScanInv
<1>8. ~Made(u) /\ u # None
  BY DocsAssumption DEF Made
<1>9. Item.how \in LinkHows => ~LinkIgnored
  BY DEF Calling
<1>10. Item.how \in {"element", "hint"} => ~inDTS'[u]
  BY <1>7 DEF Calling, HintHows
<1>11. Item.how = "xbrldi" => u \in XbrldiSchemas
  BY DEF Calling, XbrldiSchemas
<1>12. StackOk(s)' /\ s \in Seq(FrameType)
  BY <1>1, <1>2, <1>3, <1>7, <1>8, <1>9, <1>10, <1>11, WaitingOk
<1>13. /\ \A i \in 1..Len(s) : s[i] = f \/ \E j \in 1..Len(rest) : s[i] = rest[j]
       /\ \A i \in 1..Len(s) : Made(s[i].doc)
  <2>1. \A i \in 1..Len(s) : s[i] = f \/ \E j \in 1..Len(rest) : s[i] = rest[j]
    BY <1>1, <1>2, <1>3, <1>7, <1>8, <1>9, <1>10, <1>11, WaitingOk
  <2>2. \A i \in 1..Len(s) : Made(s[i].doc)
    BY <1>1, <1>2, <1>3, <1>7, <1>8, <1>9, <1>10, <1>11, WaitingOk
  <2> QED
    BY <2>1, <2>2
<1>14. ASSUME NEW g \in FrameType, NEW i \in 1..Len(s), g = s[i], inDTS'[u]
       PROVE  ~OutsideCall(g)'
  <2>1. discovered
    BY <1>7, <1>14
  <2>2. \/ Item.how \in Schemas /\ inDTS[Top.doc]
        \/ Item.how \in LinkHows /\ ~LinkIgnored
    BY <1>9, <2>1, ItemAtTop DEF Calling, AtItem, Schemas, Links, LinkHows, HintHows, Hows
  <2>3. /\ inDTS[Top.doc] /\ Top.kind # "hints"
        /\ \A j \in 1..Len(rest) : ~OutsideCall(rest[j])
    BY <1>2, <2>2, InsideCall
  <2>4. ~OutsideCall(g)
    <3>1. CASE g = f
      <4>1. f.doc = Top.doc /\ ~Awaits(f, HintHows)
        BY <1>1, <2>2, WaitingFor DEF Schemas, Links, LinkHows, HintHows
      <4> QED
        BY <2>3, <3>1, <4>1 DEF OutsideCall
    <3>2. CASE \E j \in 1..Len(rest) : g = rest[j]
      BY <2>3, <3>2
    <3> QED
      BY <1>13, <1>14, <3>1, <3>2
  <2>5. Made(g.doc) /\ g.doc \in Docs /\ g.doc # u
    BY <1>8, <1>13, <1>14 DEF FrameType
  <2> QED
    BY <1>7, <2>4, <2>5, SameFiles DEF OutsideCall
<1>15. ASSUME NEW k \in {"new", "included"}, NEW g \in FrameType, NEW i \in 1..Len(s), g = s[i]
       PROVE  Above(Frame(u, k), g)'
  <2>1. OutsideCall(g)' => ~inDTS'[u]
    BY <1>14, <1>15
  <2>2. Made(g.doc)
    BY <1>13, <1>15
  <2> QED
    BY <1>7, <1>8, <2>1, <2>2, NewAbove DEF ScanInv
<1>16. CASE stack' = s
  BY <1>7, <1>12, <1>16, NextScanInv
<1>17. ASSUME NEW k \in {"new", "included"}, stack' = <<Frame(u, k)>> \o s,
              TypeOf(u, FALSE, discovered) # "unknown"
       PROVE  ScanInv'
  <2>1. PICK h : h = Frame(u, k)
    OBVIOUS
  <2>2. PICK z : z = <<h>> \o s
    OBVIOUS
  <2>3. /\ h \in FrameType /\ h.doc = u /\ h.got = None /\ ~h.waiting
    BY <2>1, FrameSteps DEF Frame, Scan
  <2>4. FrameOk(h)'
    <3>1. type'[u] \in Scanned
      <4>1. type'[u] = TypeOf(u, FALSE, discovered)
        BY <1>6 DEF NewDocument, TypeOK
      <4> QED
        BY <1>17, <4>1 DEF TypeOf, Scanned
    <3>2. \A hows : ~Awaits(h, hows)'
      BY <2>3, SameFiles DEF Awaits
    <3> QED
      BY <1>7, <2>3, <3>1, <3>2 DEF FrameOk
  <2>5. \A i \in 1..Len(s) : Above(h, s[i])'
    <3> SUFFICES ASSUME NEW i \in 1..Len(s) PROVE Above(h, s[i])'
      OBVIOUS
    <3>1. PICK g \in FrameType : g = s[i]
      BY <1>12
    <3>2. Above(Frame(u, k), g)'
      BY <1>15, <3>1
    <3> QED
      BY <2>1, <3>1, <3>2
  <2>6. StackOk(z)'
    BY <1>12, <2>2, <2>3, <2>4, <2>5, NextPush
  <2>7. stack' = z
    BY <1>17, <2>1, <2>2
  <2> QED
    BY <1>7, <2>6, <2>7, NextScanInv
<1> QED
  BY <1>6, <1>16, <1>17 DEF NewDocument

\* The schema that is taken for another was made.
LEMMA CopyMade ==
  ASSUME TypeOK, RegistrySound, ScanInv, NEW u \in Docs, NEW included, Copy(u, included) # None
  PROVE  Made(Copy(u, included))
<1>1. /\ file[u].ns \in Namespaces /\ namespaceDocs[file[u].ns] \in Seq(Docs)
      /\ namespaceDocs[file[u].ns] # <<>> /\ Copy(u, included) = namespaceDocs[file[u].ns][1]
  BY CopySame
<1>2. 1 \in 1..Len(namespaceDocs[file[u].ns])
  BY <1>1
<1> QED
  BY <1>1, <1>2 DEF ScanInv, DocsOk

\* The stack after load().
LEMMA LoadScans ==
  ASSUME TypeOK, TypeOK', ScanInv, RegistrySound, Grows,
         NEW u \in Docs, NEW discovered \in BOOLEAN, NEW included \in BOOLEAN,
         NEW expected \in Namespaces \cup {None}, Loads(u, discovered, included, expected)
  PROVE  ScanInv'
<1>1. AtItem /\ stack # <<>> /\ Calling(u, discovered, included, expected)
  BY DEF Loads, AtItem
<1>2. phase' # "start" /\ file' = file /\ asked \subseteq asked'
  BY <1>1 DEF Grows, ScanInv, DocsOk
<1>3. ASSUME UNCHANGED docVars, NEW d \in Docs \cup {None}, d = urlDocs[u] \/ d = None,
             stack' = <<Waiting(Top, d)>> \o Callers
      PROVE  ScanInv'
  <2>1. DocsOk' /\ Kept
    BY <1>2, <1>3, DocsKept DEF docVars, ScanInv
  <2>2. d # None => Made(d) /\ (d = u \/ SameSchema(u, d))
    BY <1>3 DEF ScanInv, DocsOk, RegistrySound
  <2> QED
    BY <1>1, <1>2, <1>3, <2>1, <2>2, ReturnsScans DEF docVars
<1>4. ASSUME urlDocs[u] = None, Copy(u, included) # None,
             urlDocs' = [urlDocs EXCEPT ![u] = Copy(u, included)],
             stack' = <<Waiting(Top, Copy(u, included))>> \o Callers,
             UNCHANGED <<order, type, inDTS, targetNs, namespaceDocs, outside, unloadable>>
      PROVE  ScanInv'
  <2>1. PICK d : d = Copy(u, included)
    OBVIOUS
  <2>2. d \in Docs /\ SameSchema(u, d) /\ Made(d) /\ d # u
    <3>1. d \in Docs /\ SameSchema(u, d)
      BY <1>4, <2>1, CopySame
    <3>2. Made(d)
      BY <1>4, <2>1, CopyMade
    <3> QED
      BY <1>4, <3>1, <3>2, DocsAssumption DEF Made
  <2>3. /\ urlDocs'[u] = d
        /\ \A e \in Docs : e # u => urlDocs'[e] = urlDocs[e]
    BY <1>4, <2>1 DEF TypeOK
  <2>4. \A e \in Docs : urlDocs'[e] = e <=> Made(e)
    BY <1>4, <2>2, <2>3, DocsAssumption DEF Made
  <2>5. DocsOk'
    <3>1. ASSUME NEW e \in Docs, urlDocs'[e] # None PROVE urlDocs'[urlDocs'[e]] = urlDocs'[e]
      <4>1. urlDocs'[e] = d \/ (urlDocs'[e] = urlDocs[e] /\ urlDocs[e] \in Docs /\ Made(urlDocs[e]))
        BY <2>3, <3>1 DEF ScanInv, DocsOk, TypeOK
      <4> QED
        BY <2>2, <2>4, <4>1
    <3>2. ASSUME NEW e \in Docs, Made(e)' PROVE DocOk(e)'
      <4>1. DocOk(e)
        BY <2>4, <3>2 DEF ScanInv, DocsOk, Made
      <4> QED
        BY <1>2, <1>4, <4>1 DEF DocOk, Known
    <3>3. \A e \in Docs : urlDocs'[e] # e => type[e] = None /\ ~inDTS[e]
      BY <2>4 DEF ScanInv, DocsOk
    <3>4. \A n \in Namespaces \cup {None} : \A i \in 1..Len(namespaceDocs[n]) :
              urlDocs'[namespaceDocs[n][i]] = namespaceDocs[n][i]
      BY <2>4 DEF ScanInv, DocsOk, TypeOK
    <3>5. \A i \in 1..Len(order) : urlDocs'[order[i]] = order[i]
      BY <2>4 DEF ScanInv, DocsOk, TypeOK
    <3> QED
      BY <1>2, <1>4, <3>1, <3>2, <3>3, <3>4, <3>5 DEF DocsOk, Made
  <2>6. Kept
    BY <1>4, <2>4 DEF Kept
  <2>7. stack' = <<Waiting(Top, d)>> \o Callers
    BY <1>4, <2>1
  <2> QED
    BY <1>1, <1>2, <1>4, <2>2, <2>5, <2>6, <2>7, ReturnsScans
<1>5. ASSUME urlDocs[u] = None,
             NewDocument(u, FALSE, discovered, included, expected, <<Waiting(Top, u)>> \o Callers)
      PROVE  ScanInv'
  BY <1>1, <1>2, <1>5, NewScans
<1> QED
  <2>1. urlDocs[u] \in Docs \cup {None}
    BY DEF TypeOK
  <2> QED
    BY <1>3, <1>4, <1>5, <2>1 DEF Loads, Load

\* A schema that is registered was made, and is scanned as one.
LEMMA RegisteredSchema ==
  ASSUME TypeOK, ScanInv, RegistrySound, NEW n \in Namespaces, NEW ref, ref.to \in Docs,
         NEW d \in Docs, d = Match(ref, n)
  PROVE  Made(d) /\ type[d] = "schema"
<1>1. namespaceDocs[n] \in Seq(Docs) /\ d # None
  BY DocsAssumption DEF TypeOK
<1>2. \E i \in 1..Len(namespaceDocs[n]) : d = namespaceDocs[n][i]
  BY <1>1 DEF Match
<1>3. PICK i \in 1..Len(namespaceDocs[n]) : d = namespaceDocs[n][i]
  BY <1>2
<1>4. Made(d) /\ file[d].root = "schema"
  BY <1>3 DEF ScanInv, DocsOk, RegistrySound
<1> QED
  BY <1>4 DEF ScanInv, DocsOk, DocOk

\* A document that is promoted may be scanned again: nothing around it leads outside.
LEMMA RescanAbove ==
  ASSUME TypeOK, file' = file, NEW d \in Docs, ~inDTS[d], inDTS' = [inDTS EXCEPT ![d] = TRUE],
         NEW g \in FrameType, ~OutsideCall(g), NEW h, h = Frame(d, "rescan")
  PROVE  Above(h, g)' /\ ~OutsideCall(g)'
<1>1. h.kind = "rescan" /\ h.doc = d /\ ~h.waiting /\ g.doc \in Docs
  BY DEF Frame, Scan, FrameType
<1>2. /\ XbrldiSchemas' = XbrldiSchemas
      /\ \A hows : Awaits(g, hows)' <=> Awaits(g, hows)
  BY SameFiles
<1>3. inDTS[g.doc] => inDTS'[g.doc]
  BY <1>1 DEF TypeOK
<1>4. ~OutsideCall(g)'
  BY <1>2, <1>3 DEF OutsideCall
<1>5. (g.kind # "hints" /\ g.doc = d) => d \in XbrldiSchemas
  BY DEF OutsideCall
<1> QED
  BY <1>1, <1>2, <1>4, <1>5 DEF Above, First

\* A promotion: only what was made enters the DTS.
LEMMA PromotesDocs ==
  ASSUME TypeOK, ScanInv, Grows, stack # <<>>, NEW d \in Docs, Made(d),
         inDTS' = [inDTS EXCEPT ![d] = TRUE],
         UNCHANGED <<urlDocs, order, type, targetNs, namespaceDocs>>
  PROVE  DocsOk' /\ Kept /\ Raised /\ phase' # "start"
<1>1. phase # "start" /\ phase' # "start"
  BY DEF ScanInv, DocsOk, Grows
<1>2. \A e \in Docs : inDTS'[e] => inDTS[e] \/ Made(e)
  BY DEF TypeOK
<1>3. \A e \in Docs : inDTS[e] => inDTS'[e]
  BY DEF TypeOK
<1> QED
  BY <1>1, <1>2, <1>3, DocsKept DEF Grows, ScanInv, Raised

\* The scan of a promoted document.
LEMMA RescanOk ==
  ASSUME TypeOK, file' = file, NEW d \in Docs, Made(d), type[d] = "schema", urlDocs' = urlDocs,
         type' = type, NEW h, h = Frame(d, "rescan")
  PROVE  FrameOk(h)' /\ h \in FrameType
<1>1. h.doc = d /\ h.got = None /\ ~h.waiting /\ h \in FrameType
  BY FrameSteps DEF Frame, Scan
<1>2. \A hows : ~Awaits(h, hows)'
  BY <1>1 DEF Awaits
<1> QED
  BY <1>1, <1>2 DEF FrameOk, Made, Scanned

\* An import that takes a schema which is loaded already.
LEMMA TakesScans ==
  ASSUME TypeOK, ScanInv, RegistrySound, Grows, NEW doc \in Docs, Takes(doc)
  PROVE  ScanInv'
<1>1. PICK f : f = Waiting(Top, doc)
  OBVIOUS
<1>2. PICK rest : rest = Callers
  OBVIOUS
<1>3. PICK s : s = <<f>> \o rest
  OBVIOUS
<1>4. stack' = s
  BY <1>1, <1>2, <1>3 DEF Takes
<1>5. /\ stack # <<>> /\ AtItem /\ Item.how \in Schemas /\ Item.to \in Docs
      /\ ImportNs(Top.doc, Item) \in Namespaces /\ doc = Match(Item, ImportNs(Top.doc, Item))
      /\ UNCHANGED <<urlDocs, order, type, targetNs, namespaceDocs, inDTS>> /\ file' = file
  BY ItemAtTop DEF Takes, Taking, AtItem, Grows
<1>6. Made(doc)
  BY <1>5, RegisteredSchema
<1>7. DocsOk' /\ Kept /\ Lowered
  <2>1. phase' # "start"
    BY <1>5 DEF Grows, ScanInv, DocsOk
  <2> QED
    BY <1>5, <2>1, DocsKept DEF Grows, ScanInv, Lowered
<1>8. Made(doc)' /\ Item.how \notin LinkHows /\ Item.how \notin HintHows
  BY <1>5, <1>6 DEF Made, Schemas, LinkHows, Links, HintHows
<1>9. StackOk(s)'
  BY <1>1, <1>2, <1>3, <1>5, <1>7, <1>8, WaitingOk DEF HintHows
<1> QED
  BY <1>4, <1>7, <1>9, NextScanInv

\* An import that promotes a schema first met outside of the DTS.
LEMMA TakesAndPromotesScans ==
  ASSUME TypeOK, ScanInv, RegistrySound, Grows, NEW doc \in Docs, TakesAndPromotes(doc)
  PROVE  ScanInv'
<1>1. PICK f : f = Waiting(Top, doc)
  OBVIOUS
<1>2. PICK rest : rest = Callers
  OBVIOUS
<1>3. PICK s : s = <<f>> \o rest
  OBVIOUS
<1>a. PICK h : h = Frame(doc, "rescan")
  OBVIOUS
<1>b. PICK z : z = <<h>> \o s
  OBVIOUS
<1>4. stack' = z
  BY <1>1, <1>2, <1>3, <1>a, <1>b DEF TakesAndPromotes
<1>5. /\ stack # <<>> /\ AtItem /\ Item.how \in Schemas /\ Item.to \in Docs
      /\ ImportNs(Top.doc, Item) \in Namespaces /\ doc = Match(Item, ImportNs(Top.doc, Item))
      /\ UNCHANGED <<urlDocs, order, type, targetNs, namespaceDocs>> /\ file' = file
      /\ inDTS[Top.doc] /\ ~inDTS[doc] /\ inDTS' = [inDTS EXCEPT ![doc] = TRUE]
  BY ItemAtTop DEF TakesAndPromotes, Taking, AtItem, Grows, Promote
<1>6. Made(doc) /\ type[doc] = "schema"
  BY <1>5, RegisteredSchema
<1>7. DocsOk' /\ Kept /\ Raised
  BY <1>5, <1>6, PromotesDocs
<1>8. /\ f \in FrameType /\ f.doc = Top.doc /\ f.kind = Top.kind /\ f.got = doc
      /\ Items(f)[f.next] = Item
      /\ \A hows : Awaits(f, hows) <=> Item.how \in hows
  BY <1>1, <1>5, WaitingFor
<1>9. /\ FrameOk(Top) /\ Top.kind # "hints"
      /\ rest \in Seq(FrameType) /\ \A i \in 1..Len(rest) : ~OutsideCall(rest[i])
  BY <1>2, <1>5, InsideCall, TopOk DEF ScanInv
<1>10. ~OutsideCall(f) /\ ~Awaits(f, HintHows) /\ ~Awaits(f, LinkHows)
  <2>1. ~Awaits(f, HintHows) /\ ~Awaits(f, LinkHows)
    BY <1>5, <1>8 DEF Schemas, LinkHows, Links, HintHows
  <2> QED
    BY <1>5, <1>8, <2>1 DEF OutsideCall
<1>11. FrameOk(f)'
  <2>1. \A hows : Awaits(f, hows)' <=> Awaits(f, hows)
    BY <1>5, SameFiles
  <2>2. Made(f.doc)' /\ Made(f.got)' /\ (f.kind # "hints" => type'[f.doc] \in Scanned)
    BY <1>5, <1>6, <1>8, <1>9 DEF FrameOk, Made
  <2>3. ~Awaits(f, {"element", "hint"}) /\ ~Awaits(f, {"xbrldi"})
    BY <1>10 DEF Awaits, HintHows
  <2> QED
    BY <1>10, <2>1, <2>2, <2>3 DEF FrameOk
<1>12. OutsideScan(Top) => OutsideScan(f)
  BY <1>5 DEF OutsideScan
<1>c. Lowered \/ (Raised /\ \A i \in 1..Len(rest) : ~OutsideCall(rest[i]))
  BY <1>7, <1>9
<1>d. f.doc = Top.doc /\ f.kind = Top.kind /\ f \in FrameType
  BY <1>8
<1>13. StackOk(s)' /\ s \in Seq(FrameType)
  BY <1>2, <1>3, <1>5, <1>7, <1>c, <1>d, <1>11, <1>12, NextTop
<1>14. \A i \in 1..Len(s) : s[i] = f \/ \E j \in 1..Len(rest) : s[i] = rest[j]
  BY <1>2, <1>3, <1>5, <1>7, <1>c, <1>d, <1>11, <1>12, NextTop
<1>15. ASSUME NEW i \in 1..Len(s) PROVE Above(h, s[i])'
  <2>1. PICK g \in FrameType : g = s[i]
    BY <1>13
  <2>2. ~OutsideCall(g)
    BY <1>9, <1>10, <1>14, <2>1
  <2>3. Above(h, g)'
    BY <1>5, <1>a, <2>2, RescanAbove
  <2> QED
    BY <2>1, <2>3
<1>16. FrameOk(h)' /\ h \in FrameType
  BY <1>5, <1>6, <1>a, RescanOk
<1>17. StackOk(z)'
  BY <1>13, <1>15, <1>16, <1>b, NextPush
<1> QED
  BY <1>4, <1>7, <1>17, NextScanInv

\* A link that promotes a document first met outside of the DTS.
LEMMA HrefPromotesScans ==
  ASSUME TypeOK, ScanInv, Grows, HrefPromotes
  PROVE  /\ ScanInv' /\ Top.got \in Docs /\ type[Top.got] = "schema" /\ ~inDTS[Top.got]
         /\ \A i \in 1..Len(stack) : ~OutsideCall(stack[i])
<1>1. PICK stk : stk = stack
  OBVIOUS
<1>2. PICK d : d = Top.got
  OBVIOUS
<1>a. PICK h : h = Frame(d, "rescan")
  OBVIOUS
<1>b. PICK z : z = <<h>> \o stk
  OBVIOUS
<1>3. /\ stack # <<>> /\ Item.how \in Links /\ Awaits(Top, LinkHows)
      /\ d # None /\ ~inDTS[d] /\ type[d] # "unknown" /\ inDTS' = [inDTS EXCEPT ![d] = TRUE]
      /\ UNCHANGED <<urlDocs, order, type, targetNs, namespaceDocs>> /\ file' = file
      /\ stack' = (IF type[Top.got] = "schema" THEN <<Frame(Top.got, "rescan")>> ELSE <<>>) \o stack
  BY <1>2 DEF HrefPromotes, NewlyDiscovered, Returned, Awaits, Item, LinkHows, Promote
<1>4. Top \in FrameType /\ FrameOk(Top) /\ d \in Docs /\ stk \in Seq(FrameType) /\ StackOk(stk)
  <2>1. Top \in FrameType /\ FrameOk(Top)
    BY <1>3, TopOk DEF ScanInv
  <2> QED
    BY <1>1, <1>2, <1>3, <2>1 DEF FrameType, TypeOK, ScanInv
<1>5. Made(d) /\ type[d] = "schema"
  <2>1. Made(d)
    BY <1>2, <1>3, <1>4 DEF FrameOk
  <2>2. type[d] \in Types /\ type[d] \notin {"linkbase", "instance"}
    BY <1>3, <1>4, <2>1 DEF ScanInv, DocsOk, DocOk, TypeOK
  <2> QED
    BY <1>3, <2>1, <2>2 DEF Types
<1>6. stack' = z
  BY <1>1, <1>2, <1>3, <1>5, <1>a, <1>b
<1>7. DocsOk' /\ Kept /\ Raised
  BY <1>3, <1>4, <1>5, PromotesDocs
<1>8. \A i \in 1..Len(stk) : ~OutsideCall(stk[i])
  <2>1. ~OutsideCall(Top) /\ ~OutsideScan(Top)
    BY <1>3, <1>4 DEF OutsideCall, OutsideScan, FrameOk, Awaits, LinkHows, HintHows, Links
  <2> QED
    BY <1>1, <1>3, <2>1, NoneOutside DEF ScanInv
<1>9. StackOk(stk)'
  <2>1. DocsOk /\ file' = file
    BY <1>3 DEF ScanInv
  <2> QED
    BY <1>4, <1>7, <1>8, <2>1, StackKept
<1>10. ASSUME NEW i \in 1..Len(stk) PROVE Above(h, stk[i])'
  <2>1. PICK g \in FrameType : g = stk[i]
    BY <1>4
  <2>2. Above(h, g)'
    BY <1>3, <1>4, <1>8, <1>a, <2>1, RescanAbove
  <2> QED
    BY <2>1, <2>2
<1>11. FrameOk(h)' /\ h \in FrameType
  BY <1>3, <1>4, <1>5, <1>a, RescanOk
<1>12. StackOk(z)'
  BY <1>4, <1>9, <1>10, <1>11, <1>b, NextPush
<1>13. ScanInv'
  BY <1>6, <1>7, <1>12, NextScanInv
<1> QED
  BY <1>1, <1>2, <1>3, <1>4, <1>5, <1>8, <1>13

\* A schemaLocation's schema is taken out of the DTS only if it is the xbrldi schema.
LEMMA ClearsXbrldi ==
  ASSUME TypeOK, ScanInv, stack # <<>>, Clears
  PROVE  /\ Top.got \in Docs /\ Made(Top.got)
         /\ inDTS[Top.got] => Top.got \in XbrldiSchemas /\ type[Top.got] = "schema"
<1>1. FrameOk(Top) /\ Top \in FrameType
  BY TopOk DEF ScanInv
<1>2. Top.got \in Docs /\ Made(Top.got) /\ Top.next <= Len(Items(Top)) /\ Awaits(Top, HintHows)
  BY <1>1 DEF Clears, FrameOk, FrameType, Awaits
<1>3. ASSUME inDTS[Top.got] PROVE Item.how = "xbrldi"
  <2> SUFFICES ASSUME Item.how \in {"element", "hint"} PROVE FALSE
    BY <1>2 DEF Awaits, HintHows, Item
  <2>1. targetNs[Top.got] = Item.ns
    BY DEF Clears, Expected
  <2>2. Awaits(Top, {"element", "hint"})
    BY <1>2 DEF Awaits, Item
  <2> QED
    BY <1>1, <1>2, <1>3, <2>1, <2>2 DEF FrameOk, Item, Clears
<1>4. ASSUME inDTS[Top.got] PROVE Top.got \in XbrldiSchemas /\ type[Top.got] = "schema"
  <2>1. Item.how = "xbrldi" /\ Awaits(Top, {"xbrldi"})
    BY <1>2, <1>3, <1>4 DEF Awaits, Item
  <2>2. targetNs[Top.got] = XbrldiNs /\ XbrldiNs # None
    BY <2>1, DocsAssumption DEF Clears, Expected
  <2> QED
    BY <1>1, <1>2, <2>1, <2>2 DEF FrameOk, Clears, ScanInv, DocsOk, DocOk
<1> QED
  BY <1>2, <1>4

\* A scan that goes on to its next reference.
LEMMA SkipsScans ==
  ASSUME TypeOK, TypeOK', ScanInv, Grows, Skips
  PROVE  ScanInv'
<1>1. PICK f : f = Past(Top)
  OBVIOUS
<1>2. PICK rest : rest = Callers
  OBVIOUS
<1>3. PICK s : s = <<f>> \o rest
  OBVIOUS
<1>4. /\ stack' = s /\ stack # <<>> /\ file' = file
      /\ UNCHANGED <<urlDocs, order, type, targetNs, namespaceDocs>>
      /\ inDTS' = inDTS \/ Clears
  BY <1>1, <1>2, <1>3 DEF Skips, Grows
<1>5. /\ \A d \in Docs : inDTS'[d] => inDTS[d]
      /\ \A d \in Docs : inDTS[d] /\ ~inDTS'[d] => d \in XbrldiSchemas /\ type[d] = "schema"
  <2>1. CASE inDTS' = inDTS
    BY <2>1
  <2>2. CASE Clears
    <3>1. /\ Top.got \in Docs /\ inDTS[Top.got] =>
                Top.got \in XbrldiSchemas /\ type[Top.got] = "schema"
          /\ inDTS' = [inDTS EXCEPT ![Top.got] = FALSE]
      BY <1>4, <2>2, ClearsXbrldi DEF Clears
    <3> QED
      BY <3>1 DEF TypeOK
  <2> QED
    BY <1>4, <2>1, <2>2
<1>6. DocsOk' /\ Kept
  <2>1. phase' # "start"
    BY <1>4 DEF Grows, ScanInv, DocsOk
  <2> QED
    BY <1>4, <1>5, <2>1, DocsKept DEF Grows, ScanInv
<1>7. Lowered
  BY <1>5 DEF Lowered, TypeOK
<1>8. /\ f \in FrameType /\ f.doc = Top.doc /\ f.kind = Top.kind /\ f.got = None /\ ~f.waiting
      /\ FrameOk(Top) /\ Top.doc \in Docs
  BY <1>1, <1>4, FrameSteps, TopOk DEF Past, Scan, ScanInv, FrameType
<1>9. FrameOk(f)'
  <2>1. \A hows : ~Awaits(f, hows)'
    BY <1>8 DEF Awaits
  <2> QED
    BY <1>4, <1>8, <2>1 DEF FrameOk, Made
<1>10. OutsideScan(Top) => OutsideScan(f)
  BY <1>8 DEF OutsideScan, Awaits
<1>11. f.doc = Top.doc /\ f.kind = Top.kind /\ f \in FrameType
  BY <1>8
<1>12. StackOk(s)'
  BY <1>2, <1>3, <1>4, <1>6, <1>7, <1>9, <1>10, <1>11, NextTop
<1> QED
  BY <1>4, <1>6, <1>12, NextScanInv

\* The entry point is the first document that is made.
LEMMA EntersScans ==
  ASSUME TypeOK, TypeOK', ScanInv, Grows, Enters
  PROVE  ScanInv'
<1>1. PICK h : h = Frame(Entry, "new")
  OBVIOUS
<1>2. PICK z : z = <<h>>
  OBVIOUS
<1>3. /\ phase' # "start" /\ urlDocs[Entry] = None /\ stack = <<>> /\ Entry \in Docs
      /\ NewDocument(Entry, TRUE, FALSE, FALSE, None, <<>>) /\ file' = file
  BY DocsAssumption DEF Enters, ScanInv, DocsOk, Grows
<1>4. DocsOk' /\ Made(Entry)'
  BY <1>3, NewDocumentOk DEF ScanInv, Grows
<1>5. stack' = <<>> \/ (stack' = z /\ TypeOf(Entry, TRUE, FALSE) # "unknown")
  <2>1. z = <<h>> \o <<>>
    BY <1>2
  <2>2. stack' = IF TypeOf(Entry, TRUE, FALSE) = "unknown" THEN <<>>
                 ELSE <<Frame(Entry, "new")>> \o <<>>
    BY <1>3 DEF NewDocument
  <2> QED
    BY <1>1, <2>1, <2>2
<1>6. CASE stack' = <<>>
  <2>1. PICK e : e = <<>>
    OBVIOUS
  <2>2. StackOk(e)'
    BY <2>1 DEF StackOk
  <2> QED
    BY <1>4, <1>6, <2>1, <2>2, NextScanInv
<1>7. CASE stack' = z /\ TypeOf(Entry, TRUE, FALSE) # "unknown"
  <2>1. h.doc = Entry /\ h.got = None /\ ~h.waiting
    BY <1>1 DEF Frame, Scan
  <2>2. type'[Entry] \in Scanned
    <3>1. type'[Entry] = TypeOf(Entry, TRUE, FALSE)
      BY <1>3 DEF NewDocument, TypeOK
    <3> QED
      BY <1>7, <3>1 DEF TypeOf, Scanned
  <2>3. FrameOk(h)'
    <3>1. \A hows : ~Awaits(h, hows)'
      BY <2>1 DEF Awaits
    <3> QED
      BY <1>4, <2>1, <2>2, <3>1 DEF FrameOk
  <2>4. StackOk(z)'
    <3>1. Len(z) = 1 /\ z[1] = h
      BY <1>2
    <3>2. \A i \in 1..Len(z) : z[i] = h
      BY <3>1
    <3>3. \A i, j \in 1..Len(z) : ~(i < j)
      BY <3>1
    <3>4. ASSUME NEW i \in 1..Len(z) PROVE FrameOk(z[i])'
      BY <2>3, <3>2
    <3> QED
      BY <3>3, <3>4 DEF StackOk
  <2> QED
    BY <1>4, <1>7, <2>4, NextScanInv
<1> QED
  BY <1>5, <1>6, <1>7

\* Every step keeps the documents and the scans right.
LEMMA ScanStep ==
  ASSUME TypeOK, TypeOK', RegistrySound, ScanInv, [Next]_vars
  PROVE  ScanInv'
<1>0. Grows /\ Kinds /\ file' = file
  BY NextKinds DEF Grows
<1>1. CASE Rests
  <2>1. PICK s : s = stack
    OBVIOUS
  <2>2. stack' = s /\ s \in Seq(FrameType) /\ StackOk(s)
    BY <1>1, <2>1 DEF Rests, ScanInv, TypeOK
  <2>3. DocsOk' /\ Kept /\ Lowered
    <3>1. phase' = "start" => phase = "start" /\ stack' = <<>>
      BY <1>0, <1>1 DEF Grows, ScanInv, DocsOk, Rests
    <3> QED
      BY <1>0, <1>1, <3>1, DocsKept DEF Rests, docVars, Grows, ScanInv, Lowered
  <2>4. StackOk(s)'
    BY <1>0, <2>2, <2>3, StackKept DEF ScanInv
  <2> QED
    BY <2>2, <2>3, <2>4, NextScanInv
<1>2. CASE Skips
  BY <1>0, <1>2, SkipsScans
<1>3. CASE LoadsOne
  BY <1>0, <1>3, LoadScans DEF LoadsOne
<1>4. CASE HrefPromotes
  BY <1>0, <1>4, HrefPromotesScans
<1>5. CASE Return
  <2>1. PICK rest : rest = Callers
    OBVIOUS
  <2>2. stack # <<>> /\ stack' = rest /\ UNCHANGED docVars
    BY <1>5, <2>1 DEF Return
  <2>3. DocsOk' /\ Kept /\ Lowered
    <3>1. phase' # "start"
      BY <1>0, <2>2 DEF Grows, ScanInv, DocsOk
    <3> QED
      BY <1>0, <2>2, <3>1, DocsKept DEF docVars, Grows, ScanInv, Lowered
  <2>4. rest \in Seq(FrameType) /\ StackOk(rest)
    BY <2>1, <2>2, TopOk DEF ScanInv
  <2>5. StackOk(rest)'
    BY <1>0, <2>3, <2>4, StackKept DEF ScanInv
  <2> QED
    BY <2>2, <2>3, <2>5, NextScanInv
<1>6. CASE LocateSchemas
  <2>1. PICK h : h = Frame(order[located + 1], "hints")
    OBVIOUS
  <2>2. PICK z : z = <<h>>
    OBVIOUS
  <2>3. stack' = z /\ UNCHANGED docVars /\ phase = "locate" /\ phase' = "locate"
        /\ located + 1 \in 1..Len(order)
    BY <1>6, <2>1, <2>2 DEF LocateSchemas, TypeOK
  <2>4. DocsOk'
    <3>1. phase' # "start"
      BY <2>3
    <3> QED
      BY <1>0, <2>3, <3>1, DocsKept DEF docVars, Grows, ScanInv
  <2>5. FrameOk(h)'
    <3>1. h.kind = "hints" /\ h.got = None /\ ~h.waiting /\ h.doc = order[located + 1]
      BY <2>1 DEF Frame, Scan
    <3>2. \A hows : ~Awaits(h, hows)'
      BY <3>1 DEF Awaits
    <3>3. Made(h.doc)'
      BY <2>3, <3>1 DEF ScanInv, DocsOk, docVars, Made
    <3> QED
      BY <3>1, <3>2, <3>3 DEF FrameOk
  <2>6. StackOk(z)'
    <3>1. Len(z) = 1 /\ z[1] = h
      BY <2>2
    <3>2. \A i \in 1..Len(z) : z[i] = h
      BY <3>1
    <3>3. \A i, j \in 1..Len(z) : ~(i < j)
      BY <3>1
    <3>4. ASSUME NEW i \in 1..Len(z) PROVE FrameOk(z[i])'
      BY <2>5, <3>2
    <3> QED
      BY <3>3, <3>4 DEF StackOk
  <2> QED
    BY <2>3, <2>4, <2>6, NextScanInv
<1>7. CASE Enters
  BY <1>0, <1>7, EntersScans
<1>8. CASE \E doc \in Docs : Takes(doc) \/ TakesAndPromotes(doc)
  BY <1>0, <1>8, TakesScans, TakesAndPromotesScans
<1> QED
  BY <1>0, <1>1, <1>2, <1>3, <1>4, <1>5, <1>6, <1>7, <1>8 DEF Kinds

LEMMA ScansRight == Spec => []ScanInv
<1>1. Init => ScanInv
  <2> SUFFICES ASSUME Init PROVE ScanInv
    OBVIOUS
  <2>1. \A u \in Docs : urlDocs[u] = None /\ ~Made(u)
    BY DocsAssumption DEF Init, Made
  <2>2. DocsOk
    BY <2>1 DEF Init, DocsOk
  <2>3. StackOk(stack)
    BY DEF Init, StackOk
  <2> QED
    BY <2>2, <2>3 DEF ScanInv
<1> QED
  BY <1>1, ScanStep, TypeCorrect, RegistryCorrect, PTL DEF Spec

\* Only the xbrldi schema, and schemas taken for it, may be taken out of the DTS.
LEMMA StaysStep ==
  ASSUME TypeOK, TypeOK', ScanInv, [Next]_vars, NEW d \in Docs \ XbrldiSchemas, inDTS[d]
  PROVE  inDTS'[d]
<1>0. Grows /\ Kinds /\ file' = file
  BY NextKinds DEF Grows
<1>1. CASE Rests \/ Return \/ LocateSchemas
  BY <1>1 DEF Rests, Return, LocateSchemas, docVars
<1>2. CASE Skips
  <2>1. CASE inDTS' = inDTS
    BY <2>1
  <2>2. CASE Clears
    <3>1. Top.got # d
      BY <1>2, <2>2, ClearsXbrldi DEF Skips
    <3> QED
      BY <2>2, <3>1 DEF Clears, TypeOK
  <2> QED
    BY <1>2, <2>1, <2>2 DEF Skips
<1>3. ASSUME NEW u \in Docs, urlDocs[u] = None, NEW entry, NEW discovered, NEW included,
             NEW expected, NEW callers,
             NewDocument(u, entry, discovered, included, expected, callers)
      PROVE  inDTS'[d]
  <2>1. d # u
    BY <1>3, DocsAssumption DEF ScanInv, DocsOk, Made
  <2> QED
    BY <1>3, <2>1 DEF NewDocument, TypeOK
<1>4. CASE LoadsOne
  BY <1>3, <1>4 DEF LoadsOne, Loads, Load, docVars
<1>5. CASE Enters
  BY <1>3, <1>5, DocsAssumption DEF Enters, ScanInv, DocsOk
<1>6. CASE HrefPromotes
  BY <1>6 DEF HrefPromotes, Promote, TypeOK
<1>7. CASE \E doc \in Docs : Takes(doc) \/ TakesAndPromotes(doc)
  BY <1>7 DEF Takes, TakesAndPromotes, Promote, TypeOK
<1> QED
  BY <1>0, <1>1, <1>2, <1>4, <1>5, <1>6, <1>7 DEF Kinds

\* For any taxonomy: once a document is in the DTS nothing takes it out again, though
\* loadSchemalocatedSchema clears inDTS of whatever load() returns to it.  The exception
\* is the xbrldi schema, which is taken out even after it was imported.
THEOREM DocumentsStayDiscovered == Spec => StaysDiscovered
<1>1. TypeOK /\ TypeOK' /\ ScanInv /\ [Next]_vars =>
          [\A d \in Docs \ XbrldiSchemas : inDTS[d] => inDTS'[d]]_vars
  BY StaysStep
<1> QED
  BY <1>1, TypeCorrect, ScansRight, PTL DEF Spec, StaysDiscovered

-----------------------------------------------------------------------------
(* The links of the documents, and whether they were processed.               *)

ScanOf(f, d) == f.kind # "hints" /\ f.doc = d
LinksOf(d) == {i \in 1..Len(file[d].refs) : file[d].refs[i].how \in LinkHows}

\* The scan has come to the reference i.
Reached(f, i) == i < f.next \/ (i = f.next /\ f.waiting)

\* The link i of d is among those done unless a scan of d has not come to it.
Followed(stk, done, d, i) ==
    /\ (\A k \in 1..Len(stk) : ~ScanOf(stk[k], d)) => <<d, i>> \in done
    /\ \A k \in 1..Len(stk) : ScanOf(stk[k], d) => (<<d, i>> \in done <=> Reached(stk[k], i))

LinkOk(d, i) ==
    /\ ~inDTS[d] => <<d, i>> \notin processed
    /\ (inDTS[d] /\ type[d] \in Scanned) => Followed(stack, processed, d, i)

LinkInv ==
    /\ \A p \in again : p[1] \in XbrldiSchemas
    /\ \A d \in Docs \ XbrldiSchemas : \A i \in LinksOf(d) : LinkOk(d, i)

\* A call that is no scan of d changes nothing for d; one that is counts alone.
LEMMA FollowedPush ==
  ASSUME NEW f \in FrameType, NEW stk \in Seq(FrameType), NEW done, NEW d, NEW i,
         NEW s, s = <<f>> \o stk
  PROVE  /\ ~ScanOf(f, d) => (Followed(s, done, d, i) <=> Followed(stk, done, d, i))
         /\ (ScanOf(f, d) /\ \A k \in 1..Len(stk) : ~ScanOf(stk[k], d)) =>
               (Followed(s, done, d, i) <=> (<<d, i>> \in done <=> Reached(f, i)))
<1>1. /\ Len(s) = Len(stk) + 1 /\ Len(stk) \in Nat /\ s[1] = f
      /\ \A k \in 1..Len(stk) : s[k + 1] = stk[k] /\ k + 1 \in 1..Len(s)
      /\ 1 \in 1..Len(s)
  BY Push
<1>2. \A k \in 1..Len(s) : k = 1 \/ (k - 1 \in 1..Len(stk) /\ s[k] = stk[k - 1])
  BY PushCases
<1>3. ASSUME ~ScanOf(f, d) PROVE Followed(s, done, d, i) <=> Followed(stk, done, d, i)
  BY <1>1, <1>2, <1>3 DEF Followed
<1>4. ASSUME ScanOf(f, d), \A k \in 1..Len(stk) : ~ScanOf(stk[k], d)
      PROVE  Followed(s, done, d, i) <=> (<<d, i>> \in done <=> Reached(f, i))
  <2>1. \A k \in 1..Len(s) : ScanOf(s[k], d) <=> k = 1
    BY <1>1, <1>2, <1>4
  <2> QED
    BY <1>1, <2>1 DEF Followed
<1> QED
  BY <1>3, <1>4

LEMMA FollowedOther ==
  ASSUME NEW f \in FrameType, NEW stk \in Seq(FrameType), NEW done, NEW d, NEW i, ~ScanOf(f, d),
         Followed(stk, done, d, i)
  PROVE  Followed(<<f>> \o stk, done, d, i)
  BY FollowedPush

LEMMA FollowedScan ==
  ASSUME NEW f \in FrameType, NEW stk \in Seq(FrameType), NEW done, NEW d, NEW i, ScanOf(f, d),
         \A k \in 1..Len(stk) : ~ScanOf(stk[k], d), <<d, i>> \in done <=> Reached(f, i)
  PROVE  Followed(<<f>> \o stk, done, d, i)
  BY FollowedPush

\* The innermost call, when it goes on as f, as far as d is concerned.
LEMMA FollowedTop ==
  ASSUME TypeOK, ScanInv, stack # <<>>, NEW d \in Docs \ XbrldiSchemas, NEW done, NEW i,
         NEW f \in FrameType, f.doc = Top.doc, f.kind = Top.kind
  PROVE  /\ ScanOf(f, d) <=> ScanOf(Top, d)
         /\ ScanOf(Top, d) => \A k \in 1..Len(Callers) : ~ScanOf(Callers[k], d)
         /\ ~ScanOf(Top, d) => (Followed(<<f>> \o Callers, done, d, i) <=> Followed(Callers, done, d, i))
         /\ ScanOf(Top, d) =>
               (Followed(<<f>> \o Callers, done, d, i) <=> (<<d, i>> \in done <=> Reached(f, i)))
<1>1. Callers \in Seq(FrameType) /\ \A k \in 1..Len(Callers) : Above(Top, Callers[k])
  BY TopOk DEF ScanInv
<1>2. ScanOf(f, d) <=> ScanOf(Top, d)
  BY DEF ScanOf
<1>3. ScanOf(Top, d) => \A k \in 1..Len(Callers) : ~ScanOf(Callers[k], d)
  BY <1>1 DEF ScanOf, Above
<1> QED
  BY <1>1, <1>2, <1>3, FollowedPush

\* The stack is its innermost call and the callers.
LEMMA StackSplit ==
  ASSUME TypeOK, stack # <<>>
  PROVE  stack = <<Top>> \o Callers
  BY DEF TypeOK, Top, Callers

\* How a step that goes on with the innermost scan changes what is done.
LEMMA LinksShift ==
  ASSUME TypeOK, ScanInv, LinkInv, stack # <<>>, NEW d \in Docs \ XbrldiSchemas, NEW i \in LinksOf(d),
         NEW f \in FrameType, f.doc = Top.doc, f.kind = Top.kind, NEW done,
         inDTS[d], type[d] \in Scanned,
         <<d, i>> \in processed => <<d, i>> \in done,
         ~ScanOf(Top, d) => (<<d, i>> \in done => <<d, i>> \in processed),
         ScanOf(Top, d) => (<<d, i>> \in done <=> (<<d, i>> \in processed \/ (Reached(f, i) /\ ~Reached(Top, i)))),
         Reached(Top, i) => Reached(f, i)
  PROVE  Followed(<<f>> \o Callers, done, d, i)
<1>1. Followed(<<Top>> \o Callers, processed, d, i)
  BY StackSplit DEF LinkInv, LinkOk
<1>2. Top \in FrameType
  BY Calls
<1>3. CASE ScanOf(Top, d)
  <2>1. <<d, i>> \in processed <=> Reached(Top, i)
    BY <1>1, <1>2, <1>3, FollowedTop
  <2> QED
    BY <1>3, <2>1, FollowedTop
<1>4. CASE ~ScanOf(Top, d)
  <2>1. Followed(Callers, processed, d, i)
    BY <1>1, <1>2, <1>4, FollowedTop
  <2>2. Followed(Callers, done, d, i)
    BY <1>4, <2>1 DEF Followed
  <2> QED
    BY <1>4, <2>2, FollowedTop
<1> QED
  BY <1>3, <1>4

\* What is common to the steps that leave the documents as they are.
LEMMA LinksStay ==
  ASSUME NEW d, NEW i, LinkOk(d, i), processed' = processed, type' = type,
         inDTS'[d] = inDTS[d],
         (inDTS[d] /\ type[d] \in Scanned) => Followed(stack', processed, d, i)
  PROVE  LinkOk(d, i)'
  BY DEF LinkOk

\* A link that is passed was processed, or its schema is not in the DTS.
LEMMA SkipsLinks ==
  ASSUME TypeOK, ScanInv, LinkInv, Skips, NEW d \in Docs \ XbrldiSchemas, NEW i \in LinksOf(d)
  PROVE  LinkOk(d, i)'
<1>1. /\ stack # <<>> /\ Top.next <= Len(Items(Top)) /\ Top \in FrameType /\ Top.next \in Nat
      /\ type' = type /\ processed' = processed /\ stack' = <<Past(Top)>> \o Callers
      /\ i \in Nat
  BY Calls DEF Skips, history, FrameType, LinksOf
<1>2. inDTS'[d] = inDTS[d]
  <2>1. CASE inDTS' = inDTS
    BY <2>1
  <2>2. CASE Clears
    <3>1. inDTS[Top.got] => Top.got # d
      BY <1>1, <2>2, ClearsXbrldi
    <3>2. inDTS' = [inDTS EXCEPT ![Top.got] = FALSE]
      BY <2>2 DEF Clears
    <3> QED
      BY <3>1, <3>2 DEF TypeOK
  <2> QED
    BY <2>1, <2>2 DEF Skips
<1>3. ASSUME inDTS[d], type[d] \in Scanned PROVE Followed(<<Past(Top)>> \o Callers, processed, d, i)
  <2>1. /\ Past(Top) \in FrameType /\ Past(Top).doc = Top.doc /\ Past(Top).kind = Top.kind
        /\ Past(Top).next = Top.next + 1 /\ ~Past(Top).waiting
    BY <1>1, FrameSteps DEF Past, Scan
  <2>2. Reached(Past(Top), i) <=> i <= Top.next
    BY <1>1, <2>1 DEF Reached
  <2>3. ScanOf(Top, d) /\ i = Top.next => Top.waiting
    <3> SUFFICES ASSUME ScanOf(Top, d), i = Top.next PROVE Top.waiting
      OBVIOUS
    <3>1. Item.how \in LinkHows
      BY <1>1, ItemAtTop DEF ScanOf, LinksOf
    <3> QED
      BY <1>3, <3>1 DEF Skips, LinkIgnored, ScanOf
  <2>4. /\ Reached(Top, i) => Reached(Past(Top), i)
        /\ ScanOf(Top, d) => (Reached(Top, i) <=> Reached(Past(Top), i))
    BY <1>1, <2>2, <2>3 DEF Reached
  <2> QED
    BY <1>1, <1>3, <2>1, <2>4, LinksShift
<1>4. LinkOk(d, i)
  BY DEF LinkInv
<1> QED
  BY <1>1, <1>2, <1>3, <1>4, LinksStay

\* A scan that waits: the link that makes the call is processed, no other.
LEMMA WaitingLinks ==
  ASSUME TypeOK, ScanInv, LinkInv, AtItem, Item.how \in LinkHows => ~LinkIgnored,
         NEW c \in Docs \cup {None}, NEW link,
         link = (IF Item.how \in LinkHows THEN {<<Top.doc, Top.next>>} ELSE {}),
         NEW d \in Docs \ XbrldiSchemas, NEW i \in LinksOf(d)
  PROVE  /\ (inDTS[d] /\ type[d] \in Scanned) =>
               Followed(<<Waiting(Top, c)>> \o Callers, processed \cup link, d, i)
         /\ ~inDTS[d] => <<d, i>> \notin processed \cup link
<1>1. /\ stack # <<>> /\ Top.next <= Len(Items(Top)) /\ Top \in FrameType /\ Top.next \in Nat
      /\ ~Top.waiting /\ i \in Nat
  BY Calls DEF AtItem, FrameType, LinksOf
<1>2. Item.how \in LinkHows => inDTS[Top.doc] /\ Top.kind # "hints"
  BY InsideCall
<1>3. ~inDTS[d] => <<d, i>> \notin processed \cup link
  BY <1>2 DEF LinkInv, LinkOk
<1>4. ASSUME inDTS[d], type[d] \in Scanned
      PROVE  Followed(<<Waiting(Top, c)>> \o Callers, processed \cup link, d, i)
  <2>1. /\ Waiting(Top, c) \in FrameType /\ Waiting(Top, c).doc = Top.doc
        /\ Waiting(Top, c).kind = Top.kind /\ Waiting(Top, c).next = Top.next /\ Waiting(Top, c).waiting
    BY <1>1, FrameSteps DEF Waiting
  <2>2. Reached(Waiting(Top, c), i) <=> i <= Top.next
    BY <1>1, <2>1 DEF Reached
  <2>3. Reached(Top, i) <=> i < Top.next
    BY <1>1 DEF Reached
  <2>4. ScanOf(Top, d) => (<<d, i>> \in link <=> i = Top.next)
    <3> SUFFICES ASSUME ScanOf(Top, d), i = Top.next PROVE Item.how \in LinkHows
      BY DEF ScanOf
    <3> QED
      BY <1>1, ItemAtTop DEF ScanOf, LinksOf
  <2>5. <<d, i>> \in link => ScanOf(Top, d)
    BY <1>2 DEF ScanOf
  <2>6. ScanOf(Top, d) => (<<d, i>> \in processed \cup link <=>
            (<<d, i>> \in processed \/ (Reached(Waiting(Top, c), i) /\ ~Reached(Top, i))))
    BY <1>1, <2>2, <2>3, <2>4
  <2>7. /\ Reached(Top, i) => Reached(Waiting(Top, c), i)
        /\ <<d, i>> \in processed => <<d, i>> \in processed \cup link
        /\ ~ScanOf(Top, d) => (<<d, i>> \in processed \cup link => <<d, i>> \in processed)
    BY <1>1, <2>2, <2>3, <2>5
  <2> QED
    BY <1>1, <1>4, <2>1, <2>6, <2>7, LinksShift
<1> QED
  BY <1>3, <1>4

\* No link is processed that was processed before.
LEMMA NotAgain ==
  ASSUME TypeOK, ScanInv, LinkInv, AtItem, Item.how \in LinkHows, ~LinkIgnored,
         Top.doc \notin XbrldiSchemas
  PROVE  <<Top.doc, Top.next>> \notin processed
<1>1. /\ stack # <<>> /\ Top.next <= Len(Items(Top)) /\ Top \in FrameType /\ Top.doc \in Docs
      /\ ~Top.waiting /\ FrameOk(Top) /\ Top.next \in Nat
  BY TopOk DEF AtItem, FrameType, ScanInv
<1>2. inDTS[Top.doc] /\ Top.kind # "hints" /\ type[Top.doc] \in Scanned
  BY <1>1, InsideCall DEF FrameOk
<1>3. Top.next \in LinksOf(Top.doc)
  BY <1>1, <1>2, ItemAtTop DEF LinksOf
<1>4. Followed(<<Top>> \o Callers, processed, Top.doc, Top.next)
  BY <1>1, <1>2, <1>3, StackSplit DEF LinkInv, LinkOk
<1>5. ScanOf(Top, Top.doc) /\ ~Reached(Top, Top.next)
  BY <1>1, <1>2 DEF ScanOf, Reached
<1> QED
  BY <1>1, <1>4, <1>5, FollowedTop

\* load() adds no link but the one that calls it.
LEMMA LoadLinks ==
  ASSUME TypeOK, ScanInv, RegistrySound, LinkInv, file' = file,
         NEW u \in Docs, NEW discovered \in BOOLEAN, NEW included \in BOOLEAN,
         NEW expected \in Namespaces \cup {None}, Loads(u, discovered, included, expected),
         NEW d \in Docs \ XbrldiSchemas, NEW i \in LinksOf(d)
  PROVE  LinkOk(d, i)'
<1>1. PICK link : link = (IF Item.how \in LinkHows THEN {<<Top.doc, Top.next>>} ELSE {})
  OBVIOUS
<1>2. /\ AtItem /\ stack # <<>> /\ (Item.how \in LinkHows => ~LinkIgnored)
      /\ Load(u, discovered, included, expected)
      /\ processed' = processed \cup link
  BY <1>1 DEF Loads, AtItem, Calling
<1>3. ASSUME NEW c \in Docs \cup {None}
      PROVE  /\ (inDTS[d] /\ type[d] \in Scanned) =>
                   Followed(<<Waiting(Top, c)>> \o Callers, processed', d, i)
             /\ ~inDTS[d] => <<d, i>> \notin processed'
  BY <1>1, <1>2, WaitingLinks
<1>4. ASSUME NEW c \in Docs \cup {None}, stack' = <<Waiting(Top, c)>> \o Callers,
             UNCHANGED <<type, inDTS>>
      PROVE  LinkOk(d, i)'
  BY <1>3, <1>4 DEF LinkOk
<1>5. ASSUME urlDocs[u] = None,
             NewDocument(u, FALSE, discovered, included, expected, <<Waiting(Top, u)>> \o Callers)
      PROVE  LinkOk(d, i)'
  <2>1. PICK s : s = <<Waiting(Top, u)>> \o Callers
    OBVIOUS
  <2>2. /\ s \in Seq(FrameType) /\ Waiting(Top, u) \in FrameType
        /\ Callers \in Seq(FrameType)
    BY <1>2, <2>1, StackSteps, FrameSteps, Calls
  <2>3. /\ type' = [type EXCEPT ![u] = TypeOf(u, FALSE, discovered)]
        /\ inDTS' = [inDTS EXCEPT ![u] = file[u].root # "notXml" /\ (FALSE \/ discovered)]
        /\ stack' = s \/ \E k \in {"new", "included"} : stack' = <<Frame(u, k)>> \o s
        /\ TypeOf(u, FALSE, discovered) # "unknown" =>
              \E k \in {"new", "included"} : stack' = <<Frame(u, k)>> \o s
    BY <1>5, <2>1 DEF NewDocument
  <2>4. urlDocs[u] # u
    BY <1>5, DocsAssumption
  <2>5. ASSUME NEW k \in {"new", "included"} PROVE Frame(u, k) \in FrameType
    BY FrameSteps
  <2>6. CASE d = u
    <3>1. ~inDTS[u] /\ <<u, i>> \notin processed'
      BY <1>3, <2>4, <2>6 DEF ScanInv, DocsOk, Made
    <3>2. ASSUME type'[u] \in Scanned PROVE Followed(stack', processed', u, i)
      <4>1. PICK k \in {"new", "included"} : stack' = <<Frame(u, k)>> \o s
        BY <2>3, <3>2 DEF TypeOK, Scanned
      <4>2. ScanOf(Frame(u, k), u) /\ ~Reached(Frame(u, k), i)
        BY DEF Frame, Scan, ScanOf, Reached, LinksOf
      <4>3. ASSUME NEW j \in 1..Len(s) PROVE ~ScanOf(s[j], u)
        <5>1. s[j] = Waiting(Top, u) \/ \E m \in 1..Len(Callers) : s[j] = Callers[m]
          BY <2>1, <2>2, PushCases
        <5>2. Made(Top.doc) /\ \A m \in 1..Len(Callers) : Made(Callers[m].doc)
          BY <1>2, TopOk DEF ScanInv, StackOk, FrameOk
        <5> QED
          BY <2>4, <5>1, <5>2 DEF ScanOf, Waiting, Made
      <4> QED
        BY <2>2, <2>5, <3>1, <4>1, <4>2, <4>3, FollowedScan
    <3> QED
      BY <2>6, <3>1, <3>2 DEF LinkOk
  <2>7. CASE d # u
    <3>1. inDTS'[d] = inDTS[d] /\ type'[d] = type[d]
      BY <2>3, <2>7 DEF TypeOK
    <3>2. ASSUME inDTS[d], type[d] \in Scanned PROVE Followed(stack', processed', d, i)
      <4>1. Followed(s, processed', d, i)
        BY <1>3, <2>1, <3>2
      <4>2. ASSUME NEW k \in {"new", "included"}, stack' = <<Frame(u, k)>> \o s
            PROVE  Followed(stack', processed', d, i)
        <5>1. ~ScanOf(Frame(u, k), d)
          BY <2>7 DEF Frame, Scan, ScanOf
        <5> QED
          BY <2>2, <2>5, <4>1, <4>2, <5>1, FollowedOther
      <4> QED
        BY <2>3, <4>1, <4>2
    <3> QED
      BY <1>3, <3>1, <3>2 DEF LinkOk
  <2> QED
    BY <2>6, <2>7
<1>6. urlDocs[u] \in Docs \cup {None} /\ (Copy(u, included) # None => Copy(u, included) \in Docs)
  BY CopySame DEF TypeOK
<1> QED
  BY <1>2, <1>4, <1>5, <1>6 DEF Load, docVars

\* What an import finds is taken without any link.
LEMMA TakesLinks ==
  ASSUME TypeOK, ScanInv, LinkInv, NEW doc \in Docs, Takes(doc),
         NEW d \in Docs \ XbrldiSchemas, NEW i \in LinksOf(d)
  PROVE  LinkOk(d, i)'
<1>1. /\ AtItem /\ Item.how \in Schemas /\ processed' = processed /\ type' = type /\ inDTS' = inDTS
      /\ stack' = <<Waiting(Top, doc)>> \o Callers
  BY DEF Takes, Taking, history
<1>2. Item.how \notin LinkHows
  BY <1>1 DEF Schemas, LinkHows, Links
<1>3. (inDTS[d] /\ type[d] \in Scanned) => Followed(stack', processed \cup {}, d, i)
  BY <1>1, <1>2, WaitingLinks
<1>4. processed \cup {} = processed
  OBVIOUS
<1> QED
  BY <1>1, <1>3, <1>4, LinksStay DEF LinkInv

\* The links of a document that is promoted are still to be processed.
LEMMA RescanLinks ==
  ASSUME NEW doc, ~inDTS[doc], inDTS' = [inDTS EXCEPT ![doc] = TRUE], TypeOK, doc \in Docs,
         NEW s \in Seq(FrameType), stack' = <<Frame(doc, "rescan")>> \o s,
         \A k \in 1..Len(s) : ~ScanOf(s[k], doc) \/ doc \in XbrldiSchemas,
         processed' = processed, type' = type, LinkInv,
         NEW d \in Docs \ XbrldiSchemas, NEW i \in LinksOf(d),
         (inDTS[d] /\ type[d] \in Scanned) => Followed(s, processed, d, i)
  PROVE  LinkOk(d, i)'
<1>1. Frame(doc, "rescan") \in FrameType
  BY FrameSteps
<1>2. CASE d = doc
  <2>1. <<d, i>> \notin processed
    BY <1>2 DEF LinkInv, LinkOk
  <2>2. ScanOf(Frame(doc, "rescan"), d) /\ ~Reached(Frame(doc, "rescan"), i)
    BY <1>2 DEF Frame, Scan, ScanOf, Reached, LinksOf
  <2>3. Followed(stack', processed, d, i)
    BY <1>1, <1>2, <2>1, <2>2, FollowedScan
  <2> QED
    BY <1>2, <2>1, <2>3 DEF LinkOk
<1>3. CASE d # doc
  <2>1. inDTS'[d] = inDTS[d]
    BY <1>3 DEF TypeOK
  <2>2. ~ScanOf(Frame(doc, "rescan"), d)
    BY <1>3 DEF Frame, Scan, ScanOf
  <2>3. (inDTS[d] /\ type[d] \in Scanned) => Followed(stack', processed, d, i)
    BY <1>1, <2>2, FollowedOther
  <2> QED
    BY <2>1, <2>3, LinksStay DEF LinkInv
<1> QED
  BY <1>2, <1>3

\* A scan that returns has come to all links.
LEMMA ReturnLinks ==
  ASSUME TypeOK, ScanInv, LinkInv, Return, NEW d \in Docs \ XbrldiSchemas, NEW i \in LinksOf(d)
  PROVE  LinkOk(d, i)'
<1>1. /\ stack # <<>> /\ Top.next > Len(Items(Top)) /\ stack' = Callers
      /\ Top \in FrameType /\ Top.next \in Nat
      /\ inDTS' = inDTS /\ type' = type /\ processed' = processed
  BY Calls DEF Return, docVars, history, FrameType
<1>2. ASSUME inDTS[d], type[d] \in Scanned PROVE Followed(Callers, processed, d, i)
  <2>1. Followed(<<Top>> \o Callers, processed, d, i)
    BY <1>1, <1>2, StackSplit DEF LinkInv, LinkOk
  <2>2. CASE ScanOf(Top, d)
    <3>1. <<d, i>> \in processed <=> Reached(Top, i)
      BY <1>1, <2>1, <2>2, FollowedTop
    <3>2. file[d].refs \in Seq(Refs) /\ i \in 1..Len(file[d].refs)
      BY DEF TypeOK, Files, LinksOf
    <3>3. Reached(Top, i)
      BY <1>1, <2>2, <3>2 DEF ScanOf, Items, Reached
    <3>4. \A k \in 1..Len(Callers) : ~ScanOf(Callers[k], d)
      BY <1>1, <2>2, FollowedTop
    <3> QED
      BY <3>1, <3>3, <3>4 DEF Followed
  <2>3. CASE ~ScanOf(Top, d)
    BY <1>1, <2>1, <2>3, FollowedTop
  <2> QED
    BY <2>2, <2>3
<1> QED
  BY <1>1, <1>2, LinksStay DEF LinkInv

\* A promotion, by a link.
LEMMA HrefPromotesLinks ==
  ASSUME TypeOK, ScanInv, LinkInv, Grows, HrefPromotes,
         NEW d \in Docs \ XbrldiSchemas, NEW i \in LinksOf(d)
  PROVE  LinkOk(d, i)'
<1>1. /\ Top.got \in Docs /\ type[Top.got] = "schema" /\ ~inDTS[Top.got]
      /\ \A k \in 1..Len(stack) : ~OutsideCall(stack[k])
  BY HrefPromotesScans
<1>2. /\ inDTS' = [inDTS EXCEPT ![Top.got] = TRUE] /\ type' = type /\ processed' = processed
      /\ stack' = <<Frame(Top.got, "rescan")>> \o stack /\ stack \in Seq(FrameType)
  BY <1>1 DEF HrefPromotes, Promote, history, TypeOK
<1>3. \A k \in 1..Len(stack) : ~ScanOf(stack[k], Top.got) \/ Top.got \in XbrldiSchemas
  BY <1>1 DEF ScanOf, OutsideCall
<1>4. (inDTS[d] /\ type[d] \in Scanned) => Followed(stack, processed, d, i)
  BY DEF LinkInv, LinkOk
<1> QED
  BY <1>1, <1>2, <1>3, <1>4, RescanLinks

\* A promotion, by an import.
LEMMA TakesAndPromotesLinks ==
  ASSUME TypeOK, ScanInv, LinkInv, NEW doc \in Docs, TakesAndPromotes(doc),
         NEW d \in Docs \ XbrldiSchemas, NEW i \in LinksOf(d)
  PROVE  LinkOk(d, i)'
<1>1. /\ AtItem /\ Item.how \in Schemas /\ processed' = processed /\ type' = type /\ ~inDTS[doc]
      /\ inDTS[Top.doc] /\ inDTS' = [inDTS EXCEPT ![doc] = TRUE] /\ stack # <<>>
      /\ stack' = <<Frame(doc, "rescan")>> \o (<<Waiting(Top, doc)>> \o Callers)
  BY DEF TakesAndPromotes, Taking, history, Promote, AtItem
<1>2. PICK s : s = <<Waiting(Top, doc)>> \o Callers
  OBVIOUS
<1>3. /\ s \in Seq(FrameType) /\ Waiting(Top, doc) \in FrameType /\ Callers \in Seq(FrameType)
      /\ stack' = <<Frame(doc, "rescan")>> \o s
  BY <1>1, <1>2, StackSteps, FrameSteps, Calls
<1>4. Item.how \notin LinkHows
  BY <1>1 DEF Schemas, LinkHows, Links
<1>5. processed \cup {} = processed
  OBVIOUS
<1>6. (inDTS[d] /\ type[d] \in Scanned) => Followed(s, processed \cup {}, d, i)
  BY <1>1, <1>2, <1>4, WaitingLinks
<1>7. ASSUME NEW k \in 1..Len(s) PROVE ~ScanOf(s[k], doc) \/ doc \in XbrldiSchemas
  <2>1. s[k] = Waiting(Top, doc) \/ \E m \in 1..Len(Callers) : s[k] = Callers[m]
    BY <1>2, <1>3, PushCases
  <2>2. \A m \in 1..Len(Callers) : ~OutsideCall(Callers[m])
    BY <1>1, InsideCall
  <2> QED
    BY <1>1, <2>1, <2>2 DEF ScanOf, Waiting, OutsideCall
<1> QED
  BY <1>1, <1>3, <1>5, <1>6, <1>7, RescanLinks

\* Every step keeps the account of the links right.
LEMMA LinkStep ==
  ASSUME TypeOK, TypeOK', RegistrySound, ScanInv, LinkInv, [Next]_vars
  PROVE  LinkInv'
<1>0. Grows /\ Kinds /\ file' = file
  BY NextKinds DEF Grows
<1>1. XbrldiSchemas' = XbrldiSchemas /\ \A d : LinksOf(d)' = LinksOf(d)
  BY <1>0, SameFiles DEF LinksOf
<1>2. ASSUME NEW p \in again' PROVE p[1] \in XbrldiSchemas
  <2>1. CASE LoadsOne
    <3>1. /\ AtItem
          /\ p \in again \/ (/\ Item.how \in LinkHows /\ ~LinkIgnored
                             /\ p = <<Top.doc, Top.next>> /\ p \in processed)
      BY <1>2, <2>1 DEF LoadsOne, Loads, Calling
    <3> QED
      BY <3>1, NotAgain DEF LinkInv
  <2>2. CASE ~LoadsOne
    <3>1. again' = again
      BY <1>0, <2>2 DEF Kinds, Rests, Skips, HrefPromotes, Return, LocateSchemas, Enters, Takes,
                        TakesAndPromotes, Taking, history
    <3> QED
      BY <1>2, <3>1 DEF LinkInv
  <2> QED
    BY <2>1, <2>2
<1>3. ASSUME NEW d \in Docs \ XbrldiSchemas, NEW i \in LinksOf(d) PROVE LinkOk(d, i)'
  <2>0. LinkOk(d, i)
    BY DEF LinkInv
  <2>1. CASE Rests
    BY <2>0, <2>1 DEF Rests, docVars, history, LinkOk
  <2>2. CASE Skips
    BY <1>3, <2>2, SkipsLinks
  <2>3. CASE LoadsOne
    BY <1>0, <1>3, <2>3, LoadLinks DEF LoadsOne
  <2>4. CASE HrefPromotes
    BY <1>0, <1>3, <2>4, HrefPromotesLinks
  <2>5. CASE Return
    BY <1>3, <2>5, ReturnLinks
  <2>6. CASE LocateSchemas
    <3>1. /\ stack = <<>> /\ stack' = <<Frame(order[located + 1], "hints")>>
          /\ UNCHANGED <<docVars, processed>>
      BY <2>6 DEF LocateSchemas, history
    <3>2. ASSUME inDTS[d], type[d] \in Scanned PROVE Followed(stack', processed, d, i)
      <4>1. <<d, i>> \in processed
        BY <2>0, <3>1, <3>2 DEF LinkOk, Followed
      <4>2. /\ Len(stack') = 1
            /\ \A k \in 1..1 : stack'[k] = Frame(order[located + 1], "hints")
        BY <3>1
      <4>3. \A k \in 1..Len(stack') : ~ScanOf(stack'[k], d)
        BY <4>2 DEF ScanOf, Frame, Scan
      <4> QED
        BY <4>1, <4>3 DEF Followed
    <3> QED
      BY <2>0, <3>1, <3>2, LinksStay DEF docVars
  <2>7. CASE Enters
    <3>1. /\ stack = <<>> /\ urlDocs[Entry] = None /\ processed' = processed /\ Entry \in Docs
          /\ \A e \in Docs : ~Made(e) /\ ~inDTS[e] /\ type[e] = None
          /\ NewDocument(Entry, TRUE, FALSE, FALSE, None, <<>>)
      BY <2>7, DocsAssumption DEF Enters, ScanInv, DocsOk, history, Made
    <3>2. <<d, i>> \notin processed
      BY <2>0, <3>1 DEF LinkOk
    <3>3. /\ type' = [type EXCEPT ![Entry] = TypeOf(Entry, TRUE, FALSE)]
          /\ TypeOf(Entry, TRUE, FALSE) # "unknown" => stack' = <<Frame(Entry, "new")>> \o <<>>
      BY <3>1 DEF NewDocument
    <3>4. CASE d = Entry
      <4>1. Frame(Entry, "new") \in FrameType /\ <<>> \in Seq(FrameType)
        BY <3>1, FrameSteps
      <4>2. ScanOf(Frame(Entry, "new"), d) /\ ~Reached(Frame(Entry, "new"), i)
        BY <3>4 DEF Frame, Scan, ScanOf, Reached, LinksOf
      <4>3. Followed(<<Frame(Entry, "new")>> \o <<>>, processed, d, i)
        <5>1. <<d, i>> \in processed <=> Reached(Frame(Entry, "new"), i)
          BY <3>2, <4>2
        <5>2. \A k \in 1..Len(<<>>) : ~ScanOf(<<>>[k], d)
          OBVIOUS
        <5> QED
          BY <4>1, <4>2, <5>1, <5>2, FollowedScan
      <4>4. type'[d] = TypeOf(Entry, TRUE, FALSE)
        BY <3>3, <3>4 DEF TypeOK
      <4>5. ASSUME type'[d] \in Scanned PROVE Followed(stack', processed', d, i)
        <5>1. stack' = <<Frame(Entry, "new")>> \o <<>>
          BY <3>3, <4>4, <4>5 DEF Scanned
        <5> QED
          BY <3>1, <4>3, <5>1
      <4> QED
        BY <3>1, <3>2, <4>5 DEF LinkOk
    <3>5. CASE d # Entry
      <4>1. type'[d] = None
        BY <3>1, <3>3, <3>5 DEF TypeOK
      <4> QED
        BY <3>1, <3>2, <4>1, DocsAssumption DEF LinkOk, Scanned, Types
    <3> QED
      BY <3>4, <3>5
  <2>8. CASE \E doc \in Docs : Takes(doc) \/ TakesAndPromotes(doc)
    BY <1>3, <2>8, TakesLinks, TakesAndPromotesLinks
  <2> QED
    BY <1>0, <2>1, <2>2, <2>3, <2>4, <2>5, <2>6, <2>7, <2>8 DEF Kinds
<1> QED
  BY <1>1, <1>2, <1>3 DEF LinkInv

\* No call is in progress when the load has ended.
LEMMA DoneIdle == Spec => [](phase = "done" => stack = <<>>)
<1>1. Init => (phase = "done" => stack = <<>>)
  BY DEF Init
<1>2. (phase = "done" => stack = <<>>) /\ [Next]_vars => (phase = "done" => stack = <<>>)'
  BY DEF Next, vars, LoadEntry, Import, IgnoreLink, Href, Element, Xbrldi, Hint, ImportReturns,
         HrefPromotes, HrefReturns, HintReturns, Return, EntryLoaded, LocateSchemas, Finish,
         AtItem, Returned
<1> QED
  BY <1>1, <1>2, PTL DEF Spec

LEMMA LinksRight == Spec => []LinkInv
<1>1. Init => LinkInv
  BY DEF Init, LinkInv, LinkOk, Scanned
<1> QED
  BY <1>1, LinkStep, TypeCorrect, RegistryCorrect, ScansRight, PTL DEF Spec

\* For any taxonomy: a document that is read outside of the DTS is scanned again when an
\* import or a link brings it into the DTS, yet each of its links is processed exactly
\* once, and none if it stays outside.
THEOREM EachLinkOnce == Spec => []LinksOnce
<1>1. LinkInv /\ (phase = "done" => stack = <<>>) => LinksOnce
  <2> SUFFICES ASSUME LinkInv, phase = "done", stack = <<>>, NEW d \in Docs \ XbrldiSchemas,
                      type[d] \in Scanned, NEW i \in LinksOf(d)
               PROVE  inDTS[d] <=> <<d, i>> \in processed
    BY DEF LinksOnce, LinkInv, LinksOf, LinkHows, Scanned
  <2>1. LinkOk(d, i)
    BY DEF LinkInv
  <2> QED
    BY <2>1 DEF LinkOk, Followed
<1> QED
  BY <1>1, LinksRight, DoneIdle, PTL

-----------------------------------------------------------------------------
(* The schemas that are validated, and what they include.                     *)

\* load() was called for u.
Settled(u) == urlDocs[u] # None \/ u \in unloadable
Includes(d) == {i \in 1..Len(file[d].refs) : file[d].refs[i].how = "include"}

\* The first scan of s has not come to the reference i.
Pending(stk, s, i) == \E k \in 1..Len(stk) : First(stk[k]) /\ stk[k].doc = s /\ ~Reached(stk[k], i)

Registers(s) == Made(s) /\ file[s].root = "schema" /\ file[s].ns # None
IncludeOk(s, i) == Settled(file[s].refs[i].to) \/ Pending(stack, s, i)

\* What the schemas of Q include was loaded, and is in Q if it is of their namespace.
Queued(Q, s, i) ==
    LET u == file[s].refs[i].to
    IN  /\ Settled(u)
        /\ (Made(u) /\ file[u].root = "schema" /\ file[u].ns = file[s].ns) => u \in Q
QueueOk(Q) ==
    \A s \in Q : Made(s) /\ (file[s].ns # None => \A i \in Includes(s) : Queued(Q, s, i))

IncludeInv ==
    /\ \A s \in Docs : Registers(s) => \A i \in Includes(s) : IncludeOk(s, i)
    /\ \A Q \in {toValidate, validated} : QueueOk(Q)

LEMMA PendingPush ==
  ASSUME NEW f \in FrameType, NEW stk \in Seq(FrameType), NEW s, NEW i
  PROVE  /\ Pending(stk, s, i) => Pending(<<f>> \o stk, s, i)
         /\ (First(f) /\ f.doc = s /\ ~Reached(f, i)) => Pending(<<f>> \o stk, s, i)
         /\ Pending(<<f>> \o stk, s, i) =>
               (First(f) /\ f.doc = s /\ ~Reached(f, i)) \/ Pending(stk, s, i)
<1>1. PICK z : z = <<f>> \o stk
  OBVIOUS
<1>2. /\ Len(z) = Len(stk) + 1 /\ Len(stk) \in Nat /\ z[1] = f
      /\ \A k \in 1..Len(stk) : z[k + 1] = stk[k] /\ k + 1 \in 1..Len(z)
      /\ 1 \in 1..Len(z)
  BY <1>1, Push
<1>3. \A k \in 1..Len(z) : k = 1 \/ (k - 1 \in 1..Len(stk) /\ z[k] = stk[k - 1])
  BY <1>1, PushCases
<1>4. Pending(stk, s, i) => Pending(z, s, i)
  BY <1>2 DEF Pending
<1>5. (First(f) /\ f.doc = s /\ ~Reached(f, i)) => Pending(z, s, i)
  BY <1>2 DEF Pending
<1>6. Pending(z, s, i) => (First(f) /\ f.doc = s /\ ~Reached(f, i)) \/ Pending(stk, s, i)
  BY <1>2, <1>3 DEF Pending
<1> QED
  BY <1>1, <1>4, <1>5, <1>6

\* A URL for which load() was called keeps the document it got, or none.
LEMMA SettledStep ==
  ASSUME TypeOK, [Next]_vars, phase # "start", NEW u \in Docs, Settled(u)
  PROVE  Settled(u)' /\ (Made(u)' <=> Made(u))
<1>1. Grows /\ Kinds
  BY NextKinds
<1>2. unloadable \subseteq unloadable'
  BY <1>1 DEF Grows
<1>3. CASE urlDocs' = urlDocs
  BY <1>2, <1>3 DEF Settled, Made
<1>4. ASSUME NEW v \in Docs, NEW discovered, NEW included, NEW expected,
             Load(v, discovered, included, expected)
      PROVE  urlDocs'[u] = urlDocs[u]
  <2>1. CASE urlDocs' = urlDocs
    BY <2>1
  <2>2. CASE /\ urlDocs[v] = None /\ v \notin unloadable
             /\ \E d : urlDocs' = [urlDocs EXCEPT ![v] = d]
    <3>1. u # v
      BY <2>2 DEF Settled
    <3> QED
      BY <2>2, <3>1 DEF TypeOK
  <2> QED
    BY <1>4, <2>1, <2>2 DEF Load, NewDocument, docVars
<1>5. CASE LoadsOne
  BY <1>2, <1>4, <1>5 DEF LoadsOne, Loads, Settled, Made
<1> QED
  BY <1>1, <1>3, <1>5 DEF Kinds, Rests, Skips, HrefPromotes, Return, LocateSchemas, Enters, Takes,
                       TakesAndPromotes, Taking, docVars

\* What the validation takes only changes when a scan or the entry point's load ends.
LEMMA QueueSteps ==
  ASSUME [Next]_vars
  PROVE  Return \/ EntryLoaded \/ UNCHANGED <<toValidate, validated>>
  BY DEF Next, vars, LoadEntry, Import, IgnoreLink, Href, Element, Xbrldi, Hint, ImportReturns,
         HrefPromotes, HrefReturns, HintReturns, LocateSchemas, Finish

\* A queue stays complete.
LEMMA QueueKept ==
  ASSUME TypeOK, ScanInv, [Next]_vars, NEW Q \in SUBSET Docs, QueueOk(Q)
  PROVE  QueueOk(Q)'
<1>1. file' = file
  BY NextKinds DEF Grows
<1>2. ASSUME NEW s \in Q PROVE Made(s)'
  <2>1. Made(s) /\ s # None /\ s \in Docs
    BY DocsAssumption DEF QueueOk
  <2>2. phase # "start" /\ Settled(s)
    BY <2>1 DEF ScanInv, DocsOk, Made, Settled
  <2> QED
    BY <2>1, <2>2, SettledStep
<1>3. ASSUME NEW s \in Q, file[s].ns # None, NEW i \in Includes(s) PROVE Queued(Q, s, i)'
  <2>1. Queued(Q, s, i) /\ Made(s) /\ s \in Docs /\ s # None
    BY <1>3, DocsAssumption DEF QueueOk
  <2>2. phase # "start"
    BY <2>1 DEF ScanInv, DocsOk, Made
  <2>3. file[s].refs[i].to \in Docs
    <3>1. file[s].refs \in Seq(Refs) /\ i \in 1..Len(file[s].refs)
      BY <2>1 DEF TypeOK, Files, Includes
    <3>2. file[s].refs[i] \in Refs
      BY <3>1
    <3> QED
      BY <3>2 DEF Refs
  <2>4. PICK u : u = file[s].refs[i].to
    OBVIOUS
  <2>5. Settled(u)' /\ (Made(u)' <=> Made(u))
    BY <2>1, <2>2, <2>3, <2>4, SettledStep DEF Queued
  <2> QED
    BY <1>1, <2>1, <2>4, <2>5 DEF Queued, Settled, Made
<1> QED
  BY <1>1, <1>2, <1>3 DEF QueueOk, Includes

\* The first schema of a namespace returns when the first scans of all have ended.
LEMMA QueueGrows ==
  ASSUME TypeOK, ScanInv, RegistrySound, IncludeInv, Return
  PROVE  QueueOk(toValidate \cup Queue(Top))
<1>1. /\ stack # <<>> /\ Top.next > Len(Items(Top)) /\ Top \in FrameType /\ FrameOk(Top)
      /\ Top.doc \in Docs /\ Made(Top.doc) /\ Top.next \in Nat
  BY TopOk DEF Return, ScanInv, FrameType, FrameOk
<1> DEFINE n == file[Top.doc].ns
           Q == toValidate \cup Queue(Top)
<1>2. QueueOk(toValidate)
  BY DEF IncludeInv
<1>3. ASSUME NEW s \in Queue(Top)
      PROVE  Made(s) /\ (file[s].ns # None => \A i \in Includes(s) : Queued(Q, s, i))
  <2>1. Top.kind = "new" /\ type[Top.doc] = "schema" /\ file[Top.doc].root = "schema"
    BY <1>1, <1>3 DEF Queue, ScanInv, DocsOk, DocOk
  <2>2. CASE n = None
    BY <1>1, <1>3, <2>2 DEF Queue
  <2>3. CASE n # None
    <3>1. n \in Namespaces /\ namespaceDocs[n] \in Seq(Docs)
      BY <1>1, <2>3 DEF TypeOK, Files
    <3>2. /\ namespaceDocs[n][1] = Top.doc
          /\ Queue(Top) = {namespaceDocs[n][j] : j \in 1..Len(namespaceDocs[n])}
      BY <1>3, <2>1, <2>3 DEF Queue
    <3>3. PICK j \in 1..Len(namespaceDocs[n]) : s = namespaceDocs[n][j]
      BY <1>3, <3>2
    <3>4. Made(s) /\ file[s].root = "schema" /\ file[s].ns = n /\ s \in Docs
      BY <3>1, <3>3 DEF ScanInv, DocsOk, RegistrySound
    <3>5. ASSUME NEW i \in Includes(s) PROVE Queued(Q, s, i)
      <4>1. i \in 1..Len(file[s].refs) /\ file[s].refs \in Seq(Refs) /\ i \in Nat
        BY <3>4 DEF Includes, TypeOK, Files
      <4>2. ~Pending(stack, s, i)
        <5> SUFFICES ASSUME Pending(stack, s, i) PROVE FALSE
          OBVIOUS
        <5>1. (First(Top) /\ Top.doc = s /\ ~Reached(Top, i)) \/ Pending(Callers, s, i)
          BY <1>1, StackSplit, TopOk, PendingPush DEF ScanInv
        <5>2. CASE First(Top) /\ Top.doc = s /\ ~Reached(Top, i)
          BY <1>1, <2>1, <4>1, <5>2 DEF Items, Reached
        <5>3. CASE Pending(Callers, s, i)
          <6>1. PICK k \in 1..Len(Callers) : First(Callers[k]) /\ Callers[k].doc = s
            BY <5>3 DEF Pending
          <6>2. Above(Top, Callers[k]) /\ First(Top)
            BY <1>1, <2>1, TopOk DEF ScanInv, First
          <6>3. SameNamespace(Top.doc, Callers[k].doc)
            BY <2>1, <2>3, <3>4, <6>1 DEF SameNamespace
          <6> QED
            BY <3>2, <6>1, <6>2, <6>3 DEF Above
        <5> QED
          BY <5>1, <5>2, <5>3
      <4>3. PICK u : u = file[s].refs[i].to
        OBVIOUS
      <4>4. Settled(u)
        BY <2>3, <3>4, <3>5, <4>2, <4>3 DEF IncludeInv, IncludeOk, Registers
      <4>5. file[s].refs[i] \in Refs
        BY <4>1
      <4>6. u \in Docs
        BY <4>3, <4>5 DEF Refs
      <4>7. (Made(u) /\ file[u].root = "schema" /\ file[u].ns = n) => u \in Queue(Top)
        BY <2>3, <3>2, <4>6 DEF ScanInv, DocsOk, DocOk
      <4> QED
        BY <3>4, <4>3, <4>4, <4>7 DEF Queued
    <3> QED
      BY <3>4, <3>5
  <2> QED
    BY <2>2, <2>3
<1>4. ASSUME NEW s \in toValidate
      PROVE  Made(s) /\ (file[s].ns # None => \A i \in Includes(s) : Queued(Q, s, i))
  BY <1>2 DEF QueueOk, Queued
<1> QED
  BY <1>3, <1>4 DEF QueueOk

\* The innermost scan goes on: what it has passed was loaded.
LEMMA PendingTop ==
  ASSUME TypeOK, stack # <<>>, NEW f \in FrameType, f.doc = Top.doc, f.kind = Top.kind,
         NEW s, NEW i, Pending(stack, s, i), ~Reached(Top, i) => ~Reached(f, i) \/ s # Top.doc \/ ~First(Top)
  PROVE  Pending(<<f>> \o Callers, s, i)
<1>1. Top \in FrameType /\ Callers \in Seq(FrameType)
  BY Calls
<1>2. (First(Top) /\ Top.doc = s /\ ~Reached(Top, i)) \/ Pending(Callers, s, i)
  BY <1>1, StackSplit, PendingPush
<1>3. First(f) <=> First(Top)
  BY DEF First
<1> QED
  BY <1>1, <1>2, <1>3, PendingPush

\* What a schema includes is still to be met, or was loaded.
LEMMA IncludeStep ==
  ASSUME TypeOK, TypeOK', RegistrySound, ScanInv, IncludeInv, [Next]_vars,
         NEW s \in Docs, Made(s), Registers(s), NEW i \in Includes(s)
  PROVE  IncludeOk(s, i)'
<1>0. Grows /\ Kinds /\ file' = file
  BY NextKinds DEF Grows
<1>1. PICK u : u = file[s].refs[i].to
  OBVIOUS
<1>2. /\ i \in 1..Len(file[s].refs) /\ i \in Nat /\ file[s].refs[i].how = "include"
      /\ file[s].refs[i] \in Refs /\ s # None
  <2>1. file[s] \in Files
    BY DEF TypeOK
  <2>2. file[s].refs \in Seq(Refs)
    BY <2>1 DEF Files
  <2>3. i \in 1..Len(file[s].refs) /\ file[s].refs[i].how = "include"
    BY DEF Includes
  <2>4. file[s].refs[i] \in Refs /\ i \in Nat
    BY <2>2, <2>3
  <2> QED
    BY <2>3, <2>4, DocsAssumption
<1>3. u \in Docs /\ phase # "start"
  BY <1>1, <1>2 DEF Refs, ScanInv, DocsOk, Registers, Made
<1>4. CASE Settled(u)
  <2>1. Settled(u)'
    BY <1>3, <1>4, SettledStep
  <2> QED
    BY <1>0, <1>1, <2>1 DEF IncludeOk, Settled
<1>5. CASE ~Settled(u) /\ Pending(stack, s, i)
  <2> SUFFICES Settled(u)' \/ Pending(stack', s, i)
    BY <1>0, <1>1 DEF IncludeOk, Settled, Pending
  <2>1. stack # <<>> /\ stack \in Seq(FrameType) /\ Top \in FrameType /\ Callers \in Seq(FrameType)
        /\ Top.next \in Nat
    <3>1. stack # <<>>
      BY <1>5 DEF Pending
    <3> QED
      BY <3>1, Calls DEF TypeOK, FrameType
  <2>2. (First(Top) /\ Top.doc = s /\ i = Top.next /\ Top.next <= Len(Items(Top))) =>
            Item.how = "include" /\ Item.to = u
    BY <1>1, <1>2, <2>1, ItemAtTop DEF First
  <2>3. CASE Rests
    BY <1>5, <2>3 DEF Rests
  <2>4. CASE Skips
    <3>1. /\ Past(Top) \in FrameType /\ Past(Top).doc = Top.doc /\ Past(Top).kind = Top.kind
          /\ Past(Top).next = Top.next + 1 /\ ~Past(Top).waiting
      BY <2>1, FrameSteps DEF Past, Scan
    <3>2. ASSUME ~Reached(Top, i), First(Top), Top.doc = s PROVE ~Reached(Past(Top), i)
      <4>1. i # Top.next
        <5> SUFFICES ASSUME i = Top.next PROVE FALSE
          OBVIOUS
        <5>1. targetNs[s] # None
          BY DEF Registers, ScanInv, DocsOk, DocOk
        <5> QED
          BY <2>2, <2>4, <3>2, <5>1 DEF Skips, Reached, ImportNs, Schemas
      <4> QED
        BY <1>2, <2>1, <3>1, <3>2, <4>1 DEF Reached
    <3>3. Pending(<<Past(Top)>> \o Callers, s, i)
      BY <1>5, <2>1, <3>1, <3>2, PendingTop
    <3> QED
      BY <2>4, <3>3 DEF Skips
  <2>5. ASSUME NEW c \in Docs \cup {None}, AtItem, i # Top.next \/ s # Top.doc \/ ~First(Top)
        PROVE  Pending(<<Waiting(Top, c)>> \o Callers, s, i)
    <3>1. /\ Waiting(Top, c) \in FrameType /\ Waiting(Top, c).doc = Top.doc
          /\ Waiting(Top, c).kind = Top.kind /\ Waiting(Top, c).next = Top.next
      BY <2>1, FrameSteps DEF Waiting
    <3>2. ~Reached(Top, i) => ~Reached(Waiting(Top, c), i) \/ s # Top.doc \/ ~First(Top)
      BY <1>2, <2>1, <2>5, <3>1 DEF Reached
    <3> QED
      BY <1>5, <2>1, <3>1, <3>2, PendingTop
  <2>6. ASSUME NEW v \in Docs, NEW discovered \in BOOLEAN, NEW included \in BOOLEAN,
               NEW expected \in Namespaces \cup {None}, Loads(v, discovered, included, expected)
        PROVE  Settled(u)' \/ Pending(stack', s, i)
    <3>1. AtItem /\ Load(v, discovered, included, expected) /\ Top.next <= Len(Items(Top))
      BY <2>6 DEF Loads, AtItem
    <3>2. CASE i = Top.next /\ s = Top.doc /\ First(Top)
      <4>1. v = u
        BY <2>2, <2>6, <3>1, <3>2 DEF Loads, Calling, Schemas
      <4>2. Copy(u, included) # None => Copy(u, included) \in Docs
        BY <1>3, CopySame
      <4>3. CASE \E c \in Docs : urlDocs' = [urlDocs EXCEPT ![u] = c]
        BY <1>3, <4>3, DocsAssumption DEF Settled, TypeOK
      <4>4. CASE unloadable' = unloadable \cup {u}
        BY <4>4 DEF Settled
      <4> QED
        BY <1>3, <1>5, <3>1, <4>1, <4>2, <4>3, <4>4 DEF Load, NewDocument, Settled
    <3>3. CASE i # Top.next \/ s # Top.doc \/ ~First(Top)
      <4>1. ASSUME NEW c \in Docs \cup {None} PROVE Pending(<<Waiting(Top, c)>> \o Callers, s, i)
        BY <2>5, <3>1, <3>3, <4>1
      <4>2. ASSUME NEW k \in {"new", "included"}
            PROVE  Pending(<<Frame(v, k)>> \o (<<Waiting(Top, v)>> \o Callers), s, i)
        <5>1. Frame(v, k) \in FrameType /\ <<Waiting(Top, v)>> \o Callers \in Seq(FrameType)
          BY <2>1, FrameSteps, StackSteps
        <5> QED
          BY <4>1, <5>1, PendingPush
      <4>3. urlDocs[v] \in Docs \cup {None} /\ (Copy(v, included) # None => Copy(v, included) \in Docs)
        BY CopySame DEF TypeOK
      <4>4. stack' \in {<<Waiting(Top, c)>> \o Callers : c \in Docs \cup {None}} \cup
                {<<Frame(v, k)>> \o (<<Waiting(Top, v)>> \o Callers) : k \in {"new", "included"}}
        BY <3>1, <4>3 DEF Load, NewDocument
      <4> QED
        BY <4>1, <4>2, <4>4
    <3> QED
      BY <3>2, <3>3
  <2>7. CASE LoadsOne
    BY <2>6, <2>7 DEF LoadsOne
  <2>8. CASE HrefPromotes
    <3>1. PICK d : d = Top.got
      OBVIOUS
    <3>2. stack' = (IF type[d] = "schema" THEN <<Frame(d, "rescan")>> ELSE <<>>) \o stack
          /\ type[d] = "schema" /\ d \in Docs
      BY <1>0, <2>8, <3>1, HrefPromotesScans DEF HrefPromotes
    <3>3. Frame(d, "rescan") \in FrameType
      BY <3>2, FrameSteps
    <3> QED
      BY <1>5, <2>1, <3>2, <3>3, PendingPush
  <2>9. CASE Return
    <3>1. ~(First(Top) /\ Top.doc = s /\ ~Reached(Top, i))
      BY <1>2, <2>1, <2>9 DEF Return, First, Items, Reached
    <3>2. Pending(Callers, s, i)
      BY <1>5, <2>1, <3>1, StackSplit, PendingPush
    <3> QED
      BY <2>9, <3>2 DEF Return
  <2>10. CASE LocateSchemas
    BY <2>1, <2>10 DEF LocateSchemas
  <2>11. CASE Enters
    BY <1>3, <2>11 DEF Enters
  <2>12. ASSUME NEW doc \in Docs, Takes(doc) \/ TakesAndPromotes(doc)
         PROVE  Settled(u)' \/ Pending(stack', s, i)
    <3>1. /\ AtItem /\ Top.next <= Len(Items(Top)) /\ doc = Match(Item, ImportNs(Top.doc, Item))
          /\ ImportNs(Top.doc, Item) \in Namespaces /\ Item.to \in Docs /\ doc # None
      BY <2>1, <2>12, ItemAtTop, DocsAssumption DEF Takes, TakesAndPromotes, Taking, AtItem
    <3>2. CASE i = Top.next /\ s = Top.doc /\ First(Top)
      <4>1. doc = u
        BY <2>2, <3>1, <3>2 DEF Match
      <4>2. Made(doc)
        BY <3>1, RegisteredSchema
      <4> QED
        BY <1>5, <3>1, <4>1, <4>2 DEF Made, Settled
    <3>3. CASE i # Top.next \/ s # Top.doc \/ ~First(Top)
      <4>1. Pending(<<Waiting(Top, doc)>> \o Callers, s, i)
        BY <2>5, <3>1, <3>3
      <4>2. Frame(doc, "rescan") \in FrameType /\ <<Waiting(Top, doc)>> \o Callers \in Seq(FrameType)
        BY <2>1, FrameSteps, StackSteps
      <4>3. Pending(<<Frame(doc, "rescan")>> \o (<<Waiting(Top, doc)>> \o Callers), s, i)
        BY <4>1, <4>2, PendingPush
      <4> QED
        BY <2>12, <4>1, <4>3 DEF Takes, TakesAndPromotes
    <3> QED
      BY <3>2, <3>3
  <2> QED
    BY <1>0, <2>3, <2>4, <2>7, <2>8, <2>9, <2>10, <2>11, <2>12 DEF Kinds
<1> QED
  BY <1>1, <1>4, <1>5 DEF IncludeInv, IncludeOk

\* A schema that is just made has its includes before it.
LEMMA IncludeNew ==
  ASSUME TypeOK, TypeOK', RegistrySound, ScanInv, file' = file, NEW s \in Docs, ~Made(s),
         Registers(s)',
         [Next]_vars, NEW i \in Includes(s)
  PROVE  IncludeOk(s, i)'
<1>0. Kinds
  BY NextKinds
<1>1. /\ i \in 1..Len(file[s].refs) /\ i \in Nat /\ s # None
      /\ file[s].root = "schema" /\ file[s].ns # None /\ urlDocs'[s] = s
  BY DocsAssumption DEF TypeOK, Files, Includes, Registers, Made
<1>2. ASSUME NEW k \in {"new", "included"}, NEW stk \in Seq(FrameType),
             stack' = <<Frame(s, k)>> \o stk
      PROVE  Pending(stack', s, i)
  <2>1. Frame(s, k) \in FrameType
    BY FrameSteps
  <2>2. First(Frame(s, k)) /\ Frame(s, k).doc = s /\ ~Reached(Frame(s, k), i)
    BY <1>1 DEF Frame, Scan, First, Reached
  <2> QED
    BY <1>2, <2>1, <2>2, PendingPush
<1>3. ASSUME NEW v \in Docs, NEW entry, NEW discovered, NEW included, NEW expected,
             NEW callers \in Seq(FrameType),
             NewDocument(v, entry, discovered, included, expected, callers)
      PROVE  Pending(stack', s, i)
  <2>1. v = s
    BY <1>1, <1>3 DEF NewDocument, TypeOK, Made
  <2>2. TypeOf(s, entry, discovered) = "schema"
    BY <1>1 DEF TypeOf
  <2>3. \E k \in {"new", "included"} : stack' = <<Frame(s, k)>> \o callers
    BY <1>3, <2>1, <2>2 DEF NewDocument
  <2> QED
    BY <1>2, <1>3, <2>3
<1>4. CASE LoadsOne
  <2>1. PICK v \in Docs, discovered \in BOOLEAN, included \in BOOLEAN,
             expected \in Namespaces \cup {None} : Loads(v, discovered, included, expected)
    BY <1>4 DEF LoadsOne
  <2>2. stack # <<>> /\ Load(v, discovered, included, expected)
    BY <2>1 DEF Loads, AtItem
  <2>3. CASE NewDocument(v, FALSE, discovered, included, expected, <<Waiting(Top, v)>> \o Callers)
    <3>1. <<Waiting(Top, v)>> \o Callers \in Seq(FrameType)
      BY <2>2, StackSteps
    <3> QED
      BY <1>3, <2>3, <3>1 DEF IncludeOk
  <2>4. CASE urlDocs' = urlDocs
    BY <1>1, <2>4 DEF Made
  <2>5. CASE Copy(v, included) # None /\ urlDocs' = [urlDocs EXCEPT ![v] = Copy(v, included)]
    <3>1. Made(Copy(v, included))
      BY <2>5, CopyMade
    <3> QED
      BY <1>1, <2>5, <3>1 DEF Made, TypeOK
  <2> QED
    BY <2>2, <2>3, <2>4, <2>5 DEF Load, docVars
<1>5. CASE Enters
  <2>1. <<>> \in Seq(FrameType) /\ Entry \in Docs
    BY DocsAssumption
  <2> QED
    BY <1>3, <1>5, <2>1 DEF Enters, IncludeOk
<1>6. CASE urlDocs' = urlDocs
  BY <1>1, <1>6 DEF Made
<1>7. LoadsOne \/ Enters \/ urlDocs' = urlDocs
  BY <1>0 DEF Kinds, Rests, Skips, HrefPromotes, Return, LocateSchemas, Takes,
              TakesAndPromotes, Taking, docVars
<1> QED
  BY <1>4, <1>5, <1>6, <1>7

LEMMA IncludesRight == Spec => []IncludeInv
<1>1. Init => IncludeInv
  BY DocsAssumption DEF Init, IncludeInv, QueueOk, Registers, Made
<1>2. TypeOK /\ TypeOK' /\ RegistrySound /\ ScanInv /\ IncludeInv /\ [Next]_vars => IncludeInv'
  <2> SUFFICES ASSUME TypeOK, TypeOK', RegistrySound, ScanInv, IncludeInv, [Next]_vars
               PROVE  IncludeInv'
    OBVIOUS
  <2>1. file' = file
    BY NextKinds DEF Grows
  <2>2. ASSUME NEW s \in Docs, Registers(s)', NEW i \in Includes(s)' PROVE IncludeOk(s, i)'
    <3>1. i \in Includes(s)
      BY <2>1, <2>2 DEF Includes
    <3>2. CASE Made(s)
      BY <2>1, <2>2, <3>1, <3>2, IncludeStep DEF Registers
    <3>3. CASE ~Made(s)
      BY <2>1, <2>2, <3>1, <3>3, IncludeNew
    <3> QED
      BY <3>2, <3>3
  <2>3. QueueOk(toValidate) /\ QueueOk(validated)
    BY DEF IncludeInv
  <2>4. ASSUME NEW Q \in {toValidate', validated'} PROVE QueueOk(Q)'
    <3>1. QueueOk({})
      BY DEF QueueOk
    <3>2. QueueOk(Q) /\ Q \in SUBSET Docs
      <4>1. CASE Return
        <5>1. QueueOk(toValidate \cup Queue(Top))
          BY <4>1, QueueGrows
        <5> QED
          BY <2>3, <2>4, <4>1, <5>1 DEF Return, TypeOK
      <4>2. CASE EntryLoaded
        BY <2>3, <2>4, <3>1, <4>2 DEF EntryLoaded, TypeOK
      <4>3. CASE UNCHANGED <<toValidate, validated>>
        BY <2>3, <2>4, <4>3 DEF TypeOK
      <4> QED
        BY <4>1, <4>2, <4>3, QueueSteps
    <3> QED
      BY <3>2, QueueKept
  <2> QED
    BY <2>2, <2>4 DEF IncludeInv
<1> QED
  BY <1>1, <1>2, TypeCorrect, RegistryCorrect, ScansRight, PTL DEF Spec

\* For any taxonomy: the schemas of a namespace are queued for validation together, when
\* the first of them returns, and by then all that they include was loaded, so that what
\* is included is validated with what includes it.
THEOREM ValidatedTogether == Spec => []IncludedValidated
<1>1. IncludeInv => IncludedValidated
  <2> SUFFICES ASSUME IncludeInv, NEW s \in validated, NEW ref \in Refers(s), ref.how = "include",
                      file[s].ns # None, urlDocs[ref.to] = ref.to, file[ref.to].root = "schema",
                      file[ref.to].ns = file[s].ns
               PROVE  ref.to \in validated
    BY DEF IncludedValidated
  <2>1. PICK i \in 1..Len(file[s].refs) : file[s].refs[i] = ref
    BY DEF Refers
  <2>2. Queued(validated, s, i)
    BY <2>1 DEF IncludeInv, QueueOk, Includes
  <2> QED
    BY <2>1, <2>2 DEF Queued, Made
<1> QED
  BY <1>1, IncludesRight, PTL

-----------------------------------------------------------------------------
(* What was made outside of the DTS, and what never changes.                  *)

OutsideInv ==
    /\ \A t \in Docs : Made(t) /\ ~inDTS[t] => t \in outside \cup XbrldiSchemas
    /\ \A u \in unloadable : file[u].root \in {"absent", "notXml"}

\* load() makes the document u, or takes another for it.
Makes(u) ==
    /\ urlDocs[u] = None /\ urlDocs' = [urlDocs EXCEPT ![u] = u]
    /\ outside' = IF inDTS'[u] THEN outside ELSE outside \cup {u}
    /\ \E t \in Types : type' = [type EXCEPT ![u] = t]
    /\ \E n \in Namespaces \cup {None} : targetNs' = [targetNs EXCEPT ![u] = n]
    /\ \E b \in BOOLEAN : inDTS' = [inDTS EXCEPT ![u] = b]
    /\ \/ namespaceDocs' = namespaceDocs
       \/ namespaceDocs' = [namespaceDocs EXCEPT ![file[u].ns] = Append(@, u)]
Copies(u) ==
    /\ urlDocs[u] = None
    /\ \E c \in Docs : urlDocs[c] = c /\ urlDocs' = [urlDocs EXCEPT ![u] = c]
    /\ UNCHANGED <<type, inDTS, targetNs, namespaceDocs, outside>>

LEMMA NewMakes ==
  ASSUME TypeOK, NEW u \in Docs, urlDocs[u] = None, NEW entry \in BOOLEAN, NEW discovered \in BOOLEAN,
         NEW included \in BOOLEAN, NEW expected \in Namespaces \cup {None}, NEW callers,
         NewDocument(u, entry, discovered, included, expected, callers)
  PROVE  Makes(u)
<1>1. file[u].ns \in Namespaces \cup {None}
  BY DEF TypeOK, Files
<1>2. TypeOf(u, entry, discovered) \in Types
  BY DEF TypeOf, Types
<1>3. \E t \in Types : type' = [type EXCEPT ![u] = t]
  BY <1>2 DEF NewDocument
<1>4. \E n \in Namespaces \cup {None} : targetNs' = [targetNs EXCEPT ![u] = n]
  BY <1>1 DEF NewDocument
<1>5. \E b \in BOOLEAN : inDTS' = [inDTS EXCEPT ![u] = b]
  BY DEF NewDocument
<1>6. \/ namespaceDocs' = namespaceDocs
      \/ namespaceDocs' = [namespaceDocs EXCEPT ![file[u].ns] = Append(@, u)]
  BY DEF NewDocument, Register
<1>7. /\ urlDocs' = [urlDocs EXCEPT ![u] = u]
      /\ outside' = IF inDTS'[u] THEN outside ELSE outside \cup {u}
  BY DEF NewDocument
<1> QED
  BY <1>3, <1>4, <1>5, <1>6, <1>7 DEF Makes

\* The documents only change so, or in what is in the DTS.
LEMMA DocSteps ==
  ASSUME TypeOK, ScanInv, RegistrySound, [Next]_vars
  PROVE  \/ UNCHANGED <<urlDocs, type, targetNs, namespaceDocs, outside>>
         \/ \E u \in Docs : Makes(u) \/ Copies(u)
<1>1. Kinds
  BY NextKinds
<1>2. CASE LoadsOne
  <2>1. PICK u \in Docs, discovered \in BOOLEAN, included \in BOOLEAN,
             expected \in Namespaces \cup {None} : Loads(u, discovered, included, expected)
    BY <1>2 DEF LoadsOne
  <2>2. ASSUME urlDocs[u] = None,
               NewDocument(u, FALSE, discovered, included, expected, <<Waiting(Top, u)>> \o Callers)
        PROVE  Makes(u)
    BY <2>2, NewMakes
  <2>3. ASSUME urlDocs[u] = None, Copy(u, included) # None,
               urlDocs' = [urlDocs EXCEPT ![u] = Copy(u, included)],
               UNCHANGED <<type, inDTS, targetNs, namespaceDocs, outside>>
        PROVE  Copies(u)
    BY <2>3, CopySame, CopyMade DEF Copies, Made
  <2> QED
    BY <2>1, <2>2, <2>3 DEF Loads, Load, docVars
<1>3. CASE Enters
  BY <1>3, NewMakes, DocsAssumption DEF Enters, ScanInv, DocsOk
<1> QED
  BY <1>1, <1>2, <1>3 DEF Kinds, Rests, Skips, HrefPromotes, Return, LocateSchemas, Takes,
                          TakesAndPromotes, Taking, docVars

\* n lists the schema t.
Listed(n, t) == t \in {namespaceDocs[n][i] : i \in 1..Len(namespaceDocs[n])}

\* A schema that is appended is the one that is made.
LEMMA ListedStep ==
  ASSUME TypeOK, ScanInv, NEW u \in Docs, Makes(u) \/ namespaceDocs' = namespaceDocs,
         NEW t \in Docs, Made(t), NEW n \in Namespaces \cup {None}
  PROVE  Listed(n, t)' <=> Listed(n, t)
<1>1. CASE namespaceDocs' = namespaceDocs
  BY <1>1 DEF Listed
<1>2. CASE namespaceDocs' = [namespaceDocs EXCEPT ![file[u].ns] = Append(@, u)] /\ urlDocs[u] = None
  <2>1. t # u
    BY <1>2, DocsAssumption DEF Made
  <2>2. file[u].ns \in Namespaces \cup {None} /\ namespaceDocs \in [Namespaces \cup {None} -> Seq(Docs)]
    BY DEF TypeOK, Files
  <2>3. CASE n = file[u].ns
    <3>1. PICK same \in Seq(Docs) : same = namespaceDocs[n]
      BY <2>2
    <3>2. namespaceDocs'[n] = Append(same, u)
      BY <1>2, <2>2, <2>3, <3>1
    <3>3. /\ Len(Append(same, u)) = Len(same) + 1 /\ Len(same) \in Nat
          /\ \A i \in 1..Len(same) : Append(same, u)[i] = same[i] /\ i \in 1..Len(same) + 1
          /\ Append(same, u)[Len(same) + 1] = u
      BY <3>1
    <3>4. \A i \in 1..Len(same) + 1 : i \in 1..Len(same) \/ i = Len(same) + 1
      BY <3>3
    <3> QED
      BY <2>1, <3>1, <3>2, <3>3, <3>4 DEF Listed
  <2>4. CASE n # file[u].ns
    <3>1. namespaceDocs'[n] = namespaceDocs[n]
      BY <1>2, <2>2, <2>4
    <3> QED
      BY <3>1 DEF Listed
  <2> QED
    BY <2>3, <2>4
<1> QED
  BY <1>1, <1>2 DEF Makes

\* What is known of documents, and what load() gives for a URL, lasts.
Lasting ==
    /\ \A u \in Docs : urlDocs[u] # None => urlDocs'[u] = urlDocs[u]
    /\ \A d \in Docs : Made(d) => type'[d] = type[d] /\ targetNs'[d] = targetNs[d]
    /\ outside \subseteq outside'
    /\ \A d \in Docs \ XbrldiSchemas : inDTS[d] => inDTS'[d]
    /\ file' = file

LEMMA LastingStep ==
  ASSUME TypeOK, TypeOK', ScanInv, RegistrySound, [Next]_vars
  PROVE  /\ Lasting
         /\ \A t \in Docs : Made(t) => \A n \in Namespaces \cup {None} : Listed(n, t)' <=> Listed(n, t)
<1>0. file' = file
  BY NextKinds DEF Grows
<1>1. \A d \in Docs \ XbrldiSchemas : inDTS[d] => inDTS'[d]
  BY StaysStep
<1>2. CASE UNCHANGED <<urlDocs, type, targetNs, namespaceDocs, outside>>
  <2>1. Lasting
    BY <1>0, <1>1, <1>2 DEF Lasting
  <2> QED
    BY <1>2, <2>1 DEF Listed
<1>3. ASSUME NEW u \in Docs, Makes(u) \/ Copies(u)
      PROVE  /\ Lasting
             /\ \A t \in Docs : Made(t) =>
                    \A n \in Namespaces \cup {None} : Listed(n, t)' <=> Listed(n, t)
  <2>1. urlDocs[u] = None /\ \E c : urlDocs' = [urlDocs EXCEPT ![u] = c]
    BY <1>3 DEF Makes, Copies
  <2>2. \A v \in Docs : urlDocs[v] # None => urlDocs'[v] = urlDocs[v]
    BY <2>1 DEF TypeOK
  <2>3. \A d \in Docs : Made(d) => d # u
    BY <2>1, DocsAssumption DEF Made
  <2>4. \A d \in Docs : Made(d) => type'[d] = type[d] /\ targetNs'[d] = targetNs[d]
    BY <1>3, <2>3 DEF Makes, Copies, TypeOK
  <2>5. outside \subseteq outside'
    BY <1>3 DEF Makes, Copies
  <2>6. Lasting
    BY <1>0, <1>1, <2>2, <2>4, <2>5 DEF Lasting
  <2>7. Makes(u) \/ namespaceDocs' = namespaceDocs
    BY <1>3 DEF Copies
  <2>8. ASSUME NEW t \in Docs, Made(t), NEW n \in Namespaces \cup {None}
        PROVE  Listed(n, t)' <=> Listed(n, t)
    BY <2>7, <2>8, ListedStep
  <2> QED
    BY <2>6, <2>8
<1> QED
  BY <1>2, <1>3, DocSteps

\* What load() finds absent, or not to be XML, is what it notes as unloadable.
LEMMA UnloadableStep ==
  ASSUME TypeOK, [Next]_vars, NEW u \in unloadable'
  PROVE  u \in unloadable \/ file[u].root \in {"absent", "notXml"}
<1>1. ASSUME NEW v, NEW discovered, NEW included, NEW expected,
             Load(v, discovered, included, expected)
      PROVE  u \in unloadable \/ file[u].root \in {"absent", "notXml"}
  BY <1>1 DEF Load
<1>2. CASE LoadEntry
  BY <1>2 DEF LoadEntry
<1>3. CASE Import
  BY <1>1, <1>3 DEF Import
<1>4. CASE Element
  BY <1>1, <1>4, ElementCalls
<1>5. CASE Href \/ Xbrldi \/ Hint
  BY <1>1, <1>5 DEF Href, Xbrldi, Hint
<1> QED
  BY <1>2, <1>3, <1>4, <1>5 DEF Next, vars, IgnoreLink, ImportReturns, HrefPromotes, HrefReturns,
     HintReturns, Return, EntryLoaded, LocateSchemas, Finish

\* What is made outside of the DTS is known to have been, unless it is in it.
LEMMA OutsideStep ==
  ASSUME TypeOK, TypeOK', ScanInv, RegistrySound, OutsideInv, [Next]_vars
  PROVE  OutsideInv'
<1>0. file' = file /\ XbrldiSchemas' = XbrldiSchemas /\ Lasting
  BY NextKinds, LastingStep, SameFiles DEF Grows
<1>1. ASSUME NEW t \in Docs, Made(t)', ~inDTS'[t] PROVE t \in outside' \cup XbrldiSchemas
  <2>1. CASE Made(t)
    BY <1>0, <1>1, <2>1 DEF OutsideInv, Lasting
  <2>2. CASE ~Made(t)
    <3>1. PICK u \in Docs : Makes(u) \/ Copies(u)
      BY <1>1, <2>2, DocSteps DEF Made
    <3>2. t = u
      BY <1>1, <2>2, <3>1 DEF Makes, Copies, Made, TypeOK
    <3>3. CASE Makes(u)
      BY <1>1, <3>2, <3>3 DEF Makes
    <3>4. CASE Copies(u)
      BY <1>1, <3>2, <3>4, DocsAssumption DEF Copies, Made, TypeOK
    <3> QED
      BY <3>1, <3>3, <3>4
  <2> QED
    BY <2>1, <2>2
<1>2. ASSUME NEW u \in unloadable' PROVE file[u].root \in {"absent", "notXml"}
  BY <1>2, UnloadableStep DEF OutsideInv
<1> QED
  BY <1>0, <1>1, <1>2 DEF OutsideInv

LEMMA OutsideRight == Spec => []OutsideInv
<1>1. Init => OutsideInv
  BY DocsAssumption DEF Init, OutsideInv, Made
<1> QED
  BY <1>1, OutsideStep, TypeCorrect, RegistryCorrect, ScansRight, PTL DEF Spec

-----------------------------------------------------------------------------
(* That nothing is missed: what each reference of the DTS still waits for.    *)

RefsOf(d, hows) == {i \in 1..Len(file[d].refs) : file[d].refs[i].how \in hows}
Ref(d, i) == file[d].refs[i]

\* The imports and includes of d that have a namespace.
Asks(d) == {i \in RefsOf(d, Schemas) : ImportNs(d, Ref(d, i)) # None}

\* A scan of d has the reference i still before it, or has not left it behind.
ToMeet(stk, d, i) == \E k \in 1..Len(stk) : ScanOf(stk[k], d) /\ ~Reached(stk[k], i)
ToReturn(stk, d, i) == \E k \in 1..Len(stk) : ScanOf(stk[k], d) /\ i >= stk[k].next

\* t needs nothing more of the documents that refer to it; an import or include of d will
\* find it, or one that leads to it cannot.
Settles(t) == inDTS[t] \/ t \in XbrldiSchemas \/ type[t] = "unknown"
ToFind(stk, d, t) == \E j \in Asks(d) : Finds(d, Ref(d, j), t) /\ ToMeet(stk, d, j)
Misses(d, t) == \E j \in RefsOf(d, Schemas) : t \in Targets(Ref(d, j)) /\ ~Finds(d, Ref(d, j), t)

RefDone(d, ref) == Overlooked(d, ref) \/ Discovered(d, ref)

\* What d, in the DTS, refers to is discovered or will be.
Complete(d) ==
    /\ \A i \in RefsOf(d, Schemas) : RefDone(d, Ref(d, i)) \/ ToMeet(stack, d, i)
    /\ \A i \in RefsOf(d, Links) :
          \/ RefDone(d, Ref(d, i)) \/ ToReturn(stack, d, i)
          \/ ToFind(stack, d, urlDocs[Ref(d, i).to])
    /\ \A t \in references[d] : Settles(t) \/ Misses(d, t) \/ ToFind(stack, d, t)

\* What referencesDocument holds of d.
ReferencesOk(d) ==
    \A t \in references[d] :
        /\ Made(d) /\ Made(t)
        /\ Settles(t) \/ \E j \in Asks(d) : t \in Targets(Ref(d, j))

\* What a call that f waits for has returned.
Gets(f) ==
    f.kind # "hints" =>
        /\ Awaits(f, Links) =>
              IF f.got = None THEN file[Awaited(f).to].root \in {"absent", "notXml"}
              ELSE f.got = urlDocs[Awaited(f).to]
        /\ Awaits(f, Schemas) => ImportNs(f.doc, Awaited(f)) # None
        /\ (Awaits(f, Schemas) /\ f.got # None) =>
              /\ f.got \in Targets(Awaited(f))
              /\ inDTS[f.doc] => \/ Settles(f.got) \/ ~Finds(f.doc, Awaited(f), f.got)
                                 \/ ToMeet(stack, f.doc, f.next)

ReachInv ==
    /\ \A d \in Docs : (inDTS[d] /\ type[d] \in Scanned) => Complete(d)
    /\ \A d \in Docs : ReferencesOk(d)
    /\ \A k \in 1..Len(stack) : \A f : f = stack[k] => Gets(f)

\* A reference is one of its document.
LEMMA RefType ==
  ASSUME TypeOK, NEW d \in Docs, NEW hows, NEW i \in RefsOf(d, hows)
  PROVE  Ref(d, i) \in Refs /\ Ref(d, i).to \in Docs /\ Ref(d, i).how \in hows
<1>1. file[d].refs \in Seq(Refs)
  BY DEF TypeOK, Files
<1>2. Ref(d, i) \in Refs
  BY <1>1 DEF Ref, RefsOf
<1> QED
  BY <1>2 DEF Ref, RefsOf, Refs

\* What depends on the files only.
LEMMA SameRefs ==
  ASSUME file' = file
  PROVE  /\ \A d, hows : RefsOf(d, hows)' = RefsOf(d, hows)
         /\ \A d, i : Ref(d, i)' = Ref(d, i)
         /\ \A ref : Targets(ref)' = Targets(ref)
         /\ \A d : Refers(d)' = Refers(d)
         /\ \A f : Awaited(f)' = Awaited(f)
         /\ XbrldiSchemas' = XbrldiSchemas
  BY DEF RefsOf, Ref, Targets, SameSchema, TakenByName, Refers, Awaited, XbrldiSchemas

\* Whether d finds t does not change.
LEMMA FindsStep ==
  ASSUME TypeOK, TypeOK', ScanInv, RegistrySound, [Next]_vars,
         NEW d \in Docs, Made(d), NEW ref \in Refs, NEW t \in Docs, Made(t)
  PROVE  Finds(d, ref, t)' <=> Finds(d, ref, t)
<1>1. targetNs'[d] = targetNs[d] /\ targetNs[d] \in Namespaces \cup {None}
  BY LastingStep DEF Lasting, TypeOK
<1>2. PICK n \in Namespaces \cup {None} : n = ImportNs(d, ref)
  BY <1>1 DEF ImportNs, Refs
<1>3. n = ImportNs(d, ref)'
  BY <1>1, <1>2 DEF ImportNs
<1>4. Listed(n, t)' <=> Listed(n, t)
  BY LastingStep
<1>5. Finds(d, ref, t) <=> t = ref.to /\ Listed(n, t)
  BY <1>2 DEF Finds, Listed
<1>6. Finds(d, ref, t)' <=> t = ref.to /\ Listed(n, t)'
  BY <1>3 DEF Finds, Listed
<1> QED
  BY <1>4, <1>5, <1>6

LEMMA SettlesStep ==
  ASSUME TypeOK, TypeOK', ScanInv, RegistrySound, [Next]_vars, NEW t \in Docs, Made(t), Settles(t)
  PROVE  Settles(t)'
<1>1. Lasting /\ XbrldiSchemas' = XbrldiSchemas
  BY LastingStep, SameFiles DEF Lasting
<1> QED
  BY <1>1 DEF Lasting, Settles

LEMMA AsksStep ==
  ASSUME TypeOK, TypeOK', ScanInv, RegistrySound, [Next]_vars, NEW d \in Docs, Made(d)
  PROVE  Asks(d)' = Asks(d) /\ \A ref : ImportNs(d, ref)' = ImportNs(d, ref)
<1>1. file' = file /\ targetNs'[d] = targetNs[d]
  BY LastingStep DEF Lasting
<1>2. \A ref : ImportNs(d, ref)' = ImportNs(d, ref)
  BY <1>1 DEF ImportNs
<1> QED
  BY <1>1, <1>2 DEF Asks, RefsOf, Ref

LEMMA MissesStep ==
  ASSUME TypeOK, TypeOK', ScanInv, RegistrySound, [Next]_vars,
         NEW d \in Docs, Made(d), NEW t \in Docs, Made(t), Misses(d, t)
  PROVE  Misses(d, t)'
<1>1. PICK j \in RefsOf(d, Schemas) : t \in Targets(Ref(d, j)) /\ ~Finds(d, Ref(d, j), t)
  BY DEF Misses
<1>2. PICK ref \in Refs : ref = Ref(d, j)
  BY RefType
<1>3. file' = file
  BY NextKinds DEF Grows
<1>4. j \in RefsOf(d, Schemas)' /\ ref = Ref(d, j)' /\ t \in Targets(ref)'
  BY <1>1, <1>2, <1>3, SameRefs
<1>5. ~Finds(d, ref, t)'
  BY <1>1, <1>2, FindsStep
<1> QED
  BY <1>4, <1>5 DEF Misses

\* What load() gave for a reference was made, and is one of its targets.
LEMMA GivenFor ==
  ASSUME TypeOK, ScanInv, RegistrySound, NEW ref \in Refs, NEW t, t = urlDocs[ref.to], t # None
  PROVE  t \in Docs /\ Made(t) /\ t \in Targets(ref)
<1>1. ref.to \in Docs
  BY DEF Refs
<1>2. t \in Docs /\ Made(t)
  BY <1>1 DEF TypeOK, ScanInv, DocsOk
<1>3. t = ref.to \/ SameSchema(ref.to, t)
  BY <1>1 DEF RegistrySound
<1> QED
  BY <1>2, <1>3 DEF Targets

\* A reference that is done with stays so.
LEMMA RefDoneStep ==
  ASSUME TypeOK, TypeOK', ScanInv, RegistrySound, [Next]_vars,
         NEW d \in Docs, Made(d), NEW ref \in Refs, RefDone(d, ref)
  PROVE  RefDone(d, ref)'
<1>0. /\ Lasting /\ file' = file /\ ref.to \in Docs
      /\ Targets(ref)' = Targets(ref) /\ Refers(d)' = Refers(d) /\ XbrldiSchemas' = XbrldiSchemas
      /\ \A r : Targets(r)' = Targets(r)
  BY LastingStep, SameRefs DEF Lasting, Refs
<1>1. CASE ref.how \in Schemas /\ ImportNs(d, ref) = None
  <2>1. ImportNs(d, ref)' = ImportNs(d, ref)
    BY <1>0 DEF Lasting, ImportNs
  <2> QED
    BY <1>1, <2>1 DEF RefDone, Overlooked
<1>2. CASE file[ref.to].root = "notXml" \/ Targets(ref) \cap XbrldiSchemas # {}
  BY <1>0, <1>2 DEF RefDone, Overlooked
<1>3. ASSUME NEW t \in Docs, t = urlDocs[ref.to], t \in outside,
             \/ type[t] = "unknown"
             \/ ref.how \in Schemas /\ ~Finds(d, ref, t)
             \/ /\ ref.how \in Links
                /\ \E r \in Refers(d) : r.how \in Schemas /\ t \in Targets(r) /\ ~Finds(d, r, t)
      PROVE  RefDone(d, ref)'
  <2>1. Made(t)
    BY <1>3, GivenFor, DocsAssumption
  <2>2. t = urlDocs'[ref.to] /\ t \in outside' /\ type'[t] = type[t]
    BY <1>0, <1>3, <2>1, DocsAssumption DEF Lasting
  <2>3. Finds(d, ref, t)' <=> Finds(d, ref, t)
    BY <2>1, FindsStep
  <2>4. ASSUME NEW r \in Refers(d), ~Finds(d, r, t) PROVE ~Finds(d, r, t)'
    <3>1. r \in Refs
      BY DEF Refers, TypeOK, Files
    <3> QED
      BY <2>1, <2>4, <3>1, FindsStep
  <2>5. \/ type'[t] = "unknown"
        \/ ref.how \in Schemas /\ ~Finds(d, ref, t)'
        \/ /\ ref.how \in Links
           /\ \E r \in Refers(d) : r.how \in Schemas /\ t \in Targets(r) /\ ~Finds(d, r, t)'
    BY <1>3, <2>2, <2>3, <2>4
  <2>6. Overlooked(d, ref)'
    BY <1>0, <2>2, <2>5 DEF Overlooked
  <2> QED
    BY <2>6 DEF RefDone
<1>4. CASE file[ref.to].root = "absent"
  BY <1>0, <1>4 DEF RefDone, Discovered
<1>5. ASSUME NEW t \in Targets(ref), inDTS[t], t = urlDocs[ref.to] \/ TakenByName(ref, t)
      PROVE  RefDone(d, ref)'
  <2>1. t \in Docs
    BY <1>5 DEF Targets
  <2>2. CASE t \in XbrldiSchemas
    BY <1>0, <1>5, <2>2 DEF RefDone, Overlooked
  <2>3. CASE t \notin XbrldiSchemas
    <3>1. inDTS'[t] /\ (t = urlDocs[ref.to] => t = urlDocs'[ref.to])
      BY <1>0, <1>5, <2>1, <2>3, DocsAssumption DEF Lasting
    <3>2. TakenByName(ref, t)' <=> TakenByName(ref, t)
      BY <1>0 DEF TakenByName
    <3>3. Discovered(d, ref)'
      BY <1>0, <1>5, <3>1, <3>2 DEF Discovered
    <3> QED
      BY <3>3 DEF RefDone
  <2> QED
    BY <2>2, <2>3
<1> QED
  <2>1. Overlooked(d, ref) => RefDone(d, ref)'
    BY <1>1, <1>2, <1>3 DEF Overlooked, TypeOK
  <2>2. Discovered(d, ref) => RefDone(d, ref)'
    BY <1>4, <1>5 DEF Discovered
  <2> QED
    BY <2>1, <2>2 DEF RefDone

\* A reference is done with once what was given for it needs nothing more, or cannot be found.
LEMMA GivenDone ==
  ASSUME TypeOK, ScanInv, RegistrySound, OutsideInv, NEW d \in Docs, NEW ref \in Refs,
         NEW t, t = urlDocs[ref.to], t # None,
         \/ Settles(t)
         \/ ref.how \in Schemas /\ ~Finds(d, ref, t)
         \/ ref.how \in Links /\ Misses(d, t)
  PROVE  RefDone(d, ref)
<1>1. t \in Docs /\ Made(t) /\ t \in Targets(ref)
  BY GivenFor
<1>2. CASE inDTS[t]
  BY <1>1, <1>2 DEF RefDone, Discovered
<1>3. CASE t \in XbrldiSchemas
  BY <1>1, <1>3 DEF RefDone, Overlooked
<1>4. CASE ~inDTS[t] /\ t \notin XbrldiSchemas
  <2>1. t \in outside
    BY <1>1, <1>4 DEF OutsideInv
  <2>2. ref.how \in Links /\ Misses(d, t) =>
            \E r \in Refers(d) : r.how \in Schemas /\ t \in Targets(r) /\ ~Finds(d, r, t)
    BY DEF Misses, Refers, RefsOf, Ref
  <2>3. Overlooked(d, ref)
    BY <1>4, <2>1, <2>2 DEF Overlooked, Settles
  <2> QED
    BY <2>3 DEF RefDone
<1> QED
  BY <1>2, <1>3, <1>4

\* A step that passes over an import of d leaves it done with, and what it finds in the DTS.
Meets(d, ref) ==
    /\ RefDone(d, ref)'
    /\ ImportNs(d, ref) # None => \A t \in Docs : Made(t) /\ Finds(d, ref, t) => inDTS'[t]
Follows(d) ==
    \A i \in RefsOf(d, Schemas) : \A ref \in Refs :
        ref = Ref(d, i) /\ ToMeet(stack, d, i) => ToMeet(stack', d, i) \/ Meets(d, ref)

\* A scan of d only leaves a link behind that is done with.
Passes(d) ==
    \A i \in RefsOf(d, Links) :
        ToReturn(stack, d, i) =>
            \/ ToReturn(stack', d, i) \/ RefDone(d, Ref(d, i))
            \/ ToFind(stack, d, urlDocs[Ref(d, i).to])

\* A scan of d begins.
Rescans(d) ==
    /\ \A i \in RefsOf(d, Schemas) : ToMeet(stack', d, i)
    /\ \A i \in RefsOf(d, Links) : ToReturn(stack', d, i)

\* What d will find it still will, unless it was found.
LEMMA ToFindStep ==
  ASSUME TypeOK, TypeOK', ScanInv, RegistrySound, [Next]_vars,
         NEW d \in Docs, Made(d), NEW t \in Docs, Made(t), Follows(d), ToFind(stack, d, t)
  PROVE  ToFind(stack, d, t)' \/ inDTS'[t]
<1>1. PICK j \in Asks(d) : Finds(d, Ref(d, j), t) /\ ToMeet(stack, d, j)
  BY DEF ToFind
<1>2. PICK ref \in Refs : ref = Ref(d, j) /\ j \in RefsOf(d, Schemas) /\ ImportNs(d, ref) # None
  BY RefType DEF Asks
<1>3. file' = file
  BY NextKinds DEF Grows
<1>4. j \in Asks(d)' /\ ref = Ref(d, j)'
  BY <1>2, <1>3, AsksStep, SameRefs
<1>5. Finds(d, ref, t)'
  BY <1>1, <1>2, FindsStep
<1>6. ToMeet(stack', d, j) \/ inDTS'[t]
  BY <1>1, <1>2 DEF Follows, Meets
<1> QED
  BY <1>4, <1>5, <1>6 DEF ToFind

\* What a document of the DTS refers to stays accounted for.
LEMMA CompleteKept ==
  ASSUME TypeOK, TypeOK', ScanInv, RegistrySound, [Next]_vars,
         NEW d \in Docs, Made(d), Complete(d), ReferencesOk(d), Follows(d), Passes(d)
  PROVE  /\ \A i \in RefsOf(d, Schemas)' : RefDone(d, Ref(d, i))' \/ ToMeet(stack, d, i)'
         /\ \A i \in RefsOf(d, Links)' : \/ RefDone(d, Ref(d, i))' \/ ToReturn(stack, d, i)'
                                         \/ ToFind(stack, d, urlDocs[Ref(d, i).to])'
         /\ \A t \in references[d] : Settles(t)' \/ Misses(d, t)' \/ ToFind(stack, d, t)'
<1>0. Lasting /\ file' = file /\ \A hows : RefsOf(d, hows)' = RefsOf(d, hows)
  BY LastingStep, SameRefs DEF Lasting
<1>1. ASSUME NEW i \in RefsOf(d, Schemas)' PROVE RefDone(d, Ref(d, i))' \/ ToMeet(stack, d, i)'
  <2>1. PICK ref \in Refs : ref = Ref(d, i)
    BY <1>0, RefType
  <2>2. ref = Ref(d, i)'
    BY <1>0, <2>1, SameRefs
  <2>3. RefDone(d, ref) \/ ToMeet(stack, d, i)
    BY <1>0, <2>1 DEF Complete
  <2>4. CASE RefDone(d, ref)
    BY <2>2, <2>4, RefDoneStep
  <2>5. CASE ToMeet(stack, d, i)
    BY <1>0, <2>1, <2>2, <2>5 DEF Follows, Meets
  <2> QED
    BY <2>3, <2>4, <2>5
<1>2. ASSUME NEW i \in RefsOf(d, Links)'
      PROVE  \/ RefDone(d, Ref(d, i))' \/ ToReturn(stack, d, i)'
             \/ ToFind(stack, d, urlDocs[Ref(d, i).to])'
  <2>1. PICK ref \in Refs : ref = Ref(d, i) /\ ref.to \in Docs
    BY <1>0, RefType
  <2>2. ref = Ref(d, i)'
    BY <1>0, <2>1, SameRefs
  <2>3. RefDone(d, ref) \/ ToReturn(stack', d, i) \/ ToFind(stack, d, urlDocs[ref.to])
    BY <1>0, <2>1 DEF Complete, Passes
  <2>4. CASE RefDone(d, ref)
    BY <2>2, <2>4, RefDoneStep
  <2>5. CASE ToFind(stack, d, urlDocs[ref.to])
    <3>1. PICK t : t = urlDocs[ref.to]
      OBVIOUS
    <3>2. t \in Docs
      <4>1. \E j \in RefsOf(d, Schemas) : t = Ref(d, j).to
        BY <2>5, <3>1 DEF ToFind, Finds, Asks
      <4> QED
        BY <4>1, RefType
    <3>3. Made(t) /\ t \in Targets(ref) /\ t # None
      BY <3>1, <3>2, GivenFor, DocsAssumption
    <3>4. urlDocs'[ref.to] = t /\ t \in Targets(ref)'
      BY <1>0, <2>1, <3>1, <3>3, SameRefs DEF Lasting
    <3>5. CASE ToFind(stack, d, t)'
      BY <2>2, <3>4, <3>5
    <3>6. CASE inDTS'[t]
      <4>1. Discovered(d, ref)'
        BY <3>4, <3>6 DEF Discovered
      <4> QED
        BY <2>2, <4>1 DEF RefDone
    <3> QED
      BY <2>5, <3>1, <3>2, <3>3, <3>5, <3>6, ToFindStep
  <2> QED
    BY <2>3, <2>4, <2>5
<1>3. ASSUME NEW t \in references[d] PROVE Settles(t)' \/ Misses(d, t)' \/ ToFind(stack, d, t)'
  <2>1. t \in Docs /\ Made(t) /\ (Settles(t) \/ Misses(d, t) \/ ToFind(stack, d, t))
    BY DEF TypeOK, ReferencesOk, Complete
  <2>2. CASE Settles(t)
    BY <2>1, <2>2, SettlesStep
  <2>3. CASE Misses(d, t)
    BY <2>1, <2>3, MissesStep
  <2>4. CASE ToFind(stack, d, t)
    BY <2>1, <2>4, ToFindStep DEF Settles
  <2> QED
    BY <2>1, <2>2, <2>3, <2>4
<1> QED
  BY <1>1, <1>2, <1>3

LEMMA ReferencesKept ==
  ASSUME TypeOK, TypeOK', ScanInv, RegistrySound, [Next]_vars, NEW d \in Docs, ReferencesOk(d)
  PROVE  \A t \in references[d] :
            /\ Made(d)' /\ Made(t)'
            /\ Settles(t)' \/ \E j \in Asks(d)' : t \in Targets(Ref(d, j))'
<1>1. file' = file /\ Lasting
  BY LastingStep DEF Lasting
<1>2. SUFFICES ASSUME NEW t \in references[d]
               PROVE  /\ Made(d)' /\ Made(t)'
                      /\ Settles(t)' \/ \E j \in Asks(d)' : t \in Targets(Ref(d, j))'
  OBVIOUS
<1>3. /\ t \in Docs /\ Made(d) /\ Made(t)
      /\ Settles(t) \/ \E j \in Asks(d) : t \in Targets(Ref(d, j))
  BY DEF TypeOK, ReferencesOk
<1>4. Made(d)' /\ Made(t)'
  BY <1>1, <1>3, DocsAssumption DEF Lasting, Made
<1>5. Settles(t) => Settles(t)'
  BY <1>3, SettlesStep
<1>6. ASSUME NEW j \in Asks(d), t \in Targets(Ref(d, j))
      PROVE  j \in Asks(d)' /\ t \in Targets(Ref(d, j))'
  <2>1. PICK ref : ref = Ref(d, j)
    OBVIOUS
  <2>2. t \in Targets(ref)' /\ ref = Ref(d, j)' /\ j \in Asks(d)'
    BY <1>1, <1>3, <1>6, <2>1, SameRefs, AsksStep
  <2> QED
    BY <2>2
<1> QED
  BY <1>3, <1>4, <1>5, <1>6

\* A document that a scan begins for will find what it refers to, unless it cannot.
LEMMA CompleteRescanned ==
  ASSUME TypeOK, file' = file, NEW d \in Docs, Rescans(d), ReferencesOk(d)'
  PROVE  Complete(d)'
<1>1. \A hows : RefsOf(d, hows)' = RefsOf(d, hows)
  BY SameRefs
<1>2. /\ \A i \in RefsOf(d, Schemas)' : ToMeet(stack, d, i)'
      /\ \A i \in RefsOf(d, Links)' : ToReturn(stack, d, i)'
  BY <1>1 DEF Rescans
<1>3. ASSUME NEW t \in references'[d] PROVE Settles(t)' \/ Misses(d, t)' \/ ToFind(stack, d, t)'
  <2>1. Settles(t)' \/ \E j \in Asks(d)' : t \in Targets(Ref(d, j))'
    BY <1>3 DEF ReferencesOk
  <2>2. ASSUME NEW j \in Asks(d)', t \in Targets(Ref(d, j))'
        PROVE  Misses(d, t)' \/ ToFind(stack, d, t)'
    BY <1>2, <2>2 DEF Misses, ToFind, Asks
  <2> QED
    BY <2>1, <2>2
<1> QED
  BY <1>2, <1>3 DEF Complete

\* What the calls on the stack wait for, or have got, stays right.
LEMMA GetsKept ==
  ASSUME TypeOK, TypeOK', ScanInv, RegistrySound, [Next]_vars, NEW f \in FrameType, FrameOk(f), Gets(f),
         (f.kind # "hints" /\ inDTS'[f.doc]) => Rescans(f.doc) \/ (inDTS[f.doc] /\ Follows(f.doc))
  PROVE  Gets(f)'
<1>0. Lasting /\ file' = file /\ Awaited(f)' = Awaited(f) /\ f.doc \in Docs /\ f.got \in Docs \cup {None}
      /\ Made(f.doc) /\ \A hows : Awaits(f, hows)' <=> Awaits(f, hows)
  BY LastingStep, SameRefs, SameFiles DEF Lasting, FrameType, FrameOk
<1> SUFFICES ASSUME f.kind # "hints"
             PROVE  /\ Awaits(f, Links)' =>
                          IF f.got = None THEN file'[Awaited(f)'.to].root \in {"absent", "notXml"}
                          ELSE f.got = urlDocs'[Awaited(f)'.to]
                    /\ Awaits(f, Schemas)' => ImportNs(f.doc, Awaited(f))' # None
                    /\ (Awaits(f, Schemas)' /\ f.got # None) =>
                          /\ f.got \in Targets(Awaited(f))'
                          /\ inDTS'[f.doc] => \/ Settles(f.got)' \/ ~Finds(f.doc, Awaited(f), f.got)'
                                              \/ ToMeet(stack', f.doc, f.next)
  BY DEF Gets
<1>1. ASSUME NEW hows, Awaits(f, hows)
      PROVE  /\ f.next \in RefsOf(f.doc, hows) /\ Awaited(f) = Ref(f.doc, f.next)
             /\ Awaited(f) \in Refs /\ Awaited(f).to \in Docs
  <2>1. f.next \in RefsOf(f.doc, hows) /\ Awaited(f) = Ref(f.doc, f.next)
    BY <1>0, <1>1 DEF Awaits, Items, RefsOf, Awaited, Ref, FrameType, TypeOK, Files
  <2> QED
    BY <1>0, <2>1, RefType
<1>2. ASSUME Awaits(f, Links)
      PROVE  IF f.got = None THEN file'[Awaited(f)'.to].root \in {"absent", "notXml"}
             ELSE f.got = urlDocs'[Awaited(f)'.to]
  <2>1. Awaited(f).to \in Docs
    BY <1>1, <1>2
  <2> QED
    BY <1>0, <1>2, <2>1 DEF Gets, Lasting
<1>3. ASSUME Awaits(f, Schemas)
      PROVE  ImportNs(f.doc, Awaited(f))' # None
  <2>1. PICK ref : ref = Awaited(f)
    OBVIOUS
  <2>2. ref = Awaited(f)' /\ ImportNs(f.doc, ref)' = ImportNs(f.doc, ref)
    BY <1>0, <2>1, AsksStep
  <2> QED
    BY <1>3, <2>1, <2>2 DEF Gets
<1>4. ASSUME Awaits(f, Schemas), f.got # None
      PROVE  /\ f.got \in Targets(Awaited(f))'
             /\ inDTS'[f.doc] => \/ Settles(f.got)' \/ ~Finds(f.doc, Awaited(f), f.got)'
                                 \/ ToMeet(stack', f.doc, f.next)
  <2>1. PICK ref \in Refs : ref = Awaited(f) /\ f.next \in RefsOf(f.doc, Schemas)
                            /\ ref = Ref(f.doc, f.next)
    BY <1>1, <1>4
  <2>2. f.got \in Docs /\ Made(f.got) /\ f.got \in Targets(ref)
    BY <1>0, <1>4, <2>1 DEF FrameOk, Gets
  <2>3. f.got \in Targets(ref)' /\ ref = Awaited(f)'
    BY <1>0, <2>1, <2>2, SameRefs
  <2>4. ASSUME inDTS'[f.doc]
        PROVE  \/ Settles(f.got)' \/ ~Finds(f.doc, ref, f.got)' \/ ToMeet(stack', f.doc, f.next)
    <3>1. CASE Rescans(f.doc)
      BY <2>1, <3>1 DEF Rescans
    <3>2. CASE inDTS[f.doc] /\ Follows(f.doc)
      <4>1. Settles(f.got) \/ ~Finds(f.doc, ref, f.got) \/ ToMeet(stack, f.doc, f.next)
        BY <1>4, <2>1, <3>2 DEF Gets
      <4>2. CASE Settles(f.got)
        BY <2>2, <4>2, SettlesStep
      <4>3. CASE ~Finds(f.doc, ref, f.got)
        BY <1>0, <2>1, <2>2, <4>3, FindsStep
      <4>4. CASE ToMeet(stack, f.doc, f.next) /\ Finds(f.doc, ref, f.got)
        <5>1. ToMeet(stack', f.doc, f.next) \/ inDTS'[f.got]
          BY <1>4, <2>1, <2>2, <3>2, <4>4 DEF Follows, Meets, Gets
        <5> QED
          BY <5>1 DEF Settles
      <4> QED
        BY <4>1, <4>2, <4>3, <4>4
    <3> QED
      BY <2>4, <3>1, <3>2
  <2> QED
    BY <2>1, <2>3, <2>4
<1> QED
  BY <1>0, <1>2, <1>3, <1>4

\* What a call on the stack has before it, and what the calls below it have.
LEMMA MeetPush ==
  ASSUME NEW f \in FrameType, NEW stk \in Seq(FrameType), NEW d, NEW i, NEW s, s = <<f>> \o stk
  PROVE  /\ ToMeet(s, d, i) <=> ((ScanOf(f, d) /\ ~Reached(f, i)) \/ ToMeet(stk, d, i))
         /\ ToReturn(s, d, i) <=> ((ScanOf(f, d) /\ i >= f.next) \/ ToReturn(stk, d, i))
<1>1. /\ Len(s) = Len(stk) + 1 /\ Len(stk) \in Nat /\ s[1] = f
      /\ \A k \in 1..Len(stk) : s[k + 1] = stk[k] /\ k + 1 \in 1..Len(s)
      /\ 1 \in 1..Len(s)
  BY Push
<1>2. \A k \in 1..Len(s) : k = 1 \/ (k - 1 \in 1..Len(stk) /\ s[k] = stk[k - 1])
  BY PushCases
<1>3. ToMeet(s, d, i) <=> ((ScanOf(f, d) /\ ~Reached(f, i)) \/ ToMeet(stk, d, i))
  BY <1>1, <1>2 DEF ToMeet
<1>4. ToReturn(s, d, i) <=> ((ScanOf(f, d) /\ i >= f.next) \/ ToReturn(stk, d, i))
  BY <1>1, <1>2 DEF ToReturn
<1> QED
  BY <1>3, <1>4

\* A scan that makes a call meets the import that makes it.
LEMMA WaitingFollows ==
  ASSUME TypeOK, AtItem, NEW c \in Docs \cup {None}, NEW s, s = <<Waiting(Top, c)>> \o Callers,
         stack' = s \/ \E h \in FrameType : stack' = <<h>> \o s,
         NEW d \in Docs, NEW item, item = Item,
         (ScanOf(Top, d) /\ item.how \in Schemas) => Meets(d, item)
  PROVE  Follows(d) /\ Passes(d)
<1>1. /\ stack # <<>> /\ Top.next <= Len(Items(Top)) /\ Top \in FrameType /\ Top.next \in Nat
      /\ ~Top.waiting /\ Callers \in Seq(FrameType) /\ stack = <<Top>> \o Callers
  BY Calls, StackSplit DEF AtItem, FrameType
<1>2. PICK f \in FrameType : /\ f = Waiting(Top, c) /\ f.doc = Top.doc /\ f.kind = Top.kind
                             /\ f.next = Top.next /\ f.waiting
  BY WaitingFor
<1>3. s = <<f>> \o Callers /\ s \in Seq(FrameType)
  BY <1>1, <1>2, Push
<1>4. \A i \in Nat : (ToMeet(s, d, i) => ToMeet(stack', d, i)) /\ (ToReturn(s, d, i) => ToReturn(stack', d, i))
  <2>1. ASSUME NEW h \in FrameType, stack' = <<h>> \o s, NEW i \in Nat
        PROVE  (ToMeet(s, d, i) => ToMeet(stack', d, i)) /\ (ToReturn(s, d, i) => ToReturn(stack', d, i))
    BY <1>3, <2>1, MeetPush
  <2> QED
    BY <2>1
<1>5. ASSUME NEW i \in Nat, ToMeet(stack, d, i)
      PROVE  ToMeet(stack', d, i) \/ (ScanOf(Top, d) /\ i = Top.next)
  <2>1. (ScanOf(Top, d) /\ ~Reached(Top, i)) \/ ToMeet(Callers, d, i)
    BY <1>1, <1>5, MeetPush
  <2>2. ToMeet(s, d, i) <=> ((ScanOf(f, d) /\ ~Reached(f, i)) \/ ToMeet(Callers, d, i))
    BY <1>1, <1>3, MeetPush
  <2>3. ScanOf(f, d) <=> ScanOf(Top, d)
    BY <1>2 DEF ScanOf
  <2>4. ~Reached(Top, i) => ~Reached(f, i) \/ i = Top.next
    BY <1>1, <1>2 DEF Reached
  <2> QED
    BY <1>4, <2>1, <2>2, <2>3, <2>4
<1>6. ASSUME NEW i \in Nat, ToReturn(stack, d, i) PROVE ToReturn(stack', d, i)
  <2>1. (ScanOf(Top, d) /\ i >= Top.next) \/ ToReturn(Callers, d, i)
    BY <1>1, <1>6, MeetPush
  <2>2. ToReturn(s, d, i) <=> ((ScanOf(f, d) /\ i >= f.next) \/ ToReturn(Callers, d, i))
    BY <1>1, <1>3, MeetPush
  <2>3. ScanOf(f, d) <=> ScanOf(Top, d)
    BY <1>2 DEF ScanOf
  <2> QED
    BY <1>2, <1>4, <2>1, <2>2, <2>3
<1>7. ASSUME NEW i \in RefsOf(d, Schemas), NEW ref \in Refs, ref = Ref(d, i), ToMeet(stack, d, i)
      PROVE  ToMeet(stack', d, i) \/ Meets(d, ref)
  <2>1. i \in Nat /\ ref.how \in Schemas
    BY <1>7 DEF RefsOf, Ref
  <2>2. CASE ScanOf(Top, d) /\ i = Top.next
    <3>1. ref = item
      BY <1>1, <1>7, <2>2, ItemAtTop DEF ScanOf, Ref
    <3> QED
      BY <2>1, <2>2, <3>1
  <2> QED
    BY <1>5, <1>7, <2>1, <2>2
<1>8. \A i \in RefsOf(d, Links) : i \in Nat
  BY DEF RefsOf
<1> QED
  BY <1>6, <1>7, <1>8 DEF Follows, Passes

\* load() returns what it notes for the URL: a document made before, the one it makes, or
\* nothing.
MakesNew(u, discovered) ==
    /\ urlDocs[u] = None
    /\ inDTS' = [inDTS EXCEPT ![u] = file[u].root # "notXml" /\ discovered]
    /\ file[u].root = "notXml" => type'[u] = "unknown"
    /\ type'[u] # "unknown" => \E k \in {"new", "included"} :
                                  stack' = <<Frame(u, k)>> \o (<<Waiting(Top, u)>> \o Callers)
Gives(u, discovered, c) ==
    /\ c = urlDocs'[u] /\ (c = None => u \in unloadable')
    /\ \/ (c = None \/ Made(c)) /\ UNCHANGED <<type, inDTS>>
       \/ c = u /\ MakesNew(u, discovered)
    /\ \/ stack' = <<Waiting(Top, c)>> \o Callers
       \/ \E h \in FrameType : ~h.waiting /\ stack' = <<h>> \o (<<Waiting(Top, c)>> \o Callers)

LEMMA LoadReturns ==
  ASSUME TypeOK, ScanInv, RegistrySound, NEW u \in Docs, NEW discovered \in BOOLEAN,
         NEW included \in BOOLEAN, NEW expected \in Namespaces \cup {None},
         Loads(u, discovered, included, expected)
  PROVE  \E c \in Docs \cup {None} : Gives(u, discovered, c)
<1> USE DEF Gives
<1>1. Load(u, discovered, included, expected) /\ urlDocs[u] \in Docs \cup {None}
  BY DEF Loads, TypeOK
<1>2. CASE urlDocs[u] # None /\ stack' = <<Waiting(Top, urlDocs[u])>> \o Callers /\ UNCHANGED docVars
  BY <1>1, <1>2 DEF docVars, ScanInv, DocsOk
<1>3. CASE /\ urlDocs[u] = None /\ unloadable' = unloadable \cup {u}
           /\ stack' = <<Waiting(Top, None)>> \o Callers /\ UNCHANGED docVars
  BY <1>3 DEF docVars
<1>4. CASE /\ Copy(u, included) # None
           /\ urlDocs' = [urlDocs EXCEPT ![u] = Copy(u, included)]
           /\ stack' = <<Waiting(Top, Copy(u, included))>> \o Callers
           /\ UNCHANGED <<order, type, inDTS, targetNs, namespaceDocs, outside, unloadable>>
  <2>1. PICK c \in Docs : c = Copy(u, included) /\ Made(c)
    BY <1>4, CopySame, CopyMade
  <2>2. urlDocs'[u] = c
    BY <1>4, <2>1 DEF TypeOK
  <2> QED
    BY <1>4, <2>1, <2>2, DocsAssumption
<1>5. CASE /\ urlDocs[u] = None
           /\ NewDocument(u, FALSE, discovered, included, expected, <<Waiting(Top, u)>> \o Callers)
  <2>1. /\ urlDocs'[u] = u /\ type'[u] = TypeOf(u, FALSE, discovered)
        /\ inDTS' = [inDTS EXCEPT ![u] = file[u].root # "notXml" /\ discovered]
    BY <1>5 DEF NewDocument, TypeOK
  <2>2. file[u].root = "notXml" => TypeOf(u, FALSE, discovered) = "unknown"
    BY DEF TypeOf
  <2>3. /\ TypeOf(u, FALSE, discovered) = "unknown" => stack' = <<Waiting(Top, u)>> \o Callers
        /\ TypeOf(u, FALSE, discovered) # "unknown" =>
              stack' = <<Frame(u, IF included THEN "included" ELSE "new")>>
                          \o (<<Waiting(Top, u)>> \o Callers)
    BY <1>5 DEF NewDocument
  <2>4. PICK k \in {"new", "included"} : k = IF included THEN "included" ELSE "new"
    OBVIOUS
  <2>5. Frame(u, k) \in FrameType /\ ~Frame(u, k).waiting
    BY FrameSteps DEF Frame, Scan
  <2>6. MakesNew(u, discovered)
    BY <1>5, <2>1, <2>2, <2>3, <2>4 DEF MakesNew
  <2>7. \/ stack' = <<Waiting(Top, u)>> \o Callers
        \/ \E h \in FrameType : ~h.waiting /\ stack' = <<h>> \o (<<Waiting(Top, u)>> \o Callers)
    BY <2>3, <2>4, <2>5
  <2> QED
    BY <2>1, <2>6, <2>7, DocsAssumption
<1> QED
  BY <1>1, <1>2, <1>3, <1>4, <1>5 DEF Load

\* Where an import takes no schema it finds none.
LEMMA NoMatch ==
  ASSUME NEW d, NEW ref, ref.to \in Docs, Match(ref, ImportNs(d, ref)) = None
  PROVE  \A t : ~Finds(d, ref, t)
  BY DocsAssumption DEF Finds, Match

\* In the next state too a reference is done with once what was given for it is.
LEMMA NextGiven ==
  ASSUME TypeOK', ScanInv', RegistrySound', OutsideInv', file' = file,
         NEW d \in Docs, NEW ref \in Refs, NEW c \in Docs, c = urlDocs'[ref.to],
         inDTS'[c] \/ file[ref.to].root = "notXml" \/ (ref.how \in Schemas /\ ~Finds(d, ref, c)')
  PROVE  RefDone(d, ref)' /\ c \in Targets(ref)'
<1>1. c # None /\ ref.to \in Docs
  BY DocsAssumption DEF Refs
<1>a. c = ref.to \/ SameSchema(ref.to, c)'
  BY <1>1 DEF RegistrySound
<1>b. urlDocs'[c] = c
  BY <1>1 DEF ScanInv, DocsOk, Made
<1>2. c \in Targets(ref)' /\ urlDocs'[c] = c
  BY <1>a, <1>b DEF Targets
<1>3. CASE inDTS'[c]
  BY <1>2, <1>3 DEF RefDone, Discovered
<1>4. CASE file[ref.to].root = "notXml"
  BY <1>2, <1>4 DEF RefDone, Overlooked
<1>5. CASE ~inDTS'[c] /\ ref.how \in Schemas /\ ~Finds(d, ref, c)'
  <2>1. c \in outside' \/ c \in XbrldiSchemas'
    BY <1>2, <1>5 DEF OutsideInv, Made
  <2>2. CASE c \in outside'
    BY <1>2, <1>5, <2>2 DEF Overlooked, RefDone
  <2>3. CASE c \in XbrldiSchemas'
    BY <1>2, <2>3 DEF Overlooked, RefDone
  <2> QED
    BY <2>1, <2>2, <2>3
<1> QED
  BY <1>2, <1>3, <1>4, <1>5

\* What load() gives for a URL in the next state is a target of the references to it.
LEMMA NextTarget ==
  ASSUME RegistrySound', NEW ref \in Refs, NEW c \in Docs, c = urlDocs'[ref.to]
  PROVE  c \in Targets(ref)'
<1>1. c # None /\ ref.to \in Docs
  BY DocsAssumption DEF Refs
<1>2. c = ref.to \/ SameSchema(ref.to, c)'
  BY <1>1 DEF RegistrySound
<1> QED
  BY <1>2 DEF Targets

\* An import that calls load() is done with: what is made for it is in the DTS, and what
\* was made before it does not find.
LEMMA LoadMeets ==
  ASSUME TypeOK, TypeOK', ScanInv, ScanInv', RegistrySound, RegistrySound', OutsideInv', [Next]_vars,
         NEW u \in Docs, NEW discovered \in BOOLEAN, NEW included \in BOOLEAN,
         NEW expected \in Namespaces \cup {None}, Loads(u, discovered, included, expected),
         NEW d \in Docs, Made(d), NEW item, item = Item, ScanOf(Top, d), item.how \in Schemas,
         inDTS[d]
  PROVE  Meets(d, item)
<1>1. /\ item \in Refs /\ u = item.to /\ discovered = TRUE
      /\ Match(item, ImportNs(d, item)) = None
  <2>1. /\ stack # <<>> /\ Top.next <= Len(Items(Top)) /\ Calling(u, discovered, included, expected)
        /\ Top.doc = d /\ Top.kind # "hints"
    BY DEF Loads, AtItem, ScanOf
  <2>2. item \in Refs
    <3>1. Top.next \in 1..Len(file[d].refs) /\ item = file[d].refs[Top.next]
      BY <2>1, ItemAtTop
    <3>2. file[d].refs \in Seq(Refs)
      BY DEF TypeOK, Files
    <3> QED
      BY <3>1, <3>2
  <2> QED
    BY <2>1, <2>2 DEF Calling
<1>2. \A t : ~Finds(d, item, t)
  BY <1>1, NoMatch
<1>3. file' = file
  BY NextKinds DEF Grows
<1>4. PICK c \in Docs \cup {None} : Gives(u, discovered, c)
  BY LoadReturns
<1> USE DEF Gives
<1>5. CASE c = None
  <2>1. file'[u].root \in {"absent", "notXml"}
    BY <1>4, <1>5 DEF OutsideInv
  <2>2. RefDone(d, item)'
    BY <1>1, <2>1 DEF RefDone, Discovered, Overlooked
  <2> QED
    BY <1>2, <2>2 DEF Meets
<1>6. CASE c \in Docs /\ Made(c)
  <2>1. ~Finds(d, item, c)'
    BY <1>1, <1>2, <1>6, FindsStep
  <2>2. RefDone(d, item)'
    BY <1>1, <1>3, <1>4, <1>6, <2>1, NextGiven
  <2> QED
    BY <1>2, <2>2 DEF Meets
<1>7. CASE c = u /\ MakesNew(u, discovered)
  <2>1. inDTS'[u] \/ file[u].root = "notXml"
    BY <1>1, <1>7 DEF MakesNew, TypeOK
  <2>2. RefDone(d, item)'
    BY <1>1, <1>3, <1>4, <1>7, <2>1, NextGiven
  <2> QED
    BY <1>2, <2>2 DEF Meets
<1> QED
  BY <1>4, <1>5, <1>6, <1>7

\* What a call waits for that was just made.
LEMMA WaitingGets ==
  ASSUME TypeOK, file' = file, AtItem, NEW c \in Docs \cup {None}, NEW item, item = Item,
         NEW f, f = Waiting(Top, c), NEW d, d = Top.doc,
         item.how \in Links => IF c = None THEN file[item.to].root \in {"absent", "notXml"}
                               ELSE c = urlDocs'[item.to],
         item.how \in Schemas => ImportNs(d, item)' # None,
         (item.how \in Schemas /\ c # None) =>
            c \in Targets(item)' /\ (inDTS'[d] => Settles(c)' \/ ~Finds(d, item, c)')
  PROVE  Gets(f)'
<1>1. /\ f.doc = d /\ f.kind = Top.kind /\ f.got = c /\ f.next = Top.next
      /\ \A hows : Awaits(f, hows) <=> item.how \in hows
  BY WaitingFor
<1>2. \A hows : Awaits(f, hows)' <=> item.how \in hows
  BY <1>1, SameFiles
<1> SUFFICES ASSUME f.kind # "hints"
             PROVE  /\ Awaits(f, Links)' =>
                          IF f.got = None THEN file'[Awaited(f)'.to].root \in {"absent", "notXml"}
                          ELSE f.got = urlDocs'[Awaited(f)'.to]
                    /\ Awaits(f, Schemas)' => ImportNs(f.doc, Awaited(f))' # None
                    /\ (Awaits(f, Schemas)' /\ f.got # None) =>
                          /\ f.got \in Targets(Awaited(f))'
                          /\ inDTS'[f.doc] => \/ Settles(f.got)' \/ ~Finds(f.doc, Awaited(f), f.got)'
                                              \/ ToMeet(stack', f.doc, f.next)
  BY DEF Gets
<1>3. Awaited(f)' = item
  <2>1. item = file[Top.doc].refs[Top.next]
    BY <1>1, ItemAtTop DEF AtItem
  <2> QED
    BY <1>1, <2>1 DEF Awaited
<1>4. Awaits(f, Links)' =>
          IF f.got = None THEN file'[Awaited(f)'.to].root \in {"absent", "notXml"}
          ELSE f.got = urlDocs'[Awaited(f)'.to]
  BY <1>1, <1>2, <1>3
<1>5. ImportNs(f.doc, Awaited(f))' = ImportNs(d, item)'
  BY <1>1, <1>3 DEF ImportNs
<1>6. Targets(Awaited(f))' = Targets(item)'
  <2>1. PICK g : g = Awaited(f)'
    OBVIOUS
  <2> QED
    BY <1>3 DEF Targets, TakenByName
<1>7. Finds(f.doc, Awaited(f), f.got)' <=> Finds(d, item, c)'
  BY <1>1, <1>3 DEF Finds, ImportNs
<1>8. inDTS'[f.doc] = inDTS'[d] /\ (Settles(f.got)' <=> Settles(c)')
  BY <1>1 DEF Settles
<1> QED
  BY <1>1, <1>2, <1>4, <1>5, <1>6, <1>7, <1>8

\* What a step does to a document: those in the DTS keep what they wait for, those that
\* enter it are scanned.
Reaches(d) ==
    /\ (inDTS[d] /\ type[d] \in Scanned) => Follows(d) /\ Passes(d)
    /\ (inDTS'[d] /\ type'[d] \in Scanned) => inDTS[d] \/ Rescans(d)

\* The calls that a step makes, or has before, are right about what they got.
CallsGet(s) ==
    \A k \in 1..Len(s) : \A f : f = s[k] => (\E m \in 1..Len(stack) : f = stack[m]) \/ Gets(f)'

LEMMA PushGets ==
  ASSUME NEW f \in FrameType, Gets(f)', NEW s \in Seq(FrameType), CallsGet(s), NEW z, z = <<f>> \o s
  PROVE  CallsGet(z)
<1>1. \A k \in 1..Len(z) : k = 1 \/ (k - 1 \in 1..Len(s) /\ z[k] = s[k - 1])
  BY PushCases
<1>2. z[1] = f
  BY PushCases
<1> QED
  BY <1>1, <1>2 DEF CallsGet

LEMMA CallersGet ==
  ASSUME TypeOK, stack # <<>>
  PROVE  CallsGet(Callers) /\ CallsGet(stack)
<1>1. \A k \in 1..Len(Callers) : k + 1 \in 1..Len(stack) /\ Callers[k] = stack[k + 1]
  BY DEF TypeOK, Callers
<1> QED
  BY <1>1 DEF CallsGet

\* A scan that does not wait got nothing.
LEMMA IdleGets ==
  ASSUME NEW f, ~f.waiting
  PROVE  Gets(f)'
<1>1. \A hows : ~Awaits(f, hows)'
  BY DEF Awaits
<1> QED
  BY <1>1 DEF Gets

\* Calls that are put on the stack leave those below with what they wait for.
LEMMA PushReaches ==
  ASSUME TypeOK, NEW f \in FrameType, NEW s, s = stack, stack' = <<f>> \o s, NEW d
  PROVE  Follows(d) /\ Passes(d)
<1>1. \A i : /\ ToMeet(s, d, i) => ToMeet(stack', d, i)
             /\ ToReturn(s, d, i) => ToReturn(stack', d, i)
  BY MeetPush DEF TypeOK
<1> QED
  BY <1>1 DEF Follows, Passes

\* A scan that begins has all references before it.
LEMMA Begins ==
  ASSUME NEW f \in FrameType, ~f.waiting, f.next = 1, f.kind # "hints", NEW s \in Seq(FrameType),
         stack' = <<f>> \o s, NEW d, d = f.doc
  PROVE  Rescans(d)
<1>1. \A hows : \A i \in RefsOf(d, hows) : i \in Nat /\ i >= 1
  BY DEF RefsOf
<1>2. ScanOf(f, d) /\ \A i \in Nat : i >= 1 => ~Reached(f, i) /\ i >= f.next
  BY DEF ScanOf, Reached
<1>3. \A i \in Nat : i >= 1 => ToMeet(stack', d, i) /\ ToReturn(stack', d, i)
  BY <1>2, MeetPush
<1> QED
  BY <1>1, <1>3 DEF Rescans

\* load() for a reference.
LEMMA LoadReaches ==
  ASSUME TypeOK, TypeOK', ScanInv, ScanInv', RegistrySound, RegistrySound', OutsideInv', [Next]_vars,
         NEW u \in Docs, NEW discovered \in BOOLEAN, NEW included \in BOOLEAN,
         NEW expected \in Namespaces \cup {None}, Loads(u, discovered, included, expected),
         NEW d \in Docs
  PROVE  Reaches(d)
<1>1. PICK c \in Docs \cup {None} : Gives(u, discovered, c)
  BY LoadReturns
<1> USE DEF Gives
<1>2. AtItem
  BY DEF Loads
<1>3. ASSUME inDTS[d], type[d] \in Scanned PROVE Follows(d) /\ Passes(d)
  <2>1. Made(d)
    BY <1>3 DEF ScanInv, DocsOk
  <2>2. PICK item : item = Item
    OBVIOUS
  <2>3. (ScanOf(Top, d) /\ item.how \in Schemas) => Meets(d, item)
    BY <1>3, <2>1, <2>2, LoadMeets
  <2>4. PICK s : s = <<Waiting(Top, c)>> \o Callers
    OBVIOUS
  <2> QED
    BY <1>1, <1>2, <2>2, <2>3, <2>4, WaitingFollows
<1>4. ASSUME inDTS'[d], type'[d] \in Scanned, ~inDTS[d] PROVE Rescans(d)
  <2>1. c = u /\ MakesNew(u, discovered)
    BY <1>1, <1>4
  <2>2. d = u
    BY <1>4, <2>1 DEF MakesNew, TypeOK
  <2>3. PICK k \in {"new", "included"} : stack' = <<Frame(u, k)>> \o (<<Waiting(Top, u)>> \o Callers)
    BY <1>4, <2>1, <2>2 DEF MakesNew, Scanned
  <2>4. <<Waiting(Top, u)>> \o Callers \in Seq(FrameType)
    <3>1. Waiting(Top, u) \in FrameType /\ Callers \in Seq(FrameType)
      BY <1>2, WaitingFor, Calls DEF AtItem
    <3> QED
      BY <3>1
  <2>5. /\ Frame(u, k) \in FrameType /\ ~Frame(u, k).waiting /\ Frame(u, k).next = 1
        /\ Frame(u, k).kind # "hints" /\ Frame(u, k).doc = d
    BY <2>2, FrameSteps DEF Frame, Scan
  <2> QED
    BY <2>3, <2>4, <2>5, Begins
<1> QED
  BY <1>3, <1>4 DEF Reaches

\* What the reference waits for that called load().
LEMMA LoadGets ==
  ASSUME TypeOK, TypeOK', ScanInv, ScanInv', RegistrySound, RegistrySound', OutsideInv', [Next]_vars,
         NEW u \in Docs, NEW discovered \in BOOLEAN, NEW included \in BOOLEAN,
         NEW expected \in Namespaces \cup {None}, Loads(u, discovered, included, expected)
  PROVE  CallsGet(stack')
<1>1. PICK c \in Docs \cup {None} : Gives(u, discovered, c)
  BY LoadReturns
<1> USE DEF Gives
<1>2. /\ AtItem /\ Calling(u, discovered, included, expected) /\ file' = file
      /\ stack # <<>> /\ Top.next <= Len(Items(Top))
  BY NextKinds DEF Loads, Grows, AtItem
<1>3. PICK item : item = Item
  OBVIOUS
<1>4. PICK d \in Docs : d = Top.doc /\ Made(d)
  BY <1>2, TopOk DEF ScanInv, FrameOk, FrameType
<1>5. PICK f \in FrameType : f = Waiting(Top, c)
  BY <1>2, WaitingFor
<1>6. ASSUME item.how \in Links
      PROVE  IF c = None THEN file[item.to].root \in {"absent", "notXml"} ELSE c = urlDocs'[item.to]
  <2>1. u = item.to
    BY <1>2, <1>3, <1>6 DEF Calling, LinkHows
  <2> QED
    BY <1>1, <1>2, <2>1 DEF OutsideInv
<1>7. ASSUME item.how \in Schemas
      PROVE  /\ ImportNs(d, item)' # None
             /\ c # None => /\ c \in Targets(item)'
                            /\ inDTS'[d] => Settles(c)' \/ ~Finds(d, item, c)'
  <2>1. /\ u = item.to /\ discovered = inDTS[d] /\ ImportNs(d, item) # None
        /\ Match(item, ImportNs(d, item)) = None
    BY <1>2, <1>3, <1>4, <1>7 DEF Calling
  <2>2. item \in Refs
    <3>1. Top.kind # "hints"
      BY <1>2, <1>3, <1>7, ItemAtTop DEF Schemas
    <3>2. Top.next \in 1..Len(file[d].refs) /\ item = file[d].refs[Top.next]
      BY <1>2, <1>3, <1>4, <3>1, ItemAtTop
    <3>3. file[d].refs \in Seq(Refs)
      BY DEF TypeOK, Files
    <3> QED
      BY <3>2, <3>3
  <2>3. ImportNs(d, item)' # None
    BY <1>4, <2>1, AsksStep
  <2>4. \A t : ~Finds(d, item, t)
    BY <2>1, <2>2, NoMatch DEF Refs
  <2>5. ASSUME c # None, inDTS'[d] PROVE Settles(c)' \/ ~Finds(d, item, c)'
    <3>1. CASE Made(c)
      BY <1>4, <2>2, <2>4, <2>5, <3>1, FindsStep
    <3>2. CASE c = u /\ MakesNew(u, discovered)
      <4>1. d # u
        BY <1>4, <3>2, DocsAssumption DEF MakesNew, Made
      <4>2. inDTS'[d] = inDTS[d]
        BY <3>2, <4>1 DEF MakesNew, TypeOK
      <4>3. inDTS'[u] \/ file[u].root = "notXml"
        BY <2>1, <2>5, <3>2, <4>2 DEF MakesNew, TypeOK
      <4>4. inDTS'[u] \/ type'[u] = "unknown"
        BY <3>2, <4>3 DEF MakesNew
      <4> QED
        BY <3>2, <4>4 DEF Settles
    <3> QED
      BY <1>1, <2>5, <3>1, <3>2
  <2>6. c # None => c \in Targets(item)'
    BY <1>1, <2>1, <2>2, NextTarget
  <2> QED
    BY <2>3, <2>5, <2>6
<1>8. Gets(f)'
  BY <1>2, <1>3, <1>4, <1>5, <1>6, <1>7, WaitingGets
<1>9. PICK rest \in Seq(FrameType) : rest = Callers /\ CallsGet(rest)
  BY <1>2, Calls, CallersGet
<1>10. PICK s \in Seq(FrameType) : s = <<f>> \o rest
  BY Push
<1>11. CallsGet(s)
  BY <1>8, <1>9, <1>10, PushGets
<1>12. CASE stack' = <<Waiting(Top, c)>> \o Callers
  BY <1>5, <1>9, <1>10, <1>11, <1>12
<1>13. ASSUME NEW h \in FrameType, ~h.waiting,
              stack' = <<h>> \o (<<Waiting(Top, c)>> \o Callers)
       PROVE  CallsGet(stack')
  <2>1. stack' = <<h>> \o s
    BY <1>5, <1>9, <1>10, <1>13
  <2>2. Gets(h)'
    BY <1>13, IdleGets
  <2> QED
    BY <1>11, <2>1, <2>2, PushGets
<1> QED
  BY <1>1, <1>12, <1>13

\* A schema that an import takes is one of its targets.
LEMMA TakenTarget ==
  ASSUME TypeOK, ScanInv, RegistrySound, NEW doc \in Docs, Taking(doc), NEW item, item = Item,
         NEW d, d = Top.doc
  PROVE  /\ item \in Refs /\ doc \in Targets(item) /\ Made(doc) /\ ImportNs(d, item) # None
         /\ doc = item.to \/ TakenByName(item, doc)
         /\ \A t : Finds(d, item, t) => t = doc
<1>1. /\ stack # <<>> /\ Top.next <= Len(Items(Top)) /\ Item.how \in Schemas /\ d \in Docs
      /\ AtItem /\ Top \in FrameType
  BY Calls DEF Taking, AtItem, FrameType
<1>2. item \in Refs
  <2>1. Top.kind # "hints"
    BY <1>1, ItemAtTop DEF Schemas
  <2>2. Top.next \in 1..Len(file[d].refs) /\ item = file[d].refs[Top.next]
    BY <1>1, <2>1, ItemAtTop
  <2>3. file[d].refs \in Seq(Refs)
    BY <1>1 DEF TypeOK, Files
  <2> QED
    BY <2>2, <2>3
<1>3. PICK n \in Namespaces : n = ImportNs(d, item) /\ doc = Match(item, n)
  BY DEF Taking
<1>4. n # None /\ doc # None /\ item.to \in Docs
  BY <1>2, DocsAssumption DEF Refs
<1>5. Made(doc)
  BY <1>1, <1>3, <1>4, RegisteredSchema
<1>6. namespaceDocs[n] \in Seq(Docs)
  BY DEF TypeOK
<1> DEFINE last == namespaceDocs[n][Len(namespaceDocs[n])]
<1>7. CASE \E i \in 1..Len(namespaceDocs[n]) : namespaceDocs[n][i] = item.to
  <2>1. doc = item.to
    BY <1>3, <1>7 DEF Match
  <2>2. \A t : Finds(d, item, t) => t = doc
    BY <2>1 DEF Finds
  <2> QED
    BY <1>2, <1>3, <1>4, <1>5, <2>1, <2>2 DEF Targets
<1>8. CASE ~\E i \in 1..Len(namespaceDocs[n]) : namespaceDocs[n][i] = item.to
  <2>1. /\ namespaceDocs[n] # <<>> /\ item.how = "import" /\ BaseName[last] = NsBaseName[n]
        /\ doc = last
    BY <1>3, <1>4, <1>8 DEF Match
  <2>2. Len(namespaceDocs[n]) \in 1..Len(namespaceDocs[n])
    BY <1>6, <2>1
  <2>3. file[last].root = "schema" /\ file[last].ns = n
    BY <2>2 DEF RegistrySound
  <2>4. item.ns = n
    BY <1>3, <2>1 DEF ImportNs
  <2>5. TakenByName(item, doc)
    BY <1>4, <2>1, <2>3, <2>4 DEF TakenByName
  <2>6. \A t : ~Finds(d, item, t)
    BY <1>3, <1>8 DEF Finds
  <2> QED
    BY <1>2, <1>3, <1>4, <1>5, <2>5, <2>6 DEF Targets
<1> QED
  BY <1>7, <1>8

\* It is in the DTS if the import is, and then the import is done with.
LEMMA TakeMeets ==
  ASSUME TypeOK, ScanInv, RegistrySound, Grows, NEW doc \in Docs, Taking(doc), inDTS'[doc],
         NEW item, item = Item, NEW d, d = Top.doc
  PROVE  Meets(d, item)
<1>1. /\ item \in Refs /\ doc \in Targets(item) /\ Made(doc)
      /\ doc = item.to \/ TakenByName(item, doc)
      /\ \A t : Finds(d, item, t) => t = doc
  BY TakenTarget
<1>2. urlDocs' = urlDocs /\ file' = file
  BY DEF Taking, Grows
<1>3. Targets(item)' = Targets(item) /\ (TakenByName(item, doc)' <=> TakenByName(item, doc))
  BY <1>2, SameRefs DEF TakenByName
<1>4. Discovered(d, item)'
  BY <1>1, <1>2, <1>3 DEF Discovered, Made
<1> QED
  BY <1>1, <1>4 DEF Meets, RefDone

LEMMA TakeReaches ==
  ASSUME TypeOK, TypeOK', ScanInv, RegistrySound, Grows, [Next]_vars, NEW doc \in Docs,
         Takes(doc) \/ TakesAndPromotes(doc), NEW d \in Docs
  PROVE  Reaches(d)
<1>1. PICK f \in FrameType : f = Waiting(Top, doc)
  BY WaitingFor DEF Takes, TakesAndPromotes, Taking
<1>2. PICK s : s = <<Waiting(Top, doc)>> \o Callers
  OBVIOUS
<1>3. s \in Seq(FrameType) /\ Frame(doc, "rescan") \in FrameType
  <2>1. Callers \in Seq(FrameType)
    BY Calls DEF Takes, TakesAndPromotes, Taking, AtItem
  <2> QED
    BY <1>1, <1>2, <2>1, FrameSteps
<1>4. /\ Taking(doc) /\ AtItem /\ type' = type
      /\ \/ Takes(doc) /\ inDTS' = inDTS /\ (inDTS[doc] \/ ~inDTS[Top.doc]) /\ stack' = s
         \/ /\ inDTS' = [inDTS EXCEPT ![doc] = TRUE]
            /\ stack' = <<Frame(doc, "rescan")>> \o s
  BY <1>2 DEF Takes, TakesAndPromotes, Taking, Promote
<1>5. ASSUME inDTS[d], type[d] \in Scanned PROVE Follows(d) /\ Passes(d)
  <2>1. PICK item : item = Item
    OBVIOUS
  <2>2. ASSUME ScanOf(Top, d) PROVE Meets(d, item)
    <3>1. d = Top.doc
      BY <2>2 DEF ScanOf
    <3>2. inDTS'[doc]
      BY <1>4, <1>5, <3>1 DEF TypeOK
    <3> QED
      BY <1>4, <2>1, <3>1, <3>2, TakeMeets
  <2>3. stack' = s \/ \E h \in FrameType : stack' = <<h>> \o s
    BY <1>3, <1>4
  <2> QED
    BY <1>2, <1>4, <2>1, <2>2, <2>3, WaitingFollows
<1>6. ASSUME inDTS'[d], ~inDTS[d] PROVE Rescans(d)
  <2>1. d = doc /\ stack' = <<Frame(doc, "rescan")>> \o s
    BY <1>4, <1>6 DEF TypeOK
  <2>2. /\ ~Frame(doc, "rescan").waiting /\ Frame(doc, "rescan").next = 1
        /\ Frame(doc, "rescan").kind # "hints" /\ Frame(doc, "rescan").doc = d
    BY <2>1 DEF Frame, Scan
  <2> QED
    BY <1>3, <2>1, <2>2, Begins
<1> QED
  BY <1>5, <1>6 DEF Reaches

LEMMA TakeGets ==
  ASSUME TypeOK, TypeOK', ScanInv, RegistrySound, Grows, [Next]_vars, NEW doc \in Docs,
         Takes(doc) \/ TakesAndPromotes(doc)
  PROVE  CallsGet(stack')
<1>1. PICK f \in FrameType : f = Waiting(Top, doc)
  BY WaitingFor DEF Takes, TakesAndPromotes, Taking
<1>2. PICK d \in Docs : d = Top.doc /\ Made(d)
  BY TopOk DEF ScanInv, FrameOk, FrameType, Takes, TakesAndPromotes, Taking, AtItem
<1>3. PICK item : item = Item
  OBVIOUS
<1>4. PICK rest \in Seq(FrameType) : rest = Callers /\ CallsGet(rest)
  BY Calls, CallersGet DEF Takes, TakesAndPromotes, Taking, AtItem
<1>5. PICK s \in Seq(FrameType) : s = <<f>> \o rest
  BY Push
<1>6. /\ Taking(doc) /\ AtItem /\ item.how \in Schemas /\ file' = file
      /\ \/ inDTS' = inDTS /\ (inDTS[doc] \/ ~inDTS[d]) /\ stack' = s
         \/ inDTS' = [inDTS EXCEPT ![doc] = TRUE] /\ stack' = <<Frame(doc, "rescan")>> \o s
  BY <1>1, <1>2, <1>3, <1>4, <1>5 DEF Takes, TakesAndPromotes, Taking, Promote, Grows
<1>7. item \in Refs /\ doc \in Targets(item) /\ ImportNs(d, item) # None
  BY <1>2, <1>3, <1>6, TakenTarget
<1>8. ImportNs(d, item)' # None /\ doc \in Targets(item)'
  BY <1>2, <1>6, <1>7, AsksStep, SameRefs
<1>9. inDTS'[d] => Settles(doc)'
  BY <1>6 DEF Settles, TypeOK
<1>10. item.how \notin Links
  BY <1>6 DEF Schemas, Links
<1>11. Gets(f)'
  BY <1>1, <1>2, <1>3, <1>6, <1>8, <1>9, <1>10, WaitingGets
<1>12. CallsGet(s)
  BY <1>4, <1>5, <1>11, PushGets
<1>13. Frame(doc, "rescan") \in FrameType /\ Gets(Frame(doc, "rescan"))'
  <2>1. Frame(doc, "rescan") \in FrameType /\ ~Frame(doc, "rescan").waiting
    BY FrameSteps DEF Frame, Scan
  <2> QED
    BY <2>1, IdleGets
<1> QED
  BY <1>5, <1>6, <1>12, <1>13, PushGets

\* When a link returns it is done with, or its scan or another will find what it led to.
LEMMA LinkReturns ==
  ASSUME TypeOK, ScanInv, RegistrySound, OutsideInv, ReachInv, HrefReturns,
         NEW d \in Docs, d = Top.doc, Top.kind # "hints", inDTS[d], type[d] \in Scanned,
         NEW ref \in Refs, ref = Item, ref = Awaited(Top), ref.how \in Links
  PROVE  RefDone(d, ref) \/ ToFind(stack, d, urlDocs[ref.to])
<1>1. /\ stack # <<>> /\ Top.next <= Len(Items(Top)) /\ Top.waiting /\ ~NewlyDiscovered
      /\ Top \in FrameType /\ Complete(d)
  BY Calls DEF HrefReturns, Returned, ReachInv
<1>2. Gets(Top)
  BY <1>1 DEF TypeOK, ReachInv, Top
<1>3. Awaits(Top, Links)
  BY <1>1 DEF Awaits, Item
<1>4. CASE Top.got = None
  <2>1. file[ref.to].root \in {"absent", "notXml"}
    BY <1>2, <1>3, <1>4 DEF Gets
  <2> QED
    BY <2>1 DEF RefDone, Overlooked, Discovered
<1>5. CASE Top.got # None
  <2>1. PICK t \in Docs : t = Top.got /\ t = urlDocs[ref.to] /\ t # None
    BY <1>1, <1>2, <1>3, <1>5 DEF Gets, FrameType
  <2>2. t \in references[d] \/ inDTS[t] \/ type[t] = "unknown"
    BY <1>1, <2>1 DEF NewlyDiscovered
  <2>3. Settles(t) \/ Misses(d, t) \/ ToFind(stack, d, t)
    BY <1>1, <2>2 DEF Complete, Settles
  <2>4. Settles(t) \/ Misses(d, t) => RefDone(d, ref)
    BY <2>1, GivenDone
  <2> QED
    BY <2>1, <2>3, <2>4
<1> QED
  BY <1>4, <1>5

\* A scan that goes on.
LEMMA SkipsReaches ==
  ASSUME TypeOK, TypeOK', ScanInv, RegistrySound, OutsideInv, ReachInv, [Next]_vars, Skips,
         NEW d \in Docs
  PROVE  Reaches(d)
<1>1. /\ stack # <<>> /\ Top.next <= Len(Items(Top)) /\ Top \in FrameType /\ Top.next \in Nat
      /\ stack' = <<Past(Top)>> \o Callers /\ targetNs' = targetNs
      /\ Callers \in Seq(FrameType) /\ stack = <<Top>> \o Callers
  BY Calls, StackSplit DEF Skips, FrameType
<1>2. PICK f \in FrameType : /\ f = Past(Top) /\ f.doc = Top.doc /\ f.kind = Top.kind
                             /\ f.next = Top.next + 1 /\ ~f.waiting
  BY <1>1, FrameSteps DEF Past, Scan
<1>3. inDTS'[d] => inDTS[d]
  BY DEF Skips, Clears, TypeOK
<1>4. ASSUME NEW i \in Nat
      PROVE  /\ ToMeet(stack, d, i) =>
                   \/ ToMeet(stack', d, i)
                   \/ ScanOf(Top, d) /\ i = Top.next /\ ~Top.waiting
             /\ ToReturn(stack, d, i) => ToReturn(stack', d, i) \/ (ScanOf(Top, d) /\ i = Top.next)
  <2>1. /\ ToMeet(stack, d, i) <=> ((ScanOf(Top, d) /\ ~Reached(Top, i)) \/ ToMeet(Callers, d, i))
        /\ ToReturn(stack, d, i) <=> ((ScanOf(Top, d) /\ i >= Top.next) \/ ToReturn(Callers, d, i))
    BY <1>1, MeetPush
  <2>2. /\ ToMeet(stack', d, i) <=> ((ScanOf(f, d) /\ ~Reached(f, i)) \/ ToMeet(Callers, d, i))
        /\ ToReturn(stack', d, i) <=> ((ScanOf(f, d) /\ i >= f.next) \/ ToReturn(Callers, d, i))
    BY <1>1, <1>2, MeetPush
  <2>3. ScanOf(f, d) <=> ScanOf(Top, d)
    BY <1>2 DEF ScanOf
  <2>4. ~Reached(Top, i) => ~Reached(f, i) \/ (i = Top.next /\ ~Top.waiting)
    BY <1>1, <1>2 DEF Reached
  <2>5. i >= Top.next => i >= f.next \/ i = Top.next
    BY <1>1, <1>2
  <2> QED
    BY <2>1, <2>2, <2>3, <2>4, <2>5
<1>5. ASSUME ScanOf(Top, d)
      PROVE  Item = Ref(d, Top.next) /\ Item = Awaited(Top) /\ d = Top.doc /\ Top.kind # "hints"
  BY <1>1, <1>5, ItemAtTop DEF ScanOf, Ref, Awaited
<1>6. ASSUME inDTS[d], type[d] \in Scanned PROVE Follows(d)
  <2> SUFFICES ASSUME NEW i \in RefsOf(d, Schemas), NEW ref \in Refs, ref = Ref(d, i),
                      ToMeet(stack, d, i), ~ToMeet(stack', d, i)
               PROVE  Meets(d, ref)
    BY DEF Follows
  <2>1. i \in Nat /\ ref.how \in Schemas
    BY DEF RefsOf, Ref
  <2>2. ScanOf(Top, d) /\ i = Top.next /\ ~Top.waiting
    BY <1>4, <2>1
  <2>3. ref = Item /\ d = Top.doc
    BY <1>5, <2>2
  <2>4. ImportNs(d, ref) = None
    BY <2>1, <2>2, <2>3 DEF Skips
  <2>5. ImportNs(d, ref)' = None
    BY <1>1, <2>4 DEF ImportNs
  <2> QED
    BY <2>1, <2>4, <2>5 DEF Meets, RefDone, Overlooked
<1>7. ASSUME inDTS[d], type[d] \in Scanned PROVE Passes(d)
  <2> SUFFICES ASSUME NEW i \in RefsOf(d, Links), ToReturn(stack, d, i), ~ToReturn(stack', d, i)
               PROVE  RefDone(d, Ref(d, i)) \/ ToFind(stack, d, urlDocs[Ref(d, i).to])
    BY DEF Passes
  <2>1. PICK ref \in Refs : i \in Nat /\ ref = Ref(d, i) /\ ref.how \in Links
    BY RefType DEF RefsOf
  <2>2. ScanOf(Top, d) /\ i = Top.next
    BY <1>4, <2>1
  <2>3. ref = Item /\ ref = Awaited(Top) /\ d = Top.doc /\ Top.kind # "hints"
    BY <1>5, <2>1, <2>2
  <2>4. Item.how \in LinkHows /\ Item.how \notin Schemas
    BY <2>1, <2>3 DEF LinkHows, Links, Schemas
  <2>5. ~LinkIgnored
    BY <1>7, <2>3 DEF LinkIgnored
  <2>6. HrefReturns
    BY <2>4, <2>5 DEF Skips, ImportReturns
  <2> QED
    BY <1>7, <2>1, <2>3, <2>6, LinkReturns
<1> QED
  BY <1>3, <1>6, <1>7 DEF Reaches

LEMMA SkipsGets ==
  ASSUME TypeOK, Skips
  PROVE  CallsGet(stack')
<1>1. stack # <<>> /\ stack' = <<Past(Top)>> \o Callers
  BY DEF Skips
<1>2. PICK f \in FrameType : f = Past(Top) /\ ~f.waiting
  BY <1>1, Calls, FrameSteps DEF Past, Scan
<1>3. PICK rest \in Seq(FrameType) : rest = Callers /\ CallsGet(rest)
  BY <1>1, Calls, CallersGet
<1>4. Gets(f)'
  BY <1>2, IdleGets
<1> QED
  BY <1>1, <1>2, <1>3, <1>4, PushGets

\* A link promotes the schema it led to.
LEMMA HrefPromotesReaches ==
  ASSUME TypeOK, TypeOK', ScanInv, Grows, HrefPromotes, NEW d \in Docs
  PROVE  Reaches(d) /\ CallsGet(stack')
<1>1. Top.got \in Docs /\ type[Top.got] = "schema"
  BY HrefPromotesScans
<1>2. PICK f \in FrameType : /\ f = Frame(Top.got, "rescan") /\ f.doc = Top.got /\ ~f.waiting
                             /\ f.next = 1 /\ f.kind # "hints"
  BY <1>1, FrameSteps DEF Frame, Scan
<1>3. PICK s \in Seq(FrameType) : s = stack
  BY DEF TypeOK
<1>4. stack' = <<f>> \o s /\ inDTS' = [inDTS EXCEPT ![Top.got] = TRUE] /\ stack # <<>>
  BY <1>1, <1>2, <1>3 DEF HrefPromotes, Promote, Returned
<1>5. Follows(d) /\ Passes(d)
  BY <1>3, <1>4, PushReaches
<1>6. inDTS'[d] /\ ~inDTS[d] => Rescans(d)
  <2>1. inDTS'[d] /\ ~inDTS[d] => d = f.doc
    BY <1>1, <1>2, <1>4 DEF TypeOK
  <2> QED
    BY <1>2, <1>3, <1>4, <2>1, Begins
<1>7. Gets(f)'
  BY <1>2, IdleGets
<1>8. CallsGet(s)
  BY <1>3, <1>4, CallersGet
<1> QED
  BY <1>2, <1>3, <1>4, <1>5, <1>6, <1>7, <1>8, PushGets DEF Reaches

\* A scan that has come to its end has nothing before it.
LEMMA ReturnReaches ==
  ASSUME TypeOK, Return, NEW d \in Docs
  PROVE  Reaches(d) /\ CallsGet(stack')
<1>1. /\ stack # <<>> /\ Top.next > Len(Items(Top)) /\ stack' = Callers /\ inDTS' = inDTS
      /\ Top \in FrameType /\ Top.next \in Nat /\ Callers \in Seq(FrameType)
      /\ stack = <<Top>> \o Callers
  BY Calls, StackSplit DEF Return, docVars, FrameType
<1>2. file[d].refs \in Seq(Refs)
  BY DEF TypeOK, Files
<1>3. ASSUME NEW hows, NEW i \in RefsOf(d, hows)
      PROVE  /\ ToMeet(stack, d, i) => ToMeet(stack', d, i)
             /\ ToReturn(stack, d, i) => ToReturn(stack', d, i)
  <2>1. i \in 1..Len(file[d].refs)
    BY DEF RefsOf
  <2>2. ScanOf(Top, d) => i < Top.next
    BY <1>1, <1>2, <2>1 DEF ScanOf, Items
  <2>3. ScanOf(Top, d) => Reached(Top, i) /\ ~(i >= Top.next)
    BY <1>1, <1>2, <2>1, <2>2 DEF Reached
  <2> QED
    BY <1>1, <2>3, MeetPush
<1>4. Follows(d) /\ Passes(d)
  BY <1>3 DEF Follows, Passes
<1>5. CallsGet(stack')
  BY <1>1, CallersGet
<1> QED
  BY <1>1, <1>4, <1>5 DEF Reaches

\* The pairs of a document are not its references.
LEMMA LocateReaches ==
  ASSUME TypeOK, LocateSchemas, NEW d \in Docs
  PROVE  Reaches(d) /\ CallsGet(stack')
<1>1. /\ stack = <<>> /\ inDTS' = inDTS /\ stack' = <<Frame(order[located + 1], "hints")>>
  BY DEF LocateSchemas, docVars
<1>2. \A i : ~ToMeet(stack, d, i) /\ ~ToReturn(stack, d, i)
  BY <1>1 DEF ToMeet, ToReturn
<1>3. Follows(d) /\ Passes(d)
  BY <1>2 DEF Follows, Passes
<1>4. PICK f : f = Frame(order[located + 1], "hints") /\ ~f.waiting
  <2>1. ~Frame(order[located + 1], "hints").waiting
    BY DEF Frame, Scan
  <2> QED
    BY <2>1
<1>5. Gets(f)'
  BY <1>4, IdleGets
<1>6. Len(stack') = 1 /\ \A k \in 1..1 : stack'[k] = f
  BY <1>1, <1>4
<1>7. CallsGet(stack')
  BY <1>5, <1>6 DEF CallsGet
<1> QED
  BY <1>1, <1>3, <1>7 DEF Reaches

\* The entry point is scanned.
LEMMA EntersReaches ==
  ASSUME TypeOK, ScanInv, Enters, NEW d \in Docs
  PROVE  Reaches(d) /\ CallsGet(stack')
<1>1. /\ stack = <<>> /\ ~inDTS[d] /\ Entry \in Docs
      /\ NewDocument(Entry, TRUE, FALSE, FALSE, None, <<>>)
  BY DocsAssumption DEF Enters, ScanInv, DocsOk, Made
<1>2. PICK f \in FrameType : /\ f = Frame(Entry, "new") /\ f.doc = Entry /\ ~f.waiting
                             /\ f.next = 1 /\ f.kind # "hints"
  BY <1>1, FrameSteps DEF Frame, Scan
<1>3. PICK s \in Seq(FrameType) : s = <<>>
  <2>1. <<>> \in Seq(FrameType)
    OBVIOUS
  <2> QED
    BY <2>1
<1>4. /\ type' = [type EXCEPT ![Entry] = TypeOf(Entry, TRUE, FALSE)]
      /\ stack' = IF TypeOf(Entry, TRUE, FALSE) = "unknown" THEN s ELSE <<f>> \o s
      /\ \E b : inDTS' = [inDTS EXCEPT ![Entry] = b]
  BY <1>1, <1>2, <1>3 DEF NewDocument
<1>5. ASSUME inDTS'[d], type'[d] \in Scanned PROVE Rescans(d)
  <2>1. d = Entry
    BY <1>1, <1>4, <1>5 DEF TypeOK
  <2>2. stack' = <<f>> \o s
    BY <1>1, <1>4, <1>5, <2>1 DEF TypeOK, Scanned
  <2> QED
    BY <1>2, <2>1, <2>2, Begins
<1>6. CallsGet(s)
  BY <1>3 DEF CallsGet
<1>7. Gets(f)'
  BY <1>2, IdleGets
<1>8. CallsGet(stack')
  <2>1. CASE stack' = s
    BY <1>6, <2>1
  <2>2. CASE stack' = <<f>> \o s
    BY <1>2, <1>6, <1>7, <2>2, PushGets
  <2> QED
    BY <1>4, <2>1, <2>2
<1> QED
  BY <1>1, <1>5, <1>8 DEF Reaches

\* Every step.
LEMMA NextReaches ==
  ASSUME TypeOK, TypeOK', ScanInv, ScanInv', RegistrySound, RegistrySound', OutsideInv, OutsideInv',
         ReachInv, [Next]_vars, NEW d \in Docs
  PROVE  Reaches(d) /\ CallsGet(stack')
<1>0. Grows /\ Kinds
  BY NextKinds
<1>1. CASE Rests
  <2>1. stack' = stack /\ inDTS' = inDTS
    BY <1>1 DEF Rests, docVars
  <2>2. CallsGet(stack')
    BY <2>1 DEF CallsGet
  <2> QED
    BY <2>1, <2>2 DEF Reaches, Follows, Passes
<1>2. CASE Skips
  BY <1>2, SkipsReaches, SkipsGets
<1>3. CASE LoadsOne
  <2>1. PICK u \in Docs, discovered \in BOOLEAN, included \in BOOLEAN,
             expected \in Namespaces \cup {None} : Loads(u, discovered, included, expected)
    BY <1>3 DEF LoadsOne
  <2>2. Reaches(d)
    BY <2>1, LoadReaches
  <2>3. CallsGet(stack')
    BY <2>1, LoadGets
  <2> QED
    BY <2>2, <2>3
<1>4. CASE HrefPromotes
  BY <1>0, <1>4, HrefPromotesReaches
<1>5. CASE Return
  BY <1>5, ReturnReaches
<1>6. CASE LocateSchemas
  BY <1>6, LocateReaches
<1>7. CASE Enters
  BY <1>7, EntersReaches
<1>8. CASE \E doc \in Docs : Takes(doc) \/ TakesAndPromotes(doc)
  BY <1>0, <1>8, TakeReaches, TakeGets
<1> QED
  BY <1>0, <1>1, <1>2, <1>3, <1>4, <1>5, <1>6, <1>7, <1>8 DEF Kinds

\* A document gets a further reference where an import or a link of it returns.
LEMMA ReferencesGrow ==
  ASSUME TypeOK, [Next]_vars, NEW d \in Docs, NEW t \in references'[d], t \notin references[d]
  PROVE  /\ d = Top.doc /\ t = Top.got /\ t # None /\ Returned
         /\ \/ Item.how \in Schemas
            \/ Item.how \in Links /\ ~NewlyDiscovered
<1>1. references' # references
  OBVIOUS
<1>2. ImportReturns \/ (HrefReturns /\ Item.how \in Links)
  <2>1. ImportReturns \/ HrefReturns
    BY <1>1 DEF Next, vars, LoadEntry, Import, IgnoreLink, Href, Element, Xbrldi, Hint, HrefPromotes,
                HintReturns, Return, EntryLoaded, LocateSchemas, Finish
  <2> QED
    BY <1>1, <2>1 DEF HrefReturns
<1>3. Refer(Top.got)
  BY <1>2 DEF ImportReturns, HrefReturns
<1>4. d = Top.doc /\ t = Top.got /\ t # None
  BY <1>3 DEF Refer, TypeOK
<1> QED
  BY <1>2, <1>4 DEF ImportReturns, HrefReturns

LEMMA NewReference ==
  ASSUME TypeOK, ScanInv, ReachInv, [Next]_vars, NEW d \in Docs, NEW t \in references'[d],
         t \notin references[d]
  PROVE  /\ t \in Docs /\ Made(d) /\ Made(t)
         /\ Settles(t) \/ \E j \in Asks(d) : t \in Targets(Ref(d, j))
         /\ inDTS[d] => Settles(t) \/ Misses(d, t) \/ ToFind(stack, d, t)
<1>1. /\ d = Top.doc /\ t = Top.got /\ t # None /\ Returned
      /\ \/ Item.how \in Schemas
         \/ Item.how \in Links /\ ~NewlyDiscovered
  BY ReferencesGrow
<1>2. /\ stack # <<>> /\ Top.next <= Len(Items(Top)) /\ Top.waiting /\ Top \in FrameType
      /\ FrameOk(Top)
  BY <1>1, TopOk DEF Returned, ScanInv
<1>3. Gets(Top)
  BY <1>2 DEF TypeOK, ReachInv, Top
<1>4. t \in Docs /\ Made(d) /\ Made(t)
  BY <1>1, <1>2 DEF FrameOk, FrameType
<1>5. Top.kind # "hints"
  BY <1>1, <1>2, ItemAtTop DEF Schemas, Links
<1>6. Top.next \in 1..Len(file[d].refs) /\ Item = Ref(d, Top.next) /\ Item = Awaited(Top)
  BY <1>1, <1>2, <1>5, ItemAtTop DEF Ref, Awaited
<1>7. CASE Item.how \in Links /\ ~NewlyDiscovered
  <2>1. inDTS[t] \/ type[t] = "unknown"
    BY <1>1, <1>7 DEF NewlyDiscovered
  <2> QED
    BY <1>4, <2>1 DEF Settles
<1>8. CASE Item.how \in Schemas
  <2>1. PICK j : j = Top.next
    OBVIOUS
  <2>2. Awaits(Top, Schemas)
    BY <1>2, <1>8 DEF Awaits, Item
  <2>3. /\ ImportNs(d, Ref(d, j)) # None /\ t \in Targets(Ref(d, j))
        /\ inDTS[d] => Settles(t) \/ ~Finds(d, Ref(d, j), t) \/ ToMeet(stack, d, j)
    BY <1>1, <1>3, <1>5, <1>6, <2>1, <2>2 DEF Gets
  <2>4. j \in RefsOf(d, Schemas) /\ j \in Asks(d)
    BY <1>6, <1>8, <2>1, <2>3 DEF RefsOf, Asks, Ref
  <2>5. inDTS[d] => Settles(t) \/ Misses(d, t) \/ ToFind(stack, d, t)
    BY <2>3, <2>4 DEF Misses, ToFind
  <2> QED
    BY <1>4, <2>3, <2>4, <2>5
<1> QED
  BY <1>1, <1>7, <1>8

\* Every step keeps what each reference waits for.
LEMMA ReachStep ==
  ASSUME TypeOK, TypeOK', ScanInv, ScanInv', RegistrySound, RegistrySound', OutsideInv, OutsideInv',
         ReachInv, [Next]_vars
  PROVE  ReachInv'
<1>0. file' = file /\ Lasting
  BY LastingStep DEF Lasting
<1>1. ASSUME NEW d \in Docs PROVE ReferencesOk(d)'
  <2> SUFFICES ASSUME NEW t \in references'[d]
               PROVE  /\ Made(d)' /\ Made(t)'
                      /\ Settles(t)' \/ \E j \in Asks(d)' : t \in Targets(Ref(d, j))'
    BY DEF ReferencesOk
  <2>1. CASE t \in references[d]
    BY <2>1, ReferencesKept DEF ReachInv
  <2>2. CASE t \notin references[d]
    <3>1. /\ t \in Docs /\ Made(d) /\ Made(t)
          /\ Settles(t) \/ \E j \in Asks(d) : t \in Targets(Ref(d, j))
      BY <2>2, NewReference
    <3>2. Made(d)' /\ Made(t)'
      BY <1>0, <3>1, DocsAssumption DEF Lasting, Made
    <3>3. Settles(t) => Settles(t)'
      BY <3>1, SettlesStep
    <3>4. ASSUME NEW j \in Asks(d), t \in Targets(Ref(d, j))
          PROVE  j \in Asks(d)' /\ t \in Targets(Ref(d, j))'
      <4>1. PICK ref : ref = Ref(d, j)
        OBVIOUS
      <4>2. t \in Targets(ref)' /\ ref = Ref(d, j)' /\ j \in Asks(d)'
        BY <1>0, <3>1, <3>4, <4>1, SameRefs, AsksStep
      <4> QED
        BY <4>2
    <3> QED
      BY <3>1, <3>2, <3>3, <3>4
  <2> QED
    BY <2>1, <2>2
<1>2. ASSUME NEW d \in Docs, inDTS'[d], type'[d] \in Scanned PROVE Complete(d)'
  <2>1. Reaches(d) /\ ReferencesOk(d)'
    BY <1>1, NextReaches
  <2>2. CASE Rescans(d)
    BY <1>0, <2>1, <2>2, CompleteRescanned
  <2>3. CASE inDTS[d]
    <3>1. Made(d) /\ type[d] \in Scanned
      BY <1>0, <1>2, <2>3 DEF ScanInv, DocsOk, Lasting
    <3>2. Complete(d) /\ ReferencesOk(d) /\ Follows(d) /\ Passes(d)
      BY <2>1, <2>3, <3>1 DEF ReachInv, Reaches
    <3>3. /\ \A i \in RefsOf(d, Schemas)' : RefDone(d, Ref(d, i))' \/ ToMeet(stack, d, i)'
          /\ \A i \in RefsOf(d, Links)' : \/ RefDone(d, Ref(d, i))' \/ ToReturn(stack, d, i)'
                                          \/ ToFind(stack, d, urlDocs[Ref(d, i).to])'
          /\ \A t \in references[d] : Settles(t)' \/ Misses(d, t)' \/ ToFind(stack, d, t)'
      BY <3>1, <3>2, CompleteKept
    <3>4. ASSUME NEW t \in references'[d], t \notin references[d]
          PROVE  Settles(t)' \/ Misses(d, t)' \/ ToFind(stack, d, t)'
      <4>1. t \in Docs /\ Made(t) /\ (Settles(t) \/ Misses(d, t) \/ ToFind(stack, d, t))
        BY <2>3, <3>4, NewReference
      <4>2. CASE Settles(t)
        BY <4>1, <4>2, SettlesStep
      <4>3. CASE Misses(d, t)
        BY <3>1, <4>1, <4>3, MissesStep
      <4>4. CASE ToFind(stack, d, t)
        BY <3>1, <3>2, <4>1, <4>4, ToFindStep DEF Settles
      <4> QED
        BY <4>1, <4>2, <4>3, <4>4
    <3> QED
      BY <3>3, <3>4 DEF Complete
  <2> QED
    BY <1>2, <2>1, <2>2, <2>3 DEF Reaches
<1>3. ASSUME NEW k \in 1..Len(stack'), NEW f, f = stack'[k] PROVE Gets(f)'
  <2>1. CASE \E m \in 1..Len(stack) : f = stack[m]
    <3>1. f \in FrameType /\ FrameOk(f) /\ Gets(f)
      BY <2>1 DEF TypeOK, ScanInv, StackOk, ReachInv
    <3>2. PICK d \in Docs : d = f.doc
      BY <3>1 DEF FrameType
    <3>3. Reaches(d)
      BY NextReaches
    <3>4. ASSUME f.kind # "hints", inDTS'[d] PROVE Rescans(d) \/ (inDTS[d] /\ Follows(d))
      <4>1. Made(d) /\ type[d] \in Scanned
        BY <3>1, <3>2, <3>4 DEF FrameOk
      <4>2. type'[d] \in Scanned
        BY <1>0, <4>1 DEF Lasting
      <4> QED
        BY <3>3, <3>4, <4>1, <4>2 DEF Reaches
    <3> QED
      BY <3>1, <3>2, <3>4, GetsKept
  <2>2. CASE ~\E m \in 1..Len(stack) : f = stack[m]
    <3>1. CallsGet(stack')
      BY DocsAssumption, NextReaches
    <3> QED
      BY <1>3, <2>2, <3>1 DEF CallsGet
  <2> QED
    BY <2>1, <2>2
<1> QED
  BY <1>1, <1>2, <1>3 DEF ReachInv

LEMMA ReachRight == Spec => []ReachInv
<1>1. Init => ReachInv
  BY DEF Init, ReachInv, ReferencesOk
<1> QED
  BY <1>1, ReachStep, TypeCorrect, RegistryCorrect, ScansRight, OutsideRight, PTL DEF Spec

\* For any taxonomy: when the load has ended whatever a document of the DTS imports,
\* includes or links to is discovered, but for what Overlooked names, in whatever order the
\* references and the schemaLocations came to it.
THEOREM NothingIsMissed == Spec => []DtsComplete
<1>1. TypeOK /\ ScanInv /\ ReachInv /\ (phase = "done" => stack = <<>>) => DtsComplete
  <2> SUFFICES ASSUME TypeOK, ScanInv, ReachInv, stack = <<>>,
                      NEW d \in Docs, inDTS[d], type[d] # "unknown", NEW ref \in Refers(d)
               PROVE  RefDone(d, ref)
    BY DEF DtsComplete, RefDone
  <2>1. type[d] \in Scanned
    BY DEF ScanInv, DocsOk, DocOk, TypeOK, Types, Scanned
  <2>2. Complete(d)
    BY <2>1 DEF ReachInv
  <2>3. PICK i \in 1..Len(file[d].refs) : ref = Ref(d, i) /\ ref.how \in Schemas \cup Links
    BY DEF Refers, Ref
  <2>4. /\ \A j : ~ToMeet(stack, d, j) /\ ~ToReturn(stack, d, j)
        /\ \A t : ~ToFind(stack, d, t)
    BY DEF ToMeet, ToReturn, ToFind
  <2>5. i \in RefsOf(d, Schemas) \/ i \in RefsOf(d, Links)
    BY <2>3 DEF RefsOf, Ref
  <2> QED
    BY <2>2, <2>3, <2>4, <2>5 DEF Complete
<1> QED
  BY <1>1, TypeCorrect, ScansRight, ReachRight, DoneIdle, PTL

=============================================================================
