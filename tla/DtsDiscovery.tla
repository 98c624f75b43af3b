---------------------------- MODULE DtsDiscovery ----------------------------
(***************************************************************************)
(* How arelle/ModelDocument.py discovers a DTS (discoverable taxonomy set):  *)
(* load() reads a document once and follows its references depth first,      *)
(* calling itself from imports, hrefs and, through the parser's class        *)
(* lookup, from elements whose schema is not loaded yet.  The Python call     *)
(* stack is the variable stack; a step is the work on one reference up to     *)
(* the next nested call, or what follows the return of that call.            *)
(*                                                                         *)
(* What a document holds is chosen in Init and never changes: its root       *)
(* element, its target namespace, its references in the order in which the    *)
(* code visits them, and its xsi:schemaLocation pairs (hints).               *)
(***************************************************************************)
EXTENDS Naturals, Sequences, FiniteSets

CONSTANTS
    Docs,           \* normalized URLs
    Entry,          \* the URL given to ModelXbrl.load
    Namespaces,     \* target namespaces
    BaseName,       \* URL -> its last segment
    NsBaseName,     \* namespace -> its last segment
    XbrldiDoc,      \* http://www.xbrl.org/2006/xbrldi-2006.xsd
    XbrldiNs,       \* http://xbrl.org/2006/xbrldi
    Taxonomies,     \* functions from URL to the file there, one is chosen
    None            \* no document, no namespace

Schemas == {"import", "include"}                        \* xs:import; xs:include, xs:redefine
Links == {"schemaRef", "linkbaseRef", "roleRef", "loc"} \* followed by discoverHref
Hows == Schemas \cup Links \cup
        {"locator",     \* an xlink:locator that is not link:loc
         "element",     \* an element of another namespace
         "xbrldi"}      \* the first xbrldi element of an instance
Roots == {"schema", "linkbase", "xbrl", "otherXml", "notXml", "absent"}
Refs == [how : Hows, to : Docs, ns : Namespaces \cup {None}]
Hints == [ns : Namespaces, to : Docs]
Files == [root : Roots, ns : Namespaces \cup {None}, refs : Seq(Refs), hints : Seq(Hints)]
Types == {"unknown", "schema", "linkbase", "instance"}

ASSUME DocsAssumption ==
    /\ IsFiniteSet(Docs) /\ Entry \in Docs /\ XbrldiDoc \in Docs
    /\ XbrldiNs \in Namespaces
    /\ None \notin Docs \cup Namespaces \cup Types
ASSUME TaxonomiesAssumption == Taxonomies \subseteq [Docs -> Files]

VARIABLES
    file,           \* URL -> the file there
    phase,          \* of ModelXbrl.load
    stack,          \* calls in progress, the innermost first
    urlDocs,        \* URL -> the document it was loaded as
    order,          \* the documents in the order they were made
    type,           \* ModelDocument.type
    inDTS,          \* ModelDocument.inDTS
    targetNs,       \* ModelDocument.targetNamespace
    namespaceDocs,  \* namespace -> its schemas, in the order they were made
    asked,          \* namespaces for which an import made a key of that defaultdict
    unloadable,     \* urlUnloadableDocs
    attempted,      \* discoveryAttempts of the document's class lookup
    references,     \* keys of referencesDocument
    located,        \* how many documents loadSchemalocatedSchemas has taken
    toValidate,     \* schemaDocsToValidate
    validated,      \* taken from it
    processed,      \* history: <<document, reference>> whose link was processed
    again,          \* history: those processed more than once
    outside         \* history: documents made outside of the DTS

docVars == <<urlDocs, order, type, inDTS, targetNs, namespaceDocs, outside>>
history == <<processed, again>>
vars == <<file, phase, stack, docVars, asked, unloadable, attempted, references, located,
          toValidate, validated, history>>

Init ==
    /\ file \in Taxonomies
    /\ phase = "start" /\ stack = <<>>
    /\ urlDocs = [d \in Docs |-> None] /\ order = <<>>
    /\ type = [d \in Docs |-> None]
    /\ inDTS = [d \in Docs |-> FALSE]
    /\ targetNs = [d \in Docs |-> None]
    /\ namespaceDocs = [n \in Namespaces \cup {None} |-> <<>>]
    /\ asked = {} /\ unloadable = {} /\ attempted = [d \in Docs |-> {}]
    /\ references = [d \in Docs |-> {}]
    /\ located = 0 /\ toValidate = {} /\ validated = {}
    /\ processed = {} /\ again = {} /\ outside = {}

-----------------------------------------------------------------------------
(* Frames of the stack: a scan of the references of a document, or of its    *)
(* hints.  waiting: a nested call was made for the next one and got is what   *)
(* it returns.                                                              *)

Scan(d, k, n) == [doc |-> d, kind |-> k, next |-> n, waiting |-> FALSE, got |-> None]
Frame(d, k) == Scan(d, k, 1)
Past(f) == Scan(f.doc, f.kind, f.next + 1)
Waiting(f, d) == [doc |-> f.doc, kind |-> f.kind, next |-> f.next, waiting |-> TRUE, got |-> d]

Top == stack[1]
Callers == Tail(stack)
HintRefs(d) == [i \in 1..Len(file[d].hints) |->
                   [how |-> "hint", to |-> file[d].hints[i].to, ns |-> file[d].hints[i].ns]]
Items(f) == IF f.kind = "hints" THEN HintRefs(f.doc) ELSE file[f.doc].refs
Item == Items(Top)[Top.next]
AtItem == stack # <<>> /\ Top.next <= Len(Items(Top)) /\ ~Top.waiting
Returned == stack # <<>> /\ Top.next <= Len(Items(Top)) /\ Top.waiting

\* Mutant of Known: a schema that was loaded leaves its namespace unknown.
KnownOnlyByImports(n) == n \in asked

\* n in modelXbrl.namespaceDocs
Known(n) == n \in asked \/ namespaceDocs[n] # <<>>

-----------------------------------------------------------------------------
(* load() of a URL that is not in urlDocs.                                   *)

\* "type classification": a linkbase is one only when it is discovered.
TypeOf(u, entry, discovered) ==
    LET root == file[u].root
    IN  CASE root = "schema" -> "schema"
          [] root = "linkbase" /\ (entry \/ discovered) -> "linkbase"
          [] root = "xbrl" /\ entry -> "instance"
          [] OTHER -> "unknown"

\* The schema already loaded "under a different url", or None.
Copy(u, included) ==
    LET same == namespaceDocs[file[u].ns]
    IN  IF /\ file[u].root = "schema" /\ file[u].ns # None /\ ~included
           /\ same # <<>> /\ BaseName[same[1]] = BaseName[u]
        THEN same[1] ELSE None

\* schemaDiscover of a schema with no target namespace appends it, when it is
\* included, to namespaceDocs[None].
Register(u, included, expected) ==
    IF file[u].root = "schema" /\ (file[u].ns # None \/ (included /\ expected # None))
    THEN namespaceDocs' = [namespaceDocs EXCEPT ![file[u].ns] = Append(@, u)]
    ELSE UNCHANGED namespaceDocs

\* ModelDocument(...), then the part of its discovery before its references.
NewDocument(u, entry, discovered, included, expected, callers) ==
    LET ty == TypeOf(u, entry, discovered)
        xml == file[u].root # "notXml"
    IN  /\ urlDocs' = [urlDocs EXCEPT ![u] = u]
        /\ order' = Append(order, u)
        /\ type' = [type EXCEPT ![u] = ty]
        /\ inDTS' = [inDTS EXCEPT ![u] = xml /\ (entry \/ discovered)]
        /\ outside' = IF inDTS'[u] THEN outside ELSE outside \cup {u}
        /\ targetNs' = [targetNs EXCEPT ![u] =
               IF ty # "schema" THEN None
               ELSE IF file[u].ns = None /\ included THEN expected ELSE file[u].ns]
        /\ Register(u, included, expected)
        /\ stack' = IF ty = "unknown" THEN callers
                    ELSE <<Frame(u, IF included THEN "included" ELSE "new")>> \o callers

\* load(u, ...) called from the reference at the top of the stack.  urlDocs is keyed by
\* the local file of u, which is taken to be another one for each u.
Load(u, discovered, included, expected) ==
    LET returning(d) == <<Waiting(Top, d)>> \o Callers
        loadable == u \notin unloadable /\ file[u].root # "absent"
    IN  \/ /\ urlDocs[u] # None                     \* loaded
           /\ stack' = returning(urlDocs[u])
           /\ UNCHANGED <<docVars, unloadable>>
        \/ /\ urlDocs[u] = None /\ ~loadable
           /\ unloadable' = unloadable \cup {u}
           /\ stack' = returning(None)
           /\ UNCHANGED docVars
        \/ /\ urlDocs[u] = None /\ loadable /\ Copy(u, included) # None
           /\ urlDocs' = [urlDocs EXCEPT ![u] = Copy(u, included)]
           /\ stack' = returning(Copy(u, included))
           /\ UNCHANGED <<order, type, inDTS, targetNs, namespaceDocs, outside, unloadable>>
        \/ /\ urlDocs[u] = None /\ loadable /\ Copy(u, included) = None
           /\ NewDocument(u, FALSE, discovered, included, expected, returning(u))
           /\ UNCHANGED unloadable

\* A document of the entry point's load found that it is in the DTS after all.
Promote(d) == inDTS' = [inDTS EXCEPT ![d] = TRUE]

-----------------------------------------------------------------------------
\* ModelXbrl.load: the entry point.
LoadEntry ==
    /\ phase = "start"
    /\ phase' = "discover"
    /\ IF file[Entry].root \in {"absent", "notXml"}
       THEN unloadable' = {Entry} /\ UNCHANGED <<docVars, stack>>
       ELSE /\ NewDocument(Entry, TRUE, FALSE, FALSE, None, <<>>)
            /\ UNCHANGED unloadable
    /\ UNCHANGED <<file, asked, attempted, references, located, toValidate, validated, history>>

\* The namespace an import or include asks for; without one it is ignored.
ImportNs(d, ref) == IF ref.how = "include" THEN targetNs[d] ELSE ref.ns

\* What the loop over namespaceDocs[importNamespace] leaves in doc: the schema
\* of that URL, or else the last one if an import takes its name for it.
Match(ref, n) ==
    LET same == namespaceDocs[n]
        last == same[Len(same)]
    IN  IF \E i \in 1..Len(same) : same[i] = ref.to THEN ref.to
        ELSE IF same # <<>> /\ ref.how = "import" /\ BaseName[last] = NsBaseName[n]
             THEN last ELSE None

\* importDiscover, up to its call of load or of schemaDiscoverChildElements.
Import ==
    /\ AtItem /\ Item.how \in Schemas
    /\ LET n == ImportNs(Top.doc, Item)
           doc == Match(Item, n)
           fresh == doc # None /\ inDTS[Top.doc] /\ ~inDTS[doc]
           call == <<Waiting(Top, doc)>> \o Callers
       IN  /\ \/ /\ n = None
                 /\ stack' = <<Past(Top)>> \o Callers
                 /\ UNCHANGED <<docVars, unloadable>>
              \/ /\ n # None /\ doc = None
                 /\ Load(Item.to, inDTS[Top.doc], Item.how = "include", n)
              \/ /\ n # None /\ doc # None /\ ~fresh
                 /\ stack' = call
                 /\ UNCHANGED <<docVars, unloadable>>
              \/ /\ n # None /\ fresh
                 /\ Promote(doc)
                 /\ stack' = <<Frame(doc, "rescan")>> \o call
                 /\ UNCHANGED <<urlDocs, order, type, targetNs, namespaceDocs, outside, unloadable>>
           /\ asked' = asked \cup ({n} \ {None})
    /\ UNCHANGED <<file, phase, attempted, references, located, toValidate, validated, history>>

\* Mutant of LinkIgnored: the test of inDTS in schemaDiscoverChildElements is dropped.
LinkNeverIgnored == Item.how \in Links \cup {"locator"} /\ stack = <<>>

\* A link in a schema counts only while that schema is in the DTS.
LinkIgnored ==
    Item.how \in Links \cup {"locator"} /\ file[Top.doc].root = "schema" /\ ~inDTS[Top.doc]

IgnoreLink ==
    /\ AtItem /\ LinkIgnored
    /\ stack' = <<Past(Top)>> \o Callers
    /\ UNCHANGED <<file, phase, docVars, unloadable, asked, attempted, references, located,
                   toValidate, validated, history>>

\* discoverHref, up to its call of load.
Href ==
    /\ AtItem /\ Item.how \in Links \cup {"locator"} /\ ~LinkIgnored
    /\ Load(Item.to, Item.how # "locator", FALSE, None)
    /\ processed' = processed \cup {<<Top.doc, Top.next>>}
    /\ again' = again \cup ({<<Top.doc, Top.next>>} \cap processed)
    /\ UNCHANGED <<file, phase, asked, attempted, references, located, toValidate, validated>>

\* DiscoveringClassLookup.lookup: an element of a namespace not yet known.
Element ==
    /\ AtItem /\ Item.how = "element"
    /\ LET hints == {i \in 1..Len(file[Top.doc].hints) : file[Top.doc].hints[i].ns = Item.ns}
           asks == Item.ns \notin attempted[Top.doc] /\ ~Known(Item.ns)
       IN  /\ attempted' = [attempted EXCEPT ![Top.doc] =
                                IF asks THEN @ \cup {Item.ns} ELSE @]
           /\ \/ /\ asks
                 /\ \E i \in hints : /\ \A j \in hints : i <= j
                                     /\ Load(file[Top.doc].hints[i].to, FALSE, FALSE, Item.ns)
              \/ /\ ~asks \/ hints = {}
                 /\ stack' = <<Past(Top)>> \o Callers
                 /\ UNCHANGED <<docVars, unloadable>>
    /\ UNCHANGED <<file, phase, asked, references, located, toValidate, validated, history>>

\* schemaLinkbaseRefsDiscover's load of the xbrldi schema.
Xbrldi ==
    /\ AtItem /\ Item.how = "xbrldi"
    /\ Load(XbrldiDoc, FALSE, FALSE, XbrldiNs)
    /\ UNCHANGED <<file, phase, asked, attempted, references, located, toValidate, validated, history>>

\* ModelDocument.loadSchemalocatedSchemas: one xsi:schemaLocation pair.
Hint ==
    /\ AtItem /\ Item.how = "hint"
    /\ IF Known(Item.ns)
       THEN stack' = <<Past(Top)>> \o Callers /\ UNCHANGED <<docVars, unloadable>>
       ELSE Load(Item.to, FALSE, FALSE, Item.ns)
    /\ UNCHANGED <<file, phase, asked, attempted, references, located, toValidate, validated, history>>

-----------------------------------------------------------------------------
\* What follows the nested call: Top.got is its result.

Refer(d) == references' = [references EXCEPT ![Top.doc] = @ \cup ({d} \ {None})]

\* importDiscover: addDocumentReference.
ImportReturns ==
    /\ Returned /\ Item.how \in Schemas
    /\ Refer(Top.got)
    /\ stack' = <<Past(Top)>> \o Callers
    /\ UNCHANGED <<file, phase, docVars, unloadable, asked, attempted, located, toValidate,
                   validated, history>>

\* Mutant of NewlyDiscovered: nonDTS is not looked at.
NewlyDiscoveredByLocator ==
    /\ Item.how \in Links \cup {"locator"} /\ Top.got # None
    /\ Top.got \notin references[Top.doc]
    /\ ~inDTS[Top.got] /\ type[Top.got] # "unknown"

\* discoverHref: a document loaded outside of the DTS is "now known to be discovered".
NewlyDiscovered ==
    /\ Item.how \in Links /\ Top.got # None
    /\ Top.got \notin references[Top.doc]
    /\ ~inDTS[Top.got] /\ type[Top.got] # "unknown"

\* Mutant of HrefPromotes: the schema's links are not discovered after all.
HrefPromotesOnly ==
    /\ Returned /\ NewlyDiscovered
    /\ Promote(Top.got)
    /\ UNCHANGED <<file, phase, stack, urlDocs, order, type, targetNs, namespaceDocs, outside,
                   asked, unloadable, attempted, references, located, toValidate, validated,
                   history>>

\* Mutant of HrefPromotes: the schema is discovered again but not marked.
HrefRescans ==
    /\ Returned /\ NewlyDiscovered
    /\ stack' = <<Frame(Top.got, "rescan")>> \o stack
    /\ UNCHANGED <<file, phase, docVars, asked, unloadable, attempted, references, located,
                   toValidate, validated, history>>

HrefPromotes ==
    /\ Returned /\ NewlyDiscovered
    /\ Promote(Top.got)
    /\ stack' = (IF type[Top.got] = "schema" THEN <<Frame(Top.got, "rescan")>> ELSE <<>>) \o stack
    /\ UNCHANGED <<file, phase, urlDocs, order, type, targetNs, namespaceDocs, outside, asked, unloadable,
                   attempted, references, located, toValidate, validated, history>>

HrefReturns ==
    /\ Returned /\ Item.how \in Links \cup {"locator"} /\ ~NewlyDiscovered
    /\ IF Item.how \in Links THEN Refer(Top.got) ELSE UNCHANGED references
    /\ stack' = <<Past(Top)>> \o Callers
    /\ UNCHANGED <<file, phase, docVars, unloadable, asked, attempted, located, toValidate,
                   validated, history>>

\* loadSchemalocatedSchema: what was loaded for a schemaLocation is not in the DTS.
Expected == IF Item.how = "xbrldi" THEN XbrldiNs ELSE Item.ns

HintReturns ==
    /\ Returned /\ Item.how \in {"element", "xbrldi", "hint"}
    /\ IF Top.got # None /\ targetNs[Top.got] = Expected
       THEN inDTS' = [inDTS EXCEPT ![Top.got] = FALSE]
       ELSE UNCHANGED inDTS
    /\ stack' = <<Past(Top)>> \o Callers
    /\ UNCHANGED <<file, phase, urlDocs, order, type, targetNs, namespaceDocs, outside, asked, unloadable,
                   attempted, references, located, toValidate, validated, history>>

\* Mutant of Queue: the first schema of a namespace is queued alone.
QueueFirst(f) ==
    IF f.kind = "new" /\ type[f.doc] = "schema" THEN {f.doc} ELSE {}

\* The end of schemaDiscover queues the schemas to validate, unless it was included.
Queue(f) ==
    LET n == file[f.doc].ns
    IN  IF f.kind # "new" \/ type[f.doc] # "schema" THEN {}
        ELSE IF n = None THEN {f.doc}
        ELSE IF namespaceDocs[n][1] = f.doc
             THEN {namespaceDocs[n][i] : i \in 1..Len(namespaceDocs[n])}
             ELSE {}

\* A document has no further references: its call returns.
Return ==
    /\ stack # <<>> /\ Top.next > Len(Items(Top))
    /\ toValidate' = toValidate \cup Queue(Top)
    /\ stack' = Callers
    /\ UNCHANGED <<file, phase, docVars, unloadable, asked, attempted, references, located,
                   validated, history>>

\* The entry point's load ends with the validation of the queued schemas.
EntryLoaded ==
    /\ phase = "discover" /\ stack = <<>>
    /\ phase' = "locate"
    /\ validated' = toValidate /\ toValidate' = {}
    /\ UNCHANGED <<file, stack, docVars, unloadable, asked, attempted, references, located, history>>

\* ModelXbrl's loadSchemalocatedSchemas takes the documents as they were made,
\* those included that it loads itself.
LocateSchemas ==
    /\ phase = "locate" /\ stack = <<>>
    /\ urlDocs[Entry] # None /\ located < Len(order)
    /\ located' = located + 1
    /\ stack' = <<Frame(order[located + 1], "hints")>>
    /\ UNCHANGED <<file, phase, docVars, unloadable, asked, attempted, references, toValidate,
                   validated, history>>

Finish ==
    /\ phase = "locate" /\ stack = <<>>
    /\ urlDocs[Entry] = None \/ located = Len(order)
    /\ phase' = "done"
    /\ UNCHANGED <<file, stack, docVars, unloadable, asked, attempted, references, located,
                   toValidate, validated, history>>

Next == \/ LoadEntry \/ Import \/ IgnoreLink \/ Href \/ Element \/ Xbrldi \/ Hint
        \/ ImportReturns \/ HrefPromotes \/ HrefReturns \/ HintReturns \/ Return
        \/ EntryLoaded \/ LocateSchemas \/ Finish

Spec == Init /\ [][Next]_vars /\ WF_vars(Next)

-----------------------------------------------------------------------------
\* Every variable has its type.
FrameType == [doc : Docs, kind : {"new", "included", "rescan", "hints"}, next : Nat \ {0},
              waiting : BOOLEAN, got : Docs \cup {None}]
TypeOK ==
    /\ file \in [Docs -> Files]
    /\ phase \in {"start", "discover", "locate", "done"}
    /\ stack \in Seq(FrameType)
    /\ urlDocs \in [Docs -> Docs \cup {None}]
    /\ order \in Seq(Docs)
    /\ type \in [Docs -> Types \cup {None}]
    /\ inDTS \in [Docs -> BOOLEAN]
    /\ targetNs \in [Docs -> Namespaces \cup {None}]
    /\ namespaceDocs \in [Namespaces \cup {None} -> Seq(Docs)]
    /\ asked \subseteq Namespaces /\ unloadable \subseteq Docs
    /\ attempted \in [Docs -> SUBSET (Namespaces \cup {None})]
    /\ references \in [Docs -> SUBSET Docs]
    /\ located \in Nat
    /\ toValidate \subseteq Docs /\ validated \subseteq Docs /\ outside \subseteq Docs
    /\ processed \subseteq Docs \X Nat /\ again \subseteq processed

\* The documents an import, include or link may lead to: the one it names, the
\* schema loaded in its place (Copy), or the one an import takes (Match).
SameSchema(u, t) ==
    /\ file[u].root = "schema" /\ file[t].root = "schema"
    /\ file[u].ns = file[t].ns /\ file[u].ns # None /\ BaseName[u] = BaseName[t]
TakenByName(ref, t) ==
    /\ ref.how = "import" /\ ref.ns # None /\ file[t].root = "schema"
    /\ file[t].ns = ref.ns /\ BaseName[t] = NsBaseName[ref.ns]
Targets(ref) == {t \in Docs : t = ref.to \/ SameSchema(ref.to, t) \/ TakenByName(ref, t)}
Refers(d) == {ref \in {file[d].refs[i] : i \in 1..Len(file[d].refs)} : ref.how \in Schemas \cup Links}

\* S holds the entry point and all that its members refer to.
ClosedDts(S) == Entry \in S /\ \A d \in S : \A ref \in Refers(d) : Targets(ref) \subseteq S

\* Between the calls of load by ModelXbrl, nothing is in the DTS except by
\* references that start at the entry point: schemaLocations and locators that
\* are not link:loc bring nothing in.
Dts == {d \in Docs : inDTS[d]}
DtsSound == stack = <<>> => \A S \in SUBSET Docs : Dts \subseteq S \/ ~ClosedDts(S)

\* What a reference of d was to lead to, and whether it is discovered.
Discovered(d, ref) ==
    \/ file[ref.to].root = "absent"
    \/ \E t \in Targets(ref) : inDTS[t] /\ (t = urlDocs[ref.to] \/ TakenByName(ref, t))

\* When the load has ended all that a document of the DTS refers to is in the DTS.
DtsClosed ==
    phase = "done" =>
        \A d \in Docs : inDTS[d] /\ type[d] # "unknown" =>
            \A ref \in Refers(d) : Discovered(d, ref)

\* The xbrldi schema, or a schema taken for it (Copy): loadSchemalocatedSchema may
\* take it out of the DTS.
XbrldiSchemas == {d \in Docs : d = XbrldiDoc \/ SameSchema(XbrldiDoc, d)}

\* d finds the schema t under the URL and the namespace that ref gives.
Finds(d, ref, t) ==
    /\ t = ref.to
    /\ t \in {namespaceDocs[ImportNs(d, ref)][i] : i \in 1..Len(namespaceDocs[ImportNs(d, ref)])}

\* The references that are not followed to their end: an import without a
\* namespace, one of the xbrldi schema (loadSchemalocatedSchema), and documents
\* first met outside of the DTS which cannot be promoted: they were not taken for
\* linkbases, or the importer does not find them in namespaceDocs, which makes
\* them documents it refers to already when it meets a link to them.
Overlooked(d, ref) ==
    LET t == urlDocs[ref.to]
    IN  \/ ref.how \in Schemas /\ ImportNs(d, ref) = None
        \/ file[ref.to].root = "notXml"
        \/ Targets(ref) \cap XbrldiSchemas # {}
        \/ /\ t \in outside
           /\ \/ type[t] = "unknown"
              \/ ref.how \in Schemas /\ ~Finds(d, ref, t)
              \/ /\ ref.how \in Links
                 /\ \E r \in Refers(d) : r.how \in Schemas /\ t \in Targets(r) /\ ~Finds(d, r, t)

\* With these exceptions all that the DTS refers to is in it, whatever the order
\* in which imports, hrefs and schemaLocations reach a document.
DtsComplete ==
    phase = "done" =>
        \A d \in Docs : inDTS[d] /\ type[d] # "unknown" =>
            \A ref \in Refers(d) : Overlooked(d, ref) \/ Discovered(d, ref)

\* A document read outside of the DTS and promoted later is scanned twice, but
\* no link of it is processed twice, and none of a document of the DTS is missed.
LinksOnce ==
    /\ \A p \in again : p[1] \in XbrldiSchemas
    /\ phase = "done" =>
        \A d \in Docs \ XbrldiSchemas : type[d] \in {"schema", "linkbase", "instance"} =>
            \A i \in 1..Len(file[d].refs) :
                file[d].refs[i].how \in Links \cup {"locator"} =>
                    (inDTS[d] <=> <<d, i>> \in processed)

\* A schema that is validated is validated with those of its namespace that it
\* includes: their discovery ends before it is queued.
IncludedValidated ==
    phase = "done" =>
        \A s \in validated : \A ref \in Refers(s) :
            LET n == file[s].ns
            IN  (/\ ref.how = "include" /\ n # None /\ urlDocs[ref.to] = ref.to
                 /\ file[ref.to].root = "schema" /\ file[ref.to].ns = n)
                    => ref.to \in validated

\* No step takes a document out of the DTS, but for the xbrldi schema.
StaysDiscovered ==
    [][\A d \in Docs \ XbrldiSchemas : inDTS[d] => inDTS'[d]]_vars

\* Documents may import and refer to each other in circles: the load ends.
DiscoveryEnds == <>(phase = "done")

=============================================================================
