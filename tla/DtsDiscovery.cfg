SPECIFICATION Spec
CONSTANTS
    inst = inst
    lb = lb
    lb2 = lb2
    sA = sA
    sB = sB
    sB2 = sB2
    ch = ch
    x = x
    nA = nA
    nB = nB
    nX = nX
    None = None
    Docs <- MCDocs
    Entry = inst
    Namespaces <- MCNamespaces
    BaseName <- MCBaseName
    NsBaseName <- MCNsBaseName
    XbrldiDoc = x
    XbrldiNs = nX
    Taxonomies <- MCTaxonomies
INVARIANTS DtsSound DtsComplete LinksOnce IncludedValidated
PROPERTIES StaysDiscovered DiscoveryEnds
CHECK_DEADLOCK FALSE
