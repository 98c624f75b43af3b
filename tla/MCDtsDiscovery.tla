--------------------------- MODULE MCDtsDiscovery ---------------------------
(* Instances of DtsDiscovery for TLC: the files that may be at each URL. *)
EXTENDS DtsDiscovery, TLC

CONSTANTS inst, lb, lb2, sA, sB, sB2, ch, x, nA, nB, nX

MCDocs == {inst, lb, lb2, sA, sB, sB2, ch, x}
MCNamespaces == {nA, nB, nX}
MCBaseName == [d \in MCDocs |-> IF d = sB2 THEN sB ELSE d]
MCNsBaseName == [n \in MCNamespaces |-> IF n = nB THEN sB ELSE n]

R(h, d) == [how |-> h, to |-> d, ns |-> None]
Im(d, n) == [how |-> "import", to |-> d, ns |-> n]
El(n) == [how |-> "element", to |-> inst, ns |-> n]
File(root, n, rs, hs) ==
    {[root |-> root, ns |-> n, refs |-> r, hints |-> h] : r \in rs, h \in hs}
HintB(ds) == {<<[ns |-> nB, to |-> d]>> : d \in ds}
Gone == File("absent", None, {<<>>}, {<<>>})

Insts == File("xbrl", None,
    {<<R("schemaRef", sA)>>, <<R("linkbaseRef", lb)>>, <<R("schemaRef", sA), R("xbrldi", x)>>,
     <<R("schemaRef", sA), R("linkbaseRef", lb), El(nB)>>}, HintB({sB, ch}) \cup {<<>>})
Lbs == File("linkbase", None,
    {<<El(nB), R("loc", sA)>>, <<R("locator", lb2), R("loc", lb2)>>,
     <<R("locator", sB), R("roleRef", sB)>>, <<R("locator", sB), R("roleRef", sA)>>,
     <<El(nB), R("loc", sB)>>}, HintB({sB, sB2}))
Lb2s == File("linkbase", None, {<<R("loc", sB)>>}, {<<>>}) \cup Gone
SAs == File("schema", nA,
    {<<Im(sB, nB)>>, <<Im(sB2, nB), R("linkbaseRef", lb2)>>,
     <<R("include", ch), Im(x, nX)>>, <<R("linkbaseRef", lb), Im(sB, nB)>>}, {<<>>})
SBs == File("schema", nB,
    {<<>>, <<R("include", ch), R("linkbaseRef", lb2)>>, <<Im(sA, nA), R("loc", sA)>>,
     <<R("include", sB2)>>}, {<<>>})
SB2s == File("schema", nB, {<<R("linkbaseRef", lb2)>>}, {<<>>})
Chs == File("schema", None, {<<R("linkbaseRef", lb)>>}, {<<>>})
       \cup File("schema", nA, {<<>>}, {<<>>})
Xs == File("schema", nX, {<<>>}, {<<>>})

Choose(insts, lbs, lb2s, sas, sbs, sb2s, chs, xs) ==
    {(inst :> f1) @@ (lb :> f2) @@ (lb2 :> f3) @@ (sA :> f4) @@ (sB :> f5) @@ (sB2 :> f6)
        @@ (ch :> f7) @@ (x :> f8) :
     f1 \in insts, f2 \in lbs, f3 \in lb2s, f4 \in sas, f5 \in sbs, f6 \in sb2s,
     f7 \in chs, f8 \in xs}

\* Imports of a wrong namespace next to links to the same schema, schemas that take
\* each other's place, and an xbrldi schema with a link, met again in a footnote.
OddTaxonomies ==
    Choose(File("xbrl", None, {<<R("linkbaseRef", lb)>>}, {<<>>})
             \cup File("xbrl", None, {<<R("schemaRef", sA), R("xbrldi", x), R("loc", sB)>>}, {<<>>}),
           File("linkbase", None, {<<El(nB), R("loc", sA)>>, <<R("locator", sB), R("loc", sA)>>},
                HintB({sB, sB2})),
           Gone,
           File("schema", nA, {<<Im(sB, nX), R("roleRef", sB)>>, <<R("roleRef", sB2), Im(sB, nB)>>,
                               <<Im(sB2, nB), R("locator", sB)>>, <<Im(x, nX)>>}, {<<>>}),
           File("schema", nB, {<<>>, <<Im(x, nX), R("include", sB2)>>}, {<<>>}),
           SB2s, Gone, File("schema", nX, {<<R("linkbaseRef", lb)>>}, {<<>>}))

MCTaxonomies == Choose(Insts, Lbs, Lb2s, SAs, SBs, SB2s, Chs, Xs) \cup OddTaxonomies

\* An instance that uses xbrldi, whose schema its taxonomy may import too.
XbrldiTaxonomies ==
    Choose({f \in Insts : \E i \in 1..Len(f.refs) : f.refs[i].how = "xbrldi"},
           Gone, Gone, SAs, SBs, Gone, Chs, Xs)

=============================================================================
