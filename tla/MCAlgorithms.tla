----------------------------- MODULE MCAlgorithms -----------------------------
(***************************************************************************)
(* The algorithms on small inputs: an input grows by one fact, arc or child    *)
(* element at a time, and the properties compare what the code answers with    *)
(* what the definitions say.  One input is a run of formulas, of which         *)
(* FormulaRun has the steps and VariableSets what a set comes to.             *)
(***************************************************************************)
EXTENDS FormulaRun, AlgorithmInputs, FiniteSets, TLC

CONSTANTS NoConcept, NoFact, MaxChildren, MaxMemberArcs, MaxVariablesAndFacts

MCUnbounded == 99
P == INSTANCE Particles WITH Unbounded <- MCUnbounded

X == INSTANCE Dimensions WITH None <- NoConcept

V == INSTANCE VariableSets WITH None <- NoFact, Dims <- {"D"}

------------------------------------------------------------------------------
\* Values are in units of 1/20: 1.0, 1.05 and 1.5 with decimals 0, 1 and INF.
MCHalfWidth == 0 :> 10 @@ 1 :> 1 @@ 99 :> 0

\* Facts that are numeric: rounded values, one that is written in two ways, NaN, nil.
MCNumericFacts ==
    [kind : {"value"}, value : {20, 30}, text : {1}, decimals : {0, 1, 99}]
    \cup [kind : {"value"}, value : {21}, text : {1, 2}, decimals : {0, 1, 99}]
    \cup [kind : {"nan"}, value : {0}, text : {1}, decimals : {0, 99}]
    \cup [kind : {"nil"}, value : {0}, text : {0}, decimals : {NoDecimals}]
MCOtherFacts ==
    [kind : {"value"}, value : {20, 21}, text : {1, 2}, decimals : {NoDecimals}]
    \cup [kind : {"nil"}, value : {0}, text : {0}, decimals : {NoDecimals}]

------------------------------------------------------------------------------
\* An arc with one relationship, two that are the same, or two.
MCArcEnds == {<<"e">>, <<"e", "e">>, <<"e", "f">>}

------------------------------------------------------------------------------
\* Types of one group of elements, or of a group and an element.
Occurs == {<<0, 1>>, <<1, 1>>, <<0, MCUnbounded>>}
GroupOccurs == Occurs \cup {<<1, MCUnbounded>>}

Element(name, o) == [kind |-> "element", name |-> name, min |-> o[1], max |-> o[2]]
Group(kind, ps, o) == [kind |-> kind, particles |-> ps, min |-> o[1], max |-> o[2]]
Type(g) == Group("type", <<g>>, <<1, 1>>)

Elements(name) == {Element(name, o) : o \in Occurs}

\* Elements in a group; the first one may be declared again.
FlatGroups ==
    {Group("sequence", <<x, y, z>>, <<1, 1>>) :
        x \in Elements("a"), y \in Elements("b"), z \in Elements("a") \cup Elements("c")}
    \cup {Group(k, <<x, y>>, o) :
        k \in {"sequence", "choice"}, x \in Elements("a"), y \in Elements("b"), o \in GroupOccurs}
    \cup {Group("all", <<Element("a", o1), Element("b", o2)>>, o) :
        o1, o2, o \in {<<0, 1>>, <<1, 1>>}}

NestedGroups ==
    LET Inner == {Group(k, <<x, y>>, o) : k \in {"sequence", "choice"},
                      x \in Elements("a"), y \in Elements("b"), o \in GroupOccurs}
    IN  {Group(k, <<g, z>>, o) : k \in {"sequence", "choice"}, g \in Inner,
             z \in Elements("c"), o \in {<<1, 1>>, <<1, MCUnbounded>>}}
        \cup {Group(k, <<z, g>>, <<1, 1>>) : k \in {"sequence", "choice"}, g \in Inner,
                  z \in Elements("c")}

------------------------------------------------------------------------------
\* One unit of the last digit is 40 or 4; values that lie on and between the units.
MCUnit == 0 :> 40 @@ 1 :> 4
MCWeights == {<<1, 1>>, <<2, -1>>}

\* Facts of a total and its items: values that agree when rounded, in pairs or all of
\* them, one with excess digits, NaN, nil.
MCCalculationFacts ==
    {[kind |-> "value", value |-> v[1], decimals |-> v[2]] :
        v \in {<<-40, 0>>, <<0, 0>>, <<40, 0>>, <<60, 0>>, <<20, 1>>, <<40, 1>>, <<60, 1>>, <<21, 99>>, <<40, 99>>}}
    \cup [kind : {"nan"}, value : {0}, decimals : {0}]
    \cup [kind : {"nil"}, value : {0}, decimals : {99}]

------------------------------------------------------------------------------
\* A hypercube that P has, alone or with another one that Q has, in the same role or
\* another; its dimension D goes on in a role of its own.
Arc(from, to, role, target, usable) ==
    [from |-> from, to |-> to, role |-> role, target |-> target, usable |-> usable]
Cube(from, role, target, negating, closed, element) ==
    [from |-> from, to |-> "H", role |-> role, target |-> target, usable |-> TRUE,
     negating |-> negating, closed |-> closed, element |-> element]

HypercubeArcs ==
    {<<Cube("P", "r", t, t = "s", TRUE, "segment")>> : t \in {NoConcept, "s"}}
    \cup {<<Cube("P", "r", NoConcept, FALSE, FALSE, "segment"),
            Cube("Q", r, NoConcept, n, TRUE, "scenario")>> :
              r \in {"r", "s"}, n \in BOOLEAN}
Taxonomies ==
    [cubes : HypercubeArcs,
     dimensions : {<<Arc("H", "D", "r", NoConcept, TRUE), Arc("H", "D", "s", "r", TRUE)>>},
     domains : {<<Arc("D", "M", "r", NoConcept, u)>> : u \in BOOLEAN},
     members : {<<>>},
     default : {[D |-> "M", E |-> NoConcept]}]

\* Arcs of domains and of primary items; those of one concept are in any order.
Arcs(from, to, roles) == {Arc(from, to, r[1], r[2], u) : r \in roles, u \in BOOLEAN}
Stays(role) == <<role, NoConcept>>
MemberArcs ==
    Arcs("M", "N", {Stays("r"), Stays("s"), <<"r", "s">>})
    \cup Arcs("N", "M", {Stays("r"), Stays("s"), <<"s", "r">>})
    \cup Arcs("P", "Q", {Stays("r"), <<"r", "s">>})
    \cup Arcs("Q", "P", {Stays("r")})
    \cup Arcs("Q", "M", {Stays("s")})
    \cup Arcs("M", "M", {<<"r", "s">>})
    \cup Arcs("M", "P", {Stays("r"), Stays("s")})
Place == [P |-> 1, Q |-> 2, M |-> 3, N |-> 4]

\* Contexts with members of the dimension D, or also of E, which is of no hypercube.
ContextElement(d, e, other) == [values |-> [D |-> d, E |-> e], other |-> other]
Contexts ==
    [segment : {ContextElement(d, NoConcept, FALSE) : d \in {NoConcept, "M", "N"}}
               \cup {ContextElement("N", "M", FALSE), ContextElement("N", NoConcept, TRUE)},
     scenario : {ContextElement(d, NoConcept, FALSE) : d \in {NoConcept, "N"}}]

------------------------------------------------------------------------------
\* Two variables of any kind, or three of which the second may be a sequence.
FactVariable(concept, covered, fallback, sequence, matches) ==
    [concept |-> concept, covered |-> covered, fallback |-> fallback,
     sequence |-> sequence, matches |-> matches]
FactVariables(c, fallbacks) ==
    {FactVariable(c, v, b, FALSE, FALSE) : v \in {{}, {"period"}, {"D"}}, b \in fallbacks}
SequenceVariables(c) ==
    {FactVariable(c, v, FALSE, TRUE, m) : v \in {{}, {"period"}}, m \in BOOLEAN}
AnyVariables(c) == FactVariables(c, BOOLEAN) \cup SequenceVariables(c)

TwoVariables == {<<a, b>> : a \in AnyVariables("a"), b \in AnyVariables("b")}
ThreeVariables ==
    {<<a, b, c>> : a \in FactVariables("a", BOOLEAN), b \in FactVariables("b", BOOLEAN),
                   c \in FactVariables("c", BOOLEAN)}
    \cup {<<a, b, c>> : a \in FactVariables("a", {FALSE}), b \in SequenceVariables("b"),
                        c \in FactVariables("c", {FALSE})}

InstanceFacts == [concept : {"a", "b", "c"}, period : {1, 2}, dims : [{"D"} -> {NoFact, "m"}]]
ConceptPlace == [a |-> 0, b |-> 4, c |-> 8]
FactPlace(x) ==
    ConceptPlace[x.concept] + 2 * x.period + (IF x.dims["D"] = NoFact THEN 0 ELSE 1)

\* A set with two variables and two sets chained to it, both over a name of its own or
\* of its result, and a set after it; the parameter has the name of a variable.
MCTopSets == <<"s1", "s2">>
MCVariables == [s1 |-> <<"p", "x">>, s2 |-> <<"y">>, c1 |-> <<"x", "y">>, c2 |-> <<"r">>]
MCChained ==
    [s1 |-> <<[set |-> "c1", result |-> "r"], [set |-> "c2", result |-> None]>>,
     s2 |-> <<>>, c1 |-> <<>>, c2 |-> <<>>]

------------------------------------------------------------------------------
Inputs ==
    FactSets \cup ArcSets \cup CalculationSets
        \cup [about : {"content"}, type : {Type(g) : g \in FlatGroups \cup NestedGroups},
              children : {<<>>}]
        \cup [about : {"dimensions"}, dts : Taxonomies]
        \cup [about : {"variables"}, facts : {<<>>}, vars : TwoVariables,
              default : [{"D"} -> {NoFact, "m"}], implicit : BOOLEAN]
        \cup [about : {"variables"}, facts : {<<>>}, vars : ThreeVariables,
              default : [{"D"} -> {NoFact, "m"}], implicit : {TRUE}]
        \cup [about : {"formulas"}]

MCInit ==
    /\ input \in Inputs
    /\ Init
    /\ input.about = "formulas" \/ limited = [set |-> FALSE, report |-> FALSE]

AddChild ==
    /\ input.about = "content"
    /\ Len(input.children) < MaxChildren
    /\ \E n \in {"a", "b", "c"} : input' = [input EXCEPT !.children = Append(@, n)]

AddMemberArc ==
    /\ input.about = "dimensions"
    /\ Len(input.dts.members) < MaxMemberArcs
    /\ \E a \in MemberArcs :
          /\ \A b \in X!Range(input.dts.members) : b # a /\ Place[b.from] <= Place[a.from]
          /\ input' = [input EXCEPT !.dts.members = Append(@, a)]

\* A fact of a concept that a variable has, in the order of places.
AddInstanceFact ==
    /\ input.about = "variables"
    /\ Len(input.facts) + Len(input.vars) < MaxVariablesAndFacts
    /\ \E x \in InstanceFacts :
          /\ \E i \in DOMAIN input.vars : input.vars[i].concept = x.concept
          /\ input.facts # <<>> => FactPlace(input.facts[Len(input.facts)]) <= FactPlace(x)
          /\ input' = [input EXCEPT !.facts = Append(@, x)]

Grow ==
    \/ AddFact \/ AddArc \/ CollectAgain \/ AddChild
    \/ AddCalculationFact \/ AddMemberArc \/ AddInstanceFact

MCNext ==
    \/ Grow /\ UNCHANGED vars
    \/ input.about = "formulas" /\ Next /\ UNCHANGED input

AlgorithmsSpec == MCInit /\ [][MCNext]_<<input, vars>>

------------------------------------------------------------------------------
\* The verdict on the children of an element (validateElementSequence).
ParticlesRight == input.about = "content" => P!VerdictRight(input.type, input.children)

\* Facts are in their hypercubes (isFactDimensionallyValid), and the search for cycles
\* through the domains (checkBaseSet) ends and finds them.
DimensionsRight ==
    input.about = "dimensions" =>
        /\ \A item \in {"P", "Q"}, context \in Contexts : X!FactRight(input.dts, item, context)
        /\ X!CyclesFoundRight(input.dts)

\* The evaluations of a variable set (evaluate) are the ones that its variables, facts and
\* fallbacks allow, each once.
EvaluationsRight == input.about = "variables" => V!EvaluationsRight(input)
=============================================================================
