------------------------------ MODULE Dimensions ------------------------------
(***************************************************************************)
(* Dimensional validity (arelle/ValidateXbrlDimensions.py): whether a fact is *)
(* in the hypercubes of its primary item, and the search for cycles from a     *)
(* hypercube through the domains of its dimensions.                           *)
(*                                                                         *)
(* Relationships of an extended link role go on in it or in the role they      *)
(* target.  A DTS is a record of sequences of arcs [from, to, role, target,    *)
(* usable], in the order of the relationships: cubes (all and notAll, with     *)
(* [negating, closed, element] too), dimensions, domains and members; with      *)
(* the default members of dimensions.                                        *)
(*                                                                         *)
(* Left out: the checks of the types of the ends, typed dimensions, and the     *)
(* contexts that tables make up.                                             *)
(***************************************************************************)
EXTENDS Integers, SequencesExt

CONSTANT None \* no target role, no default, no value

\* relationshipSet(arcrole, role).fromModelObject(concept)
From(arcs, role, concept) == SelectSeq(arcs, LAMBDA a : a.role = role /\ a.from = concept)

\* rel.targetRole or role
Target(a, role) == IF a.target = None THEN role ELSE a.target

------------------------------------------------------------------------------
\* The hypercubes of a primary item

\* findPriItemElrHcRels: those of the item in a role, or in any role at first, and
\* those of the items it is a member of by a relationship that goes on in that role.
RECURSIVE FindPriItemHcRels(_, _, _, _)
FindPriItemHcRels(dts, item, role, found) ==
    LET own == {c \in Range(dts.cubes) : c.from = item /\ role \in {None, c.role}}
        up == SelectSeq(dts.members, LAMBDA a : a.to = item /\ role \in {None, Target(a, a.role)})
    IN  IF <<role, item>> \in found.seen THEN found
        ELSE FoldLeft(LAMBDA f, a : FindPriItemHcRels(dts, a.from, a.role, f),
                      [seen |-> found.seen \cup {<<role, item>>}, cubes |-> found.cubes \cup own], up)

PriItemHcRels(dts, item) == FindPriItemHcRels(dts, item, None, [seen |-> {}, cubes |-> {}]).cubes

\* findUsableMembersInDomainELR: the members that are met on the way through the
\* domain, each with whether it is usable there; a way ends where it meets itself.
RECURSIVE FindMembers(_, _, _, _)
FindMembers(dts, rels, role, way) ==
    UNION {LET here == <<a.to, Target(a, role)>>
           IN  {<<a.to, a.usable>>} \cup
               IF here \in way THEN {}
               ELSE FindMembers(dts, From(dts.members, here[2], a.to), here[2], way \cup {here}) :
           a \in Range(rels)}

\* Mutant of DimensionMemberUsable: usable somewhere.
DimensionMemberUsableOnce(dts, dimension, member, role) ==
    <<member, TRUE>> \in FindMembers(dts, From(dts.domains, role, dimension), role, {})

\* dimensionMemberUsable: usable, and nowhere in the domain not usable.
DimensionMemberUsable(dts, dimension, member, role) ==
    LET found == FindMembers(dts, From(dts.domains, role, dimension), role, {})
    IN  <<member, TRUE>> \in found /\ <<member, FALSE>> \notin found

\* The context of a fact, for the segment and the scenario [values, other]: dimension
\* -> member or None, and whether there is content that is not a dimension.
HcValid(dts, cube, context) ==
    LET values == context[cube.element].values
        role == Target(cube, cube.role)
        rels == Range(From(dts.dimensions, role, cube.to))
        Member(d) == IF values[d] # None THEN values[d] ELSE dts.default[d]
        Valid(a) == /\ Member(a.to) # None
                    /\ DimensionMemberUsable(dts, a.to, Member(a.to), Target(a, role))
        extra == {d \in DOMAIN values : values[d] # None} \ {a.to : a \in rels}
        matches == /\ cube.closed => ~context[cube.element].other /\ extra = {}
                   /\ \A a \in rels : Valid(a)
    IN  matches # cube.negating

\* isFactDimensionallyValid: all hypercubes of some role have the fact, if there are any.
IsFactDimensionallyValid(dts, item, context) ==
    LET cubes == PriItemHcRels(dts, item)
    IN  cubes = {} \/ \E c \in cubes : \A d \in cubes : d.role = c.role => HcValid(dts, d, context)

------------------------------------------------------------------------------
\* The search for cycles from a has-hypercube relationship

\* domainTargetRoles: roles in which the domain goes on, on ways without a cycle.
RECURSIVE DomainTargetRoles(_, _, _, _)
DomainTargetRoles(dts, rels, role, way) ==
    {role} \cup
    UNION {DomainTargetRoles(dts, From(dts.members, Target(a, role), a.to), Target(a, role),
                             way \cup {a.to}) :
           a \in {b \in Range(rels) : b.to \notin way}}

\* Mutant of XdtCycle: a relationship to a concept on the way ends that way.
RECURSIVE XdtCycleUsable(_, _, _, _, _)
XdtCycleUsable(dts, roles, rels, way, calls) ==
    LET Below(a) == FoldLeft(LAMBDA o, r : IF o # "none" THEN o
                                ELSE XdtCycleUsable(dts, roles, From(dts.members, r, a.to),
                                                    way \cup {a.to}, calls),
                            "none", roles)
    IN  FoldLeft(LAMBDA o, a : CASE o # "none" -> o
                                 [] o = "none" /\ a.to \in way -> IF a.usable THEN "cycle" ELSE "none"
                                 [] o = "none" /\ a.to \notin way -> Below(a),
                 "none", rels)

\* xdtCycle, in some order of the roles: a usable relationship to a concept on the way
\* is a cycle; one that is not usable is followed again, and a call with the same
\* arguments as one it is part of never returns.
RECURSIVE XdtCycle(_, _, _, _, _)
XdtCycle(dts, roles, rels, way, calls) ==
    LET Call(a) == <<a.to, way \cup {a.to}>>
        Below(a) == FoldLeft(LAMBDA o, r : IF o # "none" THEN o
                                ELSE XdtCycle(dts, roles, From(dts.members, r, a.to), Call(a)[2],
                                              calls \cup {Call(a)}),
                            "none", roles)
    IN  FoldLeft(LAMBDA o, a : CASE o # "none" -> o
                                 [] o = "none" /\ a.usable /\ a.to \in way -> "cycle"
                                 [] o = "none" /\ ~(a.usable /\ a.to \in way) ->
                                      IF Call(a) \in calls THEN "loops" ELSE Below(a),
                 "none", rels)

\* drsPriItems: a primary item and its usable members.  One that is not usable is
\* followed again.
RECURSIVE DrsPriItems(_, _, _, _, _)
DrsPriItems(dts, role, item, found, calls) ==
    LET Follow(f, a) ==
            LET items == IF a.usable THEN f.items \cup {a.to} ELSE f.items
                call == <<a.to, Target(a, role), items>>
            IN  CASE f.loops \/ a.to \in f.items -> f
                  [] ~f.loops /\ a.to \notin f.items ->
                       IF call \in calls THEN [f EXCEPT !.loops = TRUE]
                       ELSE DrsPriItems(dts, call[2], a.to, [f EXCEPT !.items = items], calls \cup {call})
    IN  FoldLeft(Follow, found, From(dts.members, role, item))
PriItems(dts, cube) ==
    DrsPriItems(dts, cube.role, cube.from, [items |-> {cube.from}, loops |-> FALSE],
                {<<cube.from, cube.role, {cube.from}>>})

\* drsPolymorphism: a usable relationship to one of these items, on ways that meet no
\* concept twice.
RECURSIVE DrsPolymorphism(_, _, _, _, _)
DrsPolymorphism(dts, rels, role, items, way) ==
    \E a \in Range(rels) :
        \/ a.usable /\ a.to \in items
        \/ /\ a.to \notin way
           /\ DrsPolymorphism(dts, From(dts.members, Target(a, role), a.to), Target(a, role), items,
                              way \cup {a.to})

\* checkBaseSet, for a dimension of a hypercube: the domain, the outcomes of the search
\* in any order of the roles, and whether there is polymorphism.
DomainRole(cube, dim) == Target(dim, Target(cube, cube.role))
DomainRels(dts, cube, dim) == From(dts.domains, DomainRole(cube, dim), dim.to)
CycleRoles(dts, cube, dim) ==
    DomainTargetRoles(dts, DomainRels(dts, cube, dim), DomainRole(cube, dim), {})
CycleOutcomes(dts, cube, dim) ==
    {XdtCycle(dts, roles, DomainRels(dts, cube, dim), {cube.to, dim.to}, {}) :
        roles \in SetToSeqs(CycleRoles(dts, cube, dim))}
Polymorphism(dts, cube, dim) ==
    DrsPolymorphism(dts, DomainRels(dts, cube, dim), DomainRole(cube, dim),
                    PriItems(dts, cube).items, {})

------------------------------------------------------------------------------
\* XBRL Dimensions: consecutive relationships, each in the role in which the one before
\* goes on.

\* What is reached in a graph from some of its nodes.
Reached(edges, starts) ==
    LET After[n \in 0..Cardinality(edges)] ==
            IF n = 0 THEN starts
            ELSE After[n - 1] \cup {e[2] : e \in {f \in edges : f[1] \in After[n - 1]}}
    IN  After[Cardinality(edges)]

\* Concepts in roles, and the consecutive steps between them.
Start(a) == <<a.from, a.role>>
End(a) == <<a.to, Target(a, a.role)>>
Consecutive(dts) == {<<Start(a), End(a)>> : a \in Range(dts.members)}

\* The arcs of the domain of a dimension in a role.
DomainArcs(dts, dimension, role) ==
    LET rels == Range(From(dts.domains, role, dimension))
        reached == Reached(Consecutive(dts), {End(a) : a \in rels})
    IN  rels \cup {a \in Range(dts.members) : Start(a) \in reached}

Usable(dts, dimension, member, role) ==
    LET arcs == {a \in DomainArcs(dts, dimension, role) : a.to = member}
    IN  arcs # {} /\ \A a \in arcs : a.usable

\* The hypercubes that an item has or inherits in a role.
Inherited(dts, item, role) ==
    {c \in Range(dts.cubes) :
        c.role = role /\ \E s \in Reached(Consecutive(dts), {Start(c)}) : s[1] = item}

\* A hypercube has a context if each of its dimensions has a usable member there, by
\* its value or its default, and nothing else is in a closed element.
Has(dts, cube, context) ==
    LET element == context[cube.element]
        rels == {a \in Range(dts.dimensions) : Start(a) = End(cube)}
        Fits(a) == LET value == element.values[a.to]
                       member == IF value = None THEN dts.default[a.to] ELSE value
                   IN  member # None /\ Usable(dts, a.to, member, End(a)[2])
    IN  /\ \A a \in rels : Fits(a)
        /\ cube.closed =>
             /\ ~element.other
             /\ \A d \in DOMAIN element.values : element.values[d] # None => \E a \in rels : a.to = d

\* A fact is valid if its primary item has no hypercube, or if in some role it has all
\* hypercubes with an all relationship and none with a notAll relationship.
FactRight(dts, item, context) ==
    LET roles == {c.role : c \in {d \in Range(dts.cubes) : d \in Inherited(dts, item, d.role)}}
    IN  IsFactDimensionallyValid(dts, item, context) <=>
          \/ roles = {}
          \/ \E r \in roles : \A c \in Inherited(dts, item, r) : Has(dts, c, context) <=> ~c.negating

------------------------------------------------------------------------------
\* Cycles of concepts, by some arcs.
Edges(arcs) == {<<a.from, a.to>> : a \in arcs}
OnCycle(a, arcs) == a.from \in Reached(Edges(arcs), {a.to})
Cyclic(arcs) == \E a \in arcs : OnCycle(a, arcs)
UnusableCycle(arcs) == Cyclic({a \in arcs : ~a.usable})

\* The search ends, unless there is a cycle without a usable relationship; a cycle that
\* it finds is one of the relationships of the roles of the domain, with a usable one
\* in it; and it finds none only if they have no cycle, nor the domain.
CyclesRight(dts, cube, dim) ==
    LET rels == Range(DomainRels(dts, cube, dim))
        inRoles == {a \in Range(dts.members) : a.role \in CycleRoles(dts, cube, dim)}
        reached == Reached(Edges(inRoles), {a.to : a \in rels})
        arcs == {a \in inRoles : a.from \in reached}
        domain == DomainArcs(dts, dim.to, DomainRole(cube, dim)) \ rels
    IN  \A outcome \in CycleOutcomes(dts, cube, dim) :
          /\ outcome = "loops" => UnusableCycle(arcs)
          /\ outcome = "cycle" => \E a \in arcs : a.usable /\ OnCycle(a, arcs)
          /\ outcome = "none" => ~Cyclic(arcs \cup domain)

\* The primary items of a hypercube are the item and usable items below it, all of them
\* if each is there in one role only; they are found, unless there is a cycle without a
\* usable relationship.
PriItemsRight(dts, cube) ==
    LET found == PriItems(dts, cube)
        reached == Reached(Consecutive(dts), {Start(cube)})
        arcs == {a \in Range(dts.members) : Start(a) \in reached}
        right == {cube.from} \cup {a.to : a \in {b \in arcs : b.usable}}
    IN  IF found.loops THEN UnusableCycle(arcs)
        ELSE /\ found.items \subseteq right
             /\ (\A s, t \in reached : s[1] = t[1] => s = t) => found.items = right

\* Polymorphism is reported if a usable relationship of the domain leads to one of the
\* primary items, and only then; if there is a cycle it may be reported as that alone.
PolymorphismRight(dts, cube, dim) ==
    LET domain == DomainArcs(dts, dim.to, DomainRole(cube, dim))
        poly == \E a \in domain : a.usable /\ a.to \in PriItems(dts, cube).items
    IN  /\ Polymorphism(dts, cube, dim) => poly
        /\ poly => Polymorphism(dts, cube, dim) \/ Cyclic(domain)

\* All searches of checkBaseSet, from each hypercube of a primary item.
CyclesFoundRight(dts) ==
    \A cube \in Range(dts.cubes) :
        /\ PriItemsRight(dts, cube)
        /\ \A dim \in Range(From(dts.dimensions, Target(cube, cube.role), cube.to)) :
             CyclesRight(dts, cube, dim) /\ PolymorphismRight(dts, cube, dim)
=============================================================================
