---------------------------- MODULE Relationships ----------------------------
(***************************************************************************)
(* Which arcs of a base set are effective (arelle/ModelRelationshipSet.py):   *)
(* arcs that are equivalent override each other by priority, and an arc whose *)
(* use is prohibited only prohibits.  One algorithm builds the relationship   *)
(* set, with a hash first and a key only where hashes meet; another one        *)
(* reports the arcs without effect.                                          *)
(*                                                                         *)
(* A relationship is an arc from a concept to a concept.  The arc has its     *)
(* attributes; the ends and the attributes of XBRL are in the hash, those of   *)
(* other namespaces only in the key.                                         *)
(***************************************************************************)
EXTENDS Integers, SequencesExt

CONSTANTS
    Ends,     \* what the hash tells apart
    Customs,  \* what only the key tells apart
    NoRel,    \* no relationship yet
    UsingKey  \* USING_EQUIVALENCE_KEY

\* A relationship is [arc |-> number, ends |-> Ends, custom |-> Customs,
\* priority |-> Nat, prohibited |-> BOOLEAN].
EquivalenceKey(r) == <<r.ends, r.custom>>

\* The relationships of one arc, between the concepts its labels stand for: a pair of
\* locators may lead to the same concepts as another.
RelationshipsOf(arc, ends, custom, priority, prohibited) ==
    [i \in DOMAIN ends |-> [arc |-> arc, ends |-> ends[i], custom |-> custom,
                            priority |-> priority, prohibited |-> prohibited]]

IsIdenticalTo(r, other) == r.arc = other.arc /\ r.ends = other.ends

\* Mutant of PriorityOver: the later of two arcs of one priority has it.
LaterHasPriority(r, other) == r.priority >= other.priority

\* Of two arcs of one priority the later one has it, unless the earlier prohibits.
PriorityOver(r, other) ==
    \/ r.priority > other.priority
    \/ r.priority = other.priority /\ ~other.prohibited

\* The dictionary of ModelRelationshipSet.__init__, its hashes and its keys.
Empty == [hash |-> [e \in Ends |-> NoRel], key |-> [k \in Ends \X Customs |-> NoRel]]

\* The first relationship of a hash waits there; with the second of them both
\* move to their keys, where the one with priority stays.
Add(d, r) ==
    LET other == d.hash[r.ends]
        moved == IF other \in {NoRel, UsingKey} THEN d.key
                 ELSE [d.key EXCEPT ![EquivalenceKey(other)] = other]
        k == EquivalenceKey(r)
    IN  CASE other = NoRel -> [d EXCEPT !.hash[r.ends] = r]
          [] other \notin {NoRel, UsingKey} /\ IsIdenticalTo(r, other) -> d
          [] OTHER ->
               [hash |-> [d.hash EXCEPT ![r.ends] = UsingKey],
                key  |-> IF moved[k] = NoRel \/ PriorityOver(r, moved[k])
                         THEN [moved EXCEPT ![k] = r] ELSE moved]

\* The loop over the relationships of the base set.
Collected(rels) ==
    LET d[n \in 0..Len(rels)] == IF n = 0 THEN Empty ELSE Add(d[n - 1], rels[n])
    IN  d[Len(rels)]

\* The relationships of the set, with those that are prohibited or without.
ModelRelationships(rels, includeProhibits) ==
    LET d == Collected(rels)
        all == (Range(d.hash) \cup Range(d.key)) \ {NoRel, UsingKey}
    IN  {r \in all : includeProhibits \/ ~r.prohibited}

\* The order of equivalent relationships: by priority, effective before prohibited,
\* as met.
SortsBefore(rels, i, j) ==
    LET r == rels[i]
        s == rels[j]
    IN  \/ r.priority < s.priority
        \/ r.priority = s.priority /\ ~r.prohibited /\ s.prohibited
        \/ r.priority = s.priority /\ r.prohibited = s.prohibited /\ i < j

\* ineffectiveArcs, as positions: a prohibited relationship that comes first prohibits
\* nothing; one that is followed by one of its kind is overridden.
IneffectiveArcs(rels) ==
    LET Equivalent(i) == {j \in DOMAIN rels : EquivalenceKey(rels[j]) = EquivalenceKey(rels[i])}
        IsFirst(i) == \A j \in Equivalent(i) : ~SortsBefore(rels, j, i)
        IsNext(i, j) == /\ SortsBefore(rels, i, j)
                        /\ \A k \in Equivalent(i) : ~(SortsBefore(rels, i, k) /\ SortsBefore(rels, k, j))
    IN  {i \in DOMAIN rels :
           \/ IsFirst(i) /\ rels[i].prohibited
           \/ \E j \in Equivalent(i) : IsNext(i, j) /\ rels[i].prohibited = rels[j].prohibited}

------------------------------------------------------------------------------
\* XBRL 2.1: among equivalent relationships those of the highest priority decide;
\* a prohibited one among them prohibits all, otherwise one of them is effective.

Highest(rels, k) ==
    LET same == {r \in Range(rels) : EquivalenceKey(r) = k}
    IN  {r \in same : \A s \in same : s.priority <= r.priority}

\* The relationship set has one effective relationship for each class of equivalent
\* ones, none for a class that is prohibited, and with prohibitions one for each
\* class, whatever the order and the repetition of the arcs, and although classes
\* meet in one hash.
NetworkRight(rels) ==
    LET effective == ModelRelationships(rels, FALSE)
        all == ModelRelationships(rels, TRUE)
        Of(set, k) == {r \in set : EquivalenceKey(r) = k}
    IN  \A k \in Ends \X Customs :
            LET top == Highest(rels, k)
            IN  /\ IF top = {} \/ \E r \in top : r.prohibited
                   THEN Of(effective, k) = {}
                   ELSE \E r \in top : Of(effective, k) = {r}
                /\ top # {} => \E r \in top : Of(all, k) = {r}

\* The two algorithms agree: a relationship reported as without effect is not in the
\* set, unless the arc has it twice, and a prohibition that is reported has nothing to
\* prohibit that another one does not; one that is neither reported nor in the set has
\* been prohibited at the same or a higher priority, or prohibits after another one
\* (of two prohibitions of nothing only the first is reported).
ReportAgrees(rels) ==
    LET effective == ModelRelationships(rels, FALSE)
        reported == {rels[i] : i \in IneffectiveArcs(rels)}
        Twice(r) == \E i, j \in DOMAIN rels : i # j /\ rels[i] = r /\ rels[j] = r
        Prohibits(s, r) == s.prohibited /\ ~r.prohibited /\ s.priority >= r.priority
        Follows(r, s) == r.prohibited /\ s.priority <= r.priority
        Others(r) == {s \in Range(rels) : EquivalenceKey(s) = EquivalenceKey(r) /\ s # r}
    IN  /\ \A r \in reported \cap effective : Twice(r)
        /\ \A r \in reported, s \in Range(rels) :
             r.prohibited /\ s \in Others(r) /\ Prohibits(r, s) =>
               Twice(r) \/ \E t \in Others(r) : t.prohibited /\ Prohibits(t, s)
        /\ \A r \in Range(rels) \ (reported \cup effective) :
             \E s \in Others(r) : Prohibits(s, r) \/ Follows(r, s)
=============================================================================
