---------------------------- MODULE DuplicateFacts ----------------------------
(***************************************************************************)
(* Sets of duplicate facts (arelle/ValidateDuplicateFacts.py): which types of *)
(* duplicates a set has (--validateDuplicateFacts) and which of its facts      *)
(* remain (--deduplicateFacts).                                              *)
(*                                                                         *)
(* A set is the sequence of the facts of one concept, context and unit.  A    *)
(* fact that is not nil has decimals if it is numeric: with precision only,    *)
(* assertions of the code fail.  Facts are grouped into sets elsewhere.        *)
(***************************************************************************)
EXTENDS Integers, FiniteSetsExt, SequencesExt

CONSTANTS
    NoDecimals, \* of nil facts and of facts that are not numeric
    HalfWidth   \* decimals -> half of the width of the interval a rounded value is from

\* kind "nan" is the number that equals no number, "value" any other value; two
\* facts with the same value may be written differently, as 1 and 1.0.
IsFact(f, numeric) ==
    /\ f.kind \in {"value", "nan", "nil"} /\ f.value \in Int
    /\ IF numeric /\ f.kind # "nil" THEN f.decimals \in DOMAIN HalfWidth
       ELSE f.decimals = NoDecimals

Lower(f) == f.value - HalfWidth[f.decimals]
Upper(f) == f.value + HalfWidth[f.decimals]

\* getFactValueEqualityKey: what is written counts.
AreFactsValueEqual(f, g) ==
    \/ f.kind = "nil" /\ g.kind = "nil"
    \/ f.kind = "value" /\ g.kind = "value" /\ f.value = g.value /\ f.text = g.text

AreAllValueEqual(d) == \A i \in 2..Len(d.facts) : AreFactsValueEqual(d.facts[1], d.facts[i])

AreAllComplete(d) ==
    /\ \A i \in DOMAIN d.facts : d.facts[i].decimals = d.facts[1].decimals
    /\ AreAllValueEqual(d)

\* Mutant of AreWithinRoundingError: values of the same decimals may differ.
OnlyOverlap(d) ==
    LET Facts == Range(d.facts)
    IN  /\ \A f \in Facts : f.kind = "value"
        /\ \A f, g \in Facts : Lower(f) <= Upper(g)

\* The highest lower bound is not above the lowest upper bound.
AreWithinRoundingError(d) ==
    LET Facts == Range(d.facts)
    IN  /\ \A f \in Facts : f.kind = "value"
        /\ \A f, g \in Facts : f.decimals = g.decimals => f.value = g.value
        /\ \A f, g \in Facts : Lower(f) <= Upper(g)

AreAllConsistent(d) == AreAllComplete(d) \/ (d.numeric /\ AreWithinRoundingError(d))

AreAnyComplete(d) ==
    \E i, j \in DOMAIN d.facts :
        i < j /\ d.facts[i].decimals = d.facts[j].decimals
              /\ AreFactsValueEqual(d.facts[i], d.facts[j])

\* Two facts in the loop of areAnyConsistent: with the same decimals they are taken
\* for different values; comparing NaN, and making an interval of nil, raises.
Meet(f, g) ==
    IF "nil" \in {f.kind, g.kind} THEN "raises"
    ELSE IF f.decimals = g.decimals THEN "no"
    ELSE IF "nan" \in {f.kind, g.kind} THEN "raises"
    ELSE IF Lower(g) <= Upper(f) /\ Upper(g) >= Lower(f) THEN "yes" ELSE "no"

\* areAnyConsistent: each fact is compared with those before it, until an answer.
AreAnyConsistent(d) ==
    LET fs == d.facts
        Met(i) == {j \in 1..(i - 1) : Meet(fs[i], fs[j]) # "no"}
        Answers == {i \in DOMAIN fs : fs[i].kind = "nil" \/ Met(i) # {}}
        AnswerAt(i) == IF fs[i].kind = "nil" THEN "raises" ELSE Meet(fs[i], fs[Min(Met(i))])
    IN  IF AreAnyComplete(d) THEN "yes"
        ELSE IF ~d.numeric \/ Answers = {} THEN "no"
        ELSE AnswerAt(Min(Answers))

AreAnyInconsistent(d) == IF d.numeric THEN ~AreAllConsistent(d) ELSE ~AreAllValueEqual(d)

Answer(b) == IF b THEN "yes" ELSE "no"

\* doesSetHaveDuplicateType, for one type and a set of several facts.
DoesSetHaveDuplicateType(d, type) ==
    CASE type = "inconsistent" -> Answer(AreAnyInconsistent(d))
      [] type = "consistent"   -> AreAnyConsistent(d)
      [] type = "incomplete"   -> Answer(~AreAllComplete(d))
      [] type = "complete"     -> Answer(AreAnyComplete(d))

\* deduplicateCompleteSubsets: the key is the value, not what is written.
SameKey(f, g) ==
    /\ f.decimals = g.decimals
    /\ \/ f.kind = "nil" /\ g.kind = "nil"
       \/ f.kind = "value" /\ g.kind = "value" /\ f.value = g.value
DeduplicateCompleteSubsets(fs) ==
    {i \in DOMAIN fs : \A j \in 1..(i - 1) : ~SameKey(fs[j], fs[i])}

\* The outcome of a deduplication: the facts that remain, or a failed assertion.
Kept(indices) == [raises |-> FALSE, kept |-> indices]
AssertionError == [raises |-> TRUE, kept |-> {}]

\* deduplicateConsistentPairs asserts that every fact has decimals.
DeduplicateConsistentPairs(d) ==
    LET fs == d.facts
        complete == DeduplicateCompleteSubsets(fs)
        Overrides(i, j) == /\ fs[i].decimals < fs[j].decimals
                           /\ fs[i].kind = "value" /\ fs[j].kind = "value"
                           /\ Lower(fs[j]) <= Upper(fs[i]) /\ Upper(fs[j]) >= Lower(fs[i])
    IN  IF (\A i, j \in complete : i = j) \/ ~d.numeric THEN Kept(complete)
        ELSE IF \E i \in complete : fs[i].decimals = NoDecimals THEN AssertionError
        ELSE Kept({i \in complete : ~\E j \in complete : Overrides(i, j)})

\* deduplicateConsistentSet: the first of those with the most decimals.
DeduplicateConsistentSet(d) ==
    LET fs == d.facts
    IN  IF ~d.numeric \/ ~AreAllConsistent(d) THEN Kept(DeduplicateCompleteSubsets(fs))
        ELSE IF \E i \in DOMAIN fs : fs[i].decimals = NoDecimals THEN AssertionError
        ELSE Kept({i \in DOMAIN fs :
                     /\ \A j \in DOMAIN fs : fs[j].decimals <= fs[i].decimals
                     /\ \A j \in 1..(i - 1) : fs[j].decimals < fs[i].decimals})

\* getDeduplicatedFacts of one set
Deduplicate(d, type) ==
    IF Len(d.facts) < 2 THEN Kept(DOMAIN d.facts)
    ELSE CASE type = "complete" -> Kept(DeduplicateCompleteSubsets(d.facts))
           [] type = "consistent-pairs" -> DeduplicateConsistentPairs(d)
           [] type = "consistent-sets"  -> DeduplicateConsistentSet(d)

------------------------------------------------------------------------------
\* The definitions: complete duplicates have the same value and decimals;
\* consistent ones may be the same number, rounded with different decimals.

Complete(f, g) == SameKey(f, g)
Consistent(f, g) ==
    \/ Complete(f, g)
    \/ /\ f.kind = "value" /\ g.kind = "value"
       /\ NoDecimals \notin {f.decimals, g.decimals} /\ f.decimals # g.decimals
       /\ \E x \in Lower(f)..Upper(f) : Lower(g) <= x /\ x <= Upper(g)

\* docs/source/user_guides/fact_deduplication.md:16-23
HasType(d, type) ==
    LET Pairs == {p \in (DOMAIN d.facts) \X (DOMAIN d.facts) : p[1] < p[2]}
        F(p) == d.facts[p[1]]
        G(p) == d.facts[p[2]]
    IN  CASE type = "inconsistent" -> \E p \in Pairs : ~Consistent(F(p), G(p))
          [] type = "consistent"   -> \E p \in Pairs : Consistent(F(p), G(p))
          [] type = "incomplete"   -> \E p \in Pairs : ~Complete(F(p), G(p))
          [] type = "complete"     -> \E p \in Pairs : Complete(F(p), G(p))

\* Values that are the same are written the same.
Plain(d) ==
    \A f, g \in Range(d.facts) :
        f.kind = "value" /\ g.kind = "value" /\ f.value = g.value => f.text = g.text

Nil(d) == \E i \in DOMAIN d.facts : d.facts[i].kind = "nil"
NotANumber(d) == \E i \in DOMAIN d.facts : d.facts[i].kind = "nan"

\* A warning is given when the set has duplicates of the type that was asked for.
\* It is sure when values that are the same are written the same: the code takes 1
\* and 1.0 for one value when it removes duplicates and for two when it looks for
\* them.  Looking for consistent duplicates may fail on nil and on NaN.
WarningsRight(d) ==
    \A type \in {"inconsistent", "consistent", "incomplete", "complete"} :
        LET answer == DoesSetHaveDuplicateType(d, type)
        IN  /\ answer = "raises" => type = "consistent" /\ (Nil(d) \/ NotANumber(d))
            /\ Plain(d) \/ (type = "inconsistent" /\ d.numeric) =>
                 answer \in {"raises", Answer(HasType(d, type))}

\* docs/source/user_guides/fact_deduplication.md:39-43: one fact remains of each
\* complete subset; in pairs only those without a consistent duplicate that is more
\* precise; of a consistent set the most precise, otherwise as if complete.
DeduplicationRight(d) ==
    LET fs == d.facts
        complete == Deduplicate(d, "complete")
        pairs == Deduplicate(d, "consistent-pairs")
        sets  == Deduplicate(d, "consistent-sets")
    IN  /\ ~complete.raises
        /\ \A i \in DOMAIN fs : \E k \in complete.kept : k = i \/ Complete(fs[k], fs[i])
        /\ \A k, l \in complete.kept : k # l => ~Complete(fs[k], fs[l])
        /\ pairs.raises \/ sets.raises => Nil(d)
        /\ ~pairs.raises => pairs.kept =
             {i \in complete.kept : \A j \in DOMAIN fs :
                Consistent(fs[i], fs[j]) /\ ~Complete(fs[i], fs[j]) =>
                  fs[j].decimals < fs[i].decimals}
        /\ ~sets.raises =>
             IF d.numeric /\ ~HasType(d, "inconsistent")
             THEN \E i \in DOMAIN fs : /\ sets.kept = {i}
                                       /\ \A j \in DOMAIN fs \ {i} : fs[j].decimals <= fs[i].decimals
             ELSE sets.kept = complete.kept
=============================================================================
