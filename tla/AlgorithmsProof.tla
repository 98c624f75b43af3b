--------------------------- MODULE AlgorithmsProof ---------------------------
(***************************************************************************)
(* Theorems about the algorithms on facts, arcs and calculations, for inputs of  *)
(* any size: what the code answers is what the definitions say.  Loops are       *)
(* functions of the number of steps, about which a least counterexample tells.   *)
(* And theorems about the run of formulas, for any variable sets, chains of sets, *)
(* parameters and numbers of results: what its timers do, and what the           *)
(* expressions of the formulas see.                                            *)
(***************************************************************************)
EXTENDS FormulaRun, AlgorithmInputs, WellFoundedInduction, FiniteSetTheorems, SequenceTheorems, TLAPS

-----------------------------------------------------------------------------
(* Numbers *)

\* A set of naturals that is not empty has a least element, which Min gives.
LEMMA LeastOf ==
  ASSUME NEW S \in SUBSET Nat, S # {}
  PROVE  D!Min(S) \in S /\ \A n \in S : D!Min(S) =< n
<1>1. PICK m \in S : \A n \in S : <<n, m>> \notin OpToRel(<, Nat)
  BY WFMin, NatLessThanWellFounded
<1>2. ASSUME NEW n \in S PROVE m =< n
  <2>1. <<n, m>> \in Nat \X Nat /\ <<n, m>>[1] = n /\ <<n, m>>[2] = m
    OBVIOUS
  <2>2. ~(<<n, m>>[1] < <<n, m>>[2])
    BY <1>1, <2>1 DEF OpToRel
  <2> QED
    BY <2>1, <2>2
<1> QED
  BY <1>2 DEF D!Min

LEMMA LastOf ==
  ASSUME NEW m \in Nat, NEW j \in 1..m
  PROVE  j = m \/ j \in 1..(m - 1)
  OBVIOUS

LEMMA OneOrMore ==
  ASSUME NEW n \in Nat, n > 0
  PROVE  (n = 1 /\ n < 2) \/ (n # 1 /\ n > 1 /\ ~(n < 2))
  OBVIOUS

-----------------------------------------------------------------------------
(* Duplicate facts *)

\* A set of duplicates, and that it has several facts.
FactSet(d) ==
    /\ d.numeric \in BOOLEAN
    /\ d.facts \in Seq(NumericFacts \cup OtherFacts)
    /\ \A f \in D!Range(d.facts) : D!IsFact(f, d.numeric)

LEMMA FactsAre ==
  ASSUME NEW d, FactSet(d), NEW i \in DOMAIN d.facts
  PROVE  /\ d.facts[i] \in D!Range(d.facts) /\ D!IsFact(d.facts[i], d.numeric)
         /\ DOMAIN d.facts = 1..Len(d.facts) /\ Len(d.facts) \in Nat
  BY LenProperties DEF FactSet, D!Range

\* The bounds of a rounded value are around it.
LEMMA BoundsAre ==
  ASSUME NEW f, f.value \in Int, f.decimals \in DOMAIN HalfWidth
  PROVE  /\ D!Lower(f) \in Int /\ D!Upper(f) \in Int
         /\ D!Lower(f) =< f.value /\ f.value =< D!Upper(f)
  BY FactsAssumption DEF D!Lower, D!Upper

LEMMA IntervalsMeet ==
  ASSUME NEW a \in Int, NEW b \in Int, NEW c \in Int, NEW e \in Int, a =< b, c =< e
  PROVE  (\E x \in a..b : c =< x /\ x =< e) <=> (c =< b /\ a =< e)
<1>1. CASE a =< c
  BY <1>1
<1>2. CASE c < a
  BY <1>2
<1> QED
  BY <1>1, <1>2

\* Facts that are not rounded with different decimals are consistent only when complete.
LEMMA ConsistentPair ==
  ASSUME NEW numeric \in BOOLEAN, NEW f, NEW g, D!IsFact(f, numeric), D!IsFact(g, numeric)
  PROVE  D!Consistent(f, g) <=>
            \/ D!Complete(f, g)
            \/ /\ numeric /\ f.kind = "value" /\ g.kind = "value" /\ f.decimals # g.decimals
               /\ D!Lower(g) =< D!Upper(f) /\ D!Lower(f) =< D!Upper(g)
<1>1. CASE numeric /\ f.kind = "value" /\ g.kind = "value"
  <2>1. /\ f.value \in Int /\ g.value \in Int
        /\ f.decimals \in DOMAIN HalfWidth /\ g.decimals \in DOMAIN HalfWidth
    BY <1>1 DEF D!IsFact
  <2>2. NoDecimals \notin {f.decimals, g.decimals}
    BY <2>1, FactsAssumption
  <2> DEFINE a == D!Lower(f)
             b == D!Upper(f)
             c == D!Lower(g)
             e == D!Upper(g)
  <2>3. a \in Int /\ b \in Int /\ c \in Int /\ e \in Int /\ a =< b /\ c =< e
    <3>1. a \in Int /\ b \in Int /\ a =< f.value /\ f.value =< b
      BY <2>1, BoundsAre
    <3>2. c \in Int /\ e \in Int /\ c =< g.value /\ g.value =< e
      BY <2>1, BoundsAre
    <3> HIDE DEF a, b, c, e
    <3> QED
      BY <2>1, <3>1, <3>2
  <2>4. (\E x \in a..b : c =< x /\ x =< e) <=> (c =< b /\ a =< e)
    <3> HIDE DEF a, b, c, e
    <3> QED
      BY <2>3, IntervalsMeet
  <2> QED
    BY <1>1, <2>2, <2>4 DEF D!Consistent
<1>2. CASE ~(numeric /\ f.kind = "value" /\ g.kind = "value")
  BY <1>2 DEF D!Consistent, D!IsFact
<1> QED
  BY <1>1, <1>2

\* Two of the facts, in order.
Two(d, i, j) == i \in DOMAIN d.facts /\ j \in DOMAIN d.facts /\ i < j

LEMMA TypesOfPairs ==
  ASSUME NEW d, FactSet(d)
  PROVE  /\ D!HasType(d, "inconsistent") <=>
              \E i, j : Two(d, i, j) /\ ~D!Consistent(d.facts[i], d.facts[j])
         /\ D!HasType(d, "consistent") <=>
              \E i, j : Two(d, i, j) /\ D!Consistent(d.facts[i], d.facts[j])
         /\ D!HasType(d, "incomplete") <=>
              \E i, j : Two(d, i, j) /\ ~D!Complete(d.facts[i], d.facts[j])
         /\ D!HasType(d, "complete") <=>
              \E i, j : Two(d, i, j) /\ D!Complete(d.facts[i], d.facts[j])
<1> DEFINE Pairs == {p \in (DOMAIN d.facts) \X (DOMAIN d.facts) : p[1] < p[2]}
<1>1. ASSUME NEW i, NEW j PROVE Two(d, i, j) <=> <<i, j>> \in Pairs
  BY DEF Two
<1>2. ASSUME NEW p \in Pairs PROVE p = <<p[1], p[2]>> /\ Two(d, p[1], p[2])
  BY DEF Two
<1>3. D!HasType(d, "inconsistent") <=> \E p \in Pairs : ~D!Consistent(d.facts[p[1]], d.facts[p[2]])
  BY DEF D!HasType
<1>4. D!HasType(d, "consistent") <=> \E p \in Pairs : D!Consistent(d.facts[p[1]], d.facts[p[2]])
  BY DEF D!HasType
<1>5. D!HasType(d, "incomplete") <=> \E p \in Pairs : ~D!Complete(d.facts[p[1]], d.facts[p[2]])
  BY DEF D!HasType
<1>6. D!HasType(d, "complete") <=> \E p \in Pairs : D!Complete(d.facts[p[1]], d.facts[p[2]])
  BY DEF D!HasType
<1> HIDE DEF Pairs
<1>7. ASSUME NEW i, NEW j, Two(d, i, j) PROVE <<i, j>> \in Pairs /\ <<i, j>>[1] = i /\ <<i, j>>[2] = j
  BY <1>1, <1>7
<1>8. D!HasType(d, "inconsistent") <=>
         \E i, j : Two(d, i, j) /\ ~D!Consistent(d.facts[i], d.facts[j])
  <2>1. ASSUME NEW i, NEW j, Two(d, i, j), ~D!Consistent(d.facts[i], d.facts[j])
        PROVE  D!HasType(d, "inconsistent")
    <3> DEFINE p == <<i, j>>
    <3>1. p \in Pairs /\ p[1] = i /\ p[2] = j
      BY <1>7, <2>1
    <3> HIDE DEF p
    <3> QED
      BY <1>3, <2>1, <3>1
  <2> QED
    BY <1>2, <1>3, <2>1
<1>9. D!HasType(d, "consistent") <=>
         \E i, j : Two(d, i, j) /\ D!Consistent(d.facts[i], d.facts[j])
  <2>1. ASSUME NEW i, NEW j, Two(d, i, j), D!Consistent(d.facts[i], d.facts[j])
        PROVE  D!HasType(d, "consistent")
    <3> DEFINE p == <<i, j>>
    <3>1. p \in Pairs /\ p[1] = i /\ p[2] = j
      BY <1>7, <2>1
    <3> HIDE DEF p
    <3> QED
      BY <1>4, <2>1, <3>1
  <2> QED
    BY <1>2, <1>4, <2>1
<1>10. D!HasType(d, "incomplete") <=>
         \E i, j : Two(d, i, j) /\ ~D!Complete(d.facts[i], d.facts[j])
  <2>1. ASSUME NEW i, NEW j, Two(d, i, j), ~D!Complete(d.facts[i], d.facts[j])
        PROVE  D!HasType(d, "incomplete")
    <3> DEFINE p == <<i, j>>
    <3>1. p \in Pairs /\ p[1] = i /\ p[2] = j
      BY <1>7, <2>1
    <3> HIDE DEF p
    <3> QED
      BY <1>5, <2>1, <3>1
  <2> QED
    BY <1>2, <1>5, <2>1
<1>11. D!HasType(d, "complete") <=>
         \E i, j : Two(d, i, j) /\ D!Complete(d.facts[i], d.facts[j])
  <2>1. ASSUME NEW i, NEW j, Two(d, i, j), D!Complete(d.facts[i], d.facts[j])
        PROVE  D!HasType(d, "complete")
    <3> DEFINE p == <<i, j>>
    <3>1. p \in Pairs /\ p[1] = i /\ p[2] = j
      BY <1>7, <2>1
    <3> HIDE DEF p
    <3> QED
      BY <1>6, <2>1, <3>1
  <2> QED
    BY <1>2, <1>6, <2>1
<1> QED
  BY <1>8, <1>9, <1>10, <1>11

LEMMA CompletePairs ==
  ASSUME NEW d, FactSet(d)
  PROVE  /\ \A f, g : D!SameKey(f, g) <=> D!SameKey(g, f)
         /\ \A f, g, h : D!SameKey(f, g) /\ D!SameKey(g, h) => D!SameKey(f, h)
         /\ D!Plain(d) => \A i, j \in DOMAIN d.facts :
              D!SameKey(d.facts[i], d.facts[j]) <=>
                /\ d.facts[i].decimals = d.facts[j].decimals
                /\ D!AreFactsValueEqual(d.facts[i], d.facts[j])
         /\ \A f, g : f.decimals = g.decimals /\ D!AreFactsValueEqual(f, g) => D!SameKey(f, g)
<1>1. \A i \in DOMAIN d.facts : d.facts[i] \in D!Range(d.facts)
  BY FactsAre
<1> QED
  BY <1>1 DEF D!SameKey, D!Plain, D!AreFactsValueEqual

\* areAllComplete compares all facts with the first, which is enough.
LEMMA AllComplete ==
  ASSUME NEW d, FactSet(d), Len(d.facts) > 1, D!AreAllComplete(d), NEW i \in DOMAIN d.facts,
         NEW j \in DOMAIN d.facts, i < j
  PROVE  D!SameKey(d.facts[i], d.facts[j])
<1>1. DOMAIN d.facts = 1..Len(d.facts) /\ Len(d.facts) \in Nat
  BY FactsAre
<1>2. \A k \in 2..Len(d.facts) : D!SameKey(d.facts[1], d.facts[k])
  BY <1>1, CompletePairs DEF D!AreAllComplete, D!AreAllValueEqual
<1>3. j \in 2..Len(d.facts)
  BY <1>1
<1>4. D!SameKey(d.facts[1], d.facts[j])
  BY <1>2, <1>3
<1>5. CASE i = 1
  BY <1>4, <1>5
<1>6. CASE i # 1
  <2>1. i \in 2..Len(d.facts)
    BY <1>1, <1>6
  <2> QED
    BY <1>2, <1>4, <2>1, CompletePairs
<1> QED
  BY <1>5, <1>6

LEMMA IncompleteRight ==
  ASSUME NEW d, FactSet(d), Len(d.facts) > 1, D!Plain(d)
  PROVE  /\ ~D!AreAllComplete(d) <=> D!HasType(d, "incomplete")
         /\ D!AreAnyComplete(d) <=> D!HasType(d, "complete")
<1>1. DOMAIN d.facts = 1..Len(d.facts) /\ Len(d.facts) \in Nat
  <2>1. 1 \in DOMAIN d.facts
    BY LenProperties DEF FactSet
  <2> QED
    BY <2>1, FactsAre
<1>2. D!AreAllComplete(d) => ~D!HasType(d, "incomplete")
  BY AllComplete, TypesOfPairs DEF Two, D!Complete
<1>3. ASSUME ~D!HasType(d, "incomplete") PROVE D!AreAllComplete(d)
  <2>1. \A k \in 2..Len(d.facts) : D!SameKey(d.facts[1], d.facts[k])
    <3> SUFFICES ASSUME NEW k \in 2..Len(d.facts) PROVE D!SameKey(d.facts[1], d.facts[k])
      OBVIOUS
    <3>1. Two(d, 1, k)
      BY <1>1 DEF Two
    <3> QED
      BY <1>3, <3>1, TypesOfPairs DEF D!Complete
  <2>2. \A k \in 2..Len(d.facts) : /\ d.facts[1].decimals = d.facts[k].decimals
                                   /\ D!AreFactsValueEqual(d.facts[1], d.facts[k])
    <3>1. \A i, j \in 1..Len(d.facts) :
             D!SameKey(d.facts[i], d.facts[j]) <=>
               /\ d.facts[i].decimals = d.facts[j].decimals
               /\ D!AreFactsValueEqual(d.facts[i], d.facts[j])
      BY <1>1, CompletePairs
    <3>2. 1 \in 1..Len(d.facts) /\ \A k \in 2..Len(d.facts) : k \in 1..Len(d.facts)
      BY <1>1
    <3> QED
      BY <2>1, <3>1, <3>2
  <2> QED
    BY <1>1, <2>2 DEF D!AreAllComplete, D!AreAllValueEqual
<1>4. D!AreAnyComplete(d) <=> D!HasType(d, "complete")
  BY CompletePairs, TypesOfPairs DEF Two, D!Complete, D!AreAnyComplete
<1> QED
  BY <1>2, <1>3, <1>4

\* areAllConsistent holds when the facts are consistent in pairs, as soon as they are
\* numeric.
LEMMA ConsistentRight ==
  ASSUME NEW d, FactSet(d), Len(d.facts) > 1, d.numeric
  PROVE  D!AreAllConsistent(d) <=> ~D!HasType(d, "inconsistent")
<1>1. DOMAIN d.facts = 1..Len(d.facts) /\ Len(d.facts) \in Nat /\ {1, 2} \subseteq DOMAIN d.facts
  <2>1. {1, 2} \subseteq DOMAIN d.facts
    BY LenProperties DEF FactSet
  <2> QED
    BY <2>1, FactsAre
<1>2. \A i \in DOMAIN d.facts : D!IsFact(d.facts[i], TRUE) /\ d.facts[i] \in D!Range(d.facts)
  BY FactsAre
<1>3. ASSUME NEW i \in DOMAIN d.facts, NEW j \in DOMAIN d.facts
      PROVE  D!Consistent(d.facts[i], d.facts[j]) <=>
               \/ D!SameKey(d.facts[i], d.facts[j])
               \/ /\ d.facts[i].kind = "value" /\ d.facts[j].kind = "value"
                  /\ d.facts[i].decimals # d.facts[j].decimals
                  /\ D!Lower(d.facts[j]) =< D!Upper(d.facts[i])
                  /\ D!Lower(d.facts[i]) =< D!Upper(d.facts[j])
  BY <1>2, ConsistentPair DEF D!Complete
<1>4. ASSUME D!AreAllComplete(d), NEW i, NEW j, Two(d, i, j)
      PROVE  D!Consistent(d.facts[i], d.facts[j])
  BY <1>3, <1>4, AllComplete DEF Two
<1>5. ASSUME D!AreWithinRoundingError(d), NEW i, NEW j, Two(d, i, j)
      PROVE  D!Consistent(d.facts[i], d.facts[j])
  <2>1. d.facts[i] \in D!Range(d.facts) /\ d.facts[j] \in D!Range(d.facts)
    BY <1>2, <1>5 DEF Two
  <2>2. CASE d.facts[i].decimals = d.facts[j].decimals
    BY <1>3, <1>5, <2>1, <2>2 DEF Two, D!AreWithinRoundingError, D!SameKey
  <2>3. CASE d.facts[i].decimals # d.facts[j].decimals
    BY <1>3, <1>5, <2>1, <2>3 DEF Two, D!AreWithinRoundingError
  <2> QED
    BY <2>2, <2>3
<1>6. ASSUME \A i, j : Two(d, i, j) => D!Consistent(d.facts[i], d.facts[j])
      PROVE  D!AreAllConsistent(d)
  <2>1. ASSUME NEW i \in DOMAIN d.facts, NEW j \in DOMAIN d.facts, i # j
        PROVE  \/ D!SameKey(d.facts[i], d.facts[j])
               \/ /\ d.facts[i].kind = "value" /\ d.facts[j].kind = "value"
                  /\ d.facts[i].decimals # d.facts[j].decimals
                  /\ D!Lower(d.facts[j]) =< D!Upper(d.facts[i])
                  /\ D!Lower(d.facts[i]) =< D!Upper(d.facts[j])
    <3>1. CASE i < j
      <4>1. Two(d, i, j)
        BY <3>1 DEF Two
      <4> QED
        BY <1>3, <1>6, <4>1
    <3>2. CASE j < i
      <4>1. Two(d, j, i)
        BY <3>2 DEF Two
      <4>2. D!Consistent(d.facts[j], d.facts[i])
        BY <1>6, <4>1
      <4>3. CASE D!SameKey(d.facts[j], d.facts[i])
        BY <4>3, CompletePairs
      <4> QED
        BY <1>3, <4>2, <4>3
    <3> QED
      BY <1>1, <2>1, <3>1, <3>2
  <2>2. CASE d.facts[1].kind # "value"
    <3>1. \A j \in DOMAIN d.facts \ {1} : D!SameKey(d.facts[1], d.facts[j])
      BY <1>1, <2>1, <2>2
    <3>2. d.facts[1].kind = "nil"
      BY <1>1, <2>2, <3>1 DEF D!SameKey
    <3>3. \A j \in DOMAIN d.facts \ {1} :
             d.facts[j].kind = "nil" /\ d.facts[j].decimals = d.facts[1].decimals
      BY <2>2, <3>1 DEF D!SameKey
    <3> QED
      BY <1>1, <3>2, <3>3
         DEF D!AreAllConsistent, D!AreAllComplete, D!AreAllValueEqual, D!AreFactsValueEqual
  <2>3. CASE d.facts[1].kind = "value"
    <3>1. \A j \in DOMAIN d.facts : d.facts[j].kind = "value"
      <4> SUFFICES ASSUME NEW j \in DOMAIN d.facts, j # 1 PROVE d.facts[j].kind = "value"
        BY <2>3
      <4> QED
        BY <1>1, <2>1, <2>3 DEF D!SameKey
    <3>2. ASSUME NEW i \in DOMAIN d.facts, NEW j \in DOMAIN d.facts
          PROVE  /\ d.facts[i].decimals = d.facts[j].decimals => d.facts[i].value = d.facts[j].value
                 /\ D!Lower(d.facts[i]) =< D!Upper(d.facts[j])
      <4>1. /\ d.facts[i].value \in Int /\ d.facts[j].value \in Int
            /\ d.facts[i].decimals \in DOMAIN HalfWidth
            /\ d.facts[j].decimals \in DOMAIN HalfWidth
        BY <1>2, <3>1 DEF D!IsFact
      <4>2. /\ D!Lower(d.facts[i]) \in Int /\ D!Lower(d.facts[i]) =< d.facts[i].value
            /\ D!Upper(d.facts[j]) \in Int /\ d.facts[j].value =< D!Upper(d.facts[j])
        BY <4>1, BoundsAre
      <4>3. CASE d.facts[i].value = d.facts[j].value
        BY <4>1, <4>2, <4>3
      <4>4. CASE d.facts[i].value # d.facts[j].value
        BY <2>1, <3>1, <4>4 DEF D!SameKey
      <4> QED
        BY <4>3, <4>4
    <3> QED
      BY <3>1, <3>2 DEF D!AreAllConsistent, D!AreWithinRoundingError, D!Range
  <2> QED
    BY <2>2, <2>3
<1>7. ASSUME D!AreAllConsistent(d), D!HasType(d, "inconsistent") PROVE FALSE
  <2>1. PICK i, j : Two(d, i, j) /\ ~D!Consistent(d.facts[i], d.facts[j])
    BY <1>7, TypesOfPairs
  <2>2. ~D!AreAllComplete(d)
    BY <1>4, <2>1
  <2>3. ~D!AreWithinRoundingError(d)
    BY <1>5, <2>1
  <2> QED
    BY <1>7, <2>2, <2>3 DEF D!AreAllConsistent
<1>8. ~D!HasType(d, "inconsistent") => D!AreAllConsistent(d)
  BY <1>6, TypesOfPairs
<1> QED
  BY <1>7, <1>8

\* Facts that are not numeric: a set is inconsistent if the values differ.
LEMMA ValuesRight ==
  ASSUME NEW d, FactSet(d), Len(d.facts) > 1, D!Plain(d), ~d.numeric
  PROVE  D!AreAllValueEqual(d) <=> ~D!HasType(d, "inconsistent")
<1>1. DOMAIN d.facts = 1..Len(d.facts) /\ Len(d.facts) \in Nat /\ {1, 2} \subseteq DOMAIN d.facts
  <2>1. {1, 2} \subseteq DOMAIN d.facts
    BY LenProperties DEF FactSet
  <2> QED
    BY <2>1, FactsAre
<1>2. \A i \in DOMAIN d.facts : D!IsFact(d.facts[i], FALSE)
  <2>1. d.numeric = FALSE
    BY DEF FactSet
  <2> QED
    BY <2>1, FactsAre
<1>3. \A i \in DOMAIN d.facts : d.facts[i].decimals = d.facts[1].decimals
  BY <1>1, <1>2 DEF D!IsFact
<1>4. D!AreAllComplete(d) <=> D!AreAllValueEqual(d)
  BY <1>3 DEF D!AreAllComplete
<1>5. ASSUME NEW i, NEW j, Two(d, i, j)
      PROVE  D!Consistent(d.facts[i], d.facts[j]) <=> D!Complete(d.facts[i], d.facts[j])
  BY <1>2, <1>5, ConsistentPair DEF Two
<1>6. D!HasType(d, "inconsistent") <=> D!HasType(d, "incomplete")
  BY <1>5, TypesOfPairs
<1> QED
  BY <1>4, <1>6, IncompleteRight

\* Two numbers meet in the loop when they are consistent and rounded differently.
LEMMA MeetingRight ==
  ASSUME NEW f, NEW g, D!IsFact(f, TRUE), D!IsFact(g, TRUE)
  PROVE  /\ D!Meet(f, g) \in {"yes", "no", "raises"}
         /\ D!Meet(f, g) = "raises" => f.kind \in {"nil", "nan"} \/ g.kind \in {"nil", "nan"}
         /\ D!Meet(f, g) = "yes" => D!Consistent(f, g) /\ D!Consistent(g, f)
         /\ D!Meet(f, g) = "no" /\ (D!Consistent(f, g) \/ D!Consistent(g, f)) => D!Complete(f, g)
<1>1. f.kind \in {"value", "nan", "nil"} /\ g.kind \in {"value", "nan", "nil"}
  BY DEF D!IsFact
<1>2. D!Consistent(f, g) <=>
        \/ D!Complete(f, g)
        \/ /\ f.kind = "value" /\ g.kind = "value" /\ f.decimals # g.decimals
           /\ D!Lower(g) =< D!Upper(f) /\ D!Lower(f) =< D!Upper(g)
  BY ConsistentPair
<1>3. D!Consistent(g, f) <=>
        \/ D!Complete(g, f)
        \/ /\ g.kind = "value" /\ f.kind = "value" /\ g.decimals # f.decimals
           /\ D!Lower(f) =< D!Upper(g) /\ D!Lower(g) =< D!Upper(f)
  BY ConsistentPair
<1>4. D!Complete(f, g) <=> D!Complete(g, f)
  BY DEF D!Complete, D!SameKey
<1>5. CASE f.kind = "value" /\ g.kind = "value"
  <2>1. /\ f.value \in Int /\ g.value \in Int
        /\ f.decimals \in DOMAIN HalfWidth /\ g.decimals \in DOMAIN HalfWidth
    BY <1>5 DEF D!IsFact
  <2>2. D!Upper(g) \in Int /\ D!Lower(f) \in Int
    BY <2>1, BoundsAre
  <2>3. D!Upper(g) >= D!Lower(f) <=> D!Lower(f) =< D!Upper(g)
    BY <2>2
  <2>4. D!Meet(f, g) = IF f.decimals = g.decimals THEN "no"
                       ELSE IF D!Lower(g) =< D!Upper(f) /\ D!Lower(f) =< D!Upper(g)
                            THEN "yes" ELSE "no"
    BY <1>5, <2>3 DEF D!Meet
  <2> QED
    BY <1>2, <1>3, <1>4, <1>5, <2>4
<1>6. CASE ~(f.kind = "value" /\ g.kind = "value")
  <2>1. D!Meet(f, g) \in {"no", "raises"}
    BY <1>1, <1>6 DEF D!Meet
  <2> QED
    BY <1>1, <1>2, <1>3, <1>4, <1>6, <2>1
<1> QED
  BY <1>5, <1>6

\* areAnyConsistent takes the first pair that answers; when it answers it is right.
LEMMA AnyConsistentRight ==
  ASSUME NEW d, FactSet(d), Len(d.facts) > 1
  PROVE  /\ D!AreAnyConsistent(d) \in {"yes", "no", "raises"}
         /\ D!AreAnyConsistent(d) = "raises" => D!Nil(d) \/ D!NotANumber(d)
         /\ D!Plain(d) /\ D!AreAnyConsistent(d) = "yes" => D!HasType(d, "consistent")
         /\ D!Plain(d) /\ D!AreAnyConsistent(d) = "no" => ~D!HasType(d, "consistent")
<1> DEFINE fs == d.facts
           Met(i) == {j \in 1..(i - 1) : D!Meet(fs[i], fs[j]) # "no"}
           Answers == {i \in DOMAIN fs : fs[i].kind = "nil" \/ Met(i) # {}}
           AnswerAt(i) == IF fs[i].kind = "nil" THEN "raises"
                          ELSE D!Meet(fs[i], fs[D!Min(Met(i))])
<1>1. D!AreAnyConsistent(d) = IF D!AreAnyComplete(d) THEN "yes"
                              ELSE IF ~d.numeric \/ Answers = {} THEN "no"
                              ELSE AnswerAt(D!Min(Answers))
  BY DEF D!AreAnyConsistent
<1>2. /\ DOMAIN fs = 1..Len(fs) /\ Len(fs) \in Nat
      /\ \A i \in DOMAIN fs : D!IsFact(fs[i], d.numeric)
  <2>1. 1 \in DOMAIN fs
    BY LenProperties DEF FactSet
  <2> QED
    BY <2>1, FactsAre
<1>3. D!Plain(d) => (D!AreAnyComplete(d) <=> D!HasType(d, "complete"))
  BY IncompleteRight
<1>4. D!HasType(d, "complete") => D!HasType(d, "consistent")
  BY TypesOfPairs DEF D!Consistent
<1>5. CASE D!AreAnyComplete(d)
  BY <1>1, <1>3, <1>4, <1>5
<1>6. CASE ~D!AreAnyComplete(d) /\ ~d.numeric
  <2>1. ASSUME NEW i, NEW j, Two(d, i, j), D!Consistent(fs[i], fs[j])
        PROVE  D!Complete(fs[i], fs[j])
    <3>1. d.numeric = FALSE /\ FALSE \in BOOLEAN
      BY <1>6 DEF FactSet
    <3>2. D!IsFact(fs[i], FALSE) /\ D!IsFact(fs[j], FALSE)
      BY <1>2, <2>1, <3>1 DEF Two
    <3> QED
      BY <2>1, <3>1, <3>2, ConsistentPair
  <2>2. D!HasType(d, "consistent") => D!HasType(d, "complete")
    BY <2>1, TypesOfPairs
  <2> QED
    BY <1>1, <1>3, <1>6, <2>2
<1>7. CASE ~D!AreAnyComplete(d) /\ d.numeric
  <2>1. \A i \in DOMAIN fs : D!IsFact(fs[i], TRUE)
    <3>1. d.numeric = TRUE
      BY <1>7 DEF FactSet
    <3> QED
      BY <1>2, <3>1
  <2>2. CASE Answers = {}
    <3>1. ASSUME NEW i, NEW j, Two(d, i, j), D!Consistent(fs[i], fs[j])
          PROVE  D!Complete(fs[i], fs[j])
      <4>1. i \in DOMAIN fs /\ j \in DOMAIN fs /\ i \in 1..(j - 1)
        BY <1>2, <3>1 DEF Two
      <4>2. D!Meet(fs[j], fs[i]) = "no"
        BY <2>2, <4>1
      <4>3. D!Complete(fs[j], fs[i])
        BY <2>1, <3>1, <4>1, <4>2, MeetingRight
      <4> QED
        BY <4>3 DEF D!Complete, D!SameKey
    <3>2. D!HasType(d, "consistent") => D!HasType(d, "complete")
      BY <3>1, TypesOfPairs
    <3> QED
      BY <1>1, <1>3, <1>7, <2>2, <3>2
  <2>3. CASE Answers # {}
    <3> DEFINE m == D!Min(Answers)
               k == D!Min(Met(m))
    <3>1. m \in Answers
      <4>1. Answers \in SUBSET Nat
        BY <1>2
      <4> HIDE DEF Answers
      <4> QED
        BY <2>3, <4>1, LeastOf
    <3>2. D!AreAnyConsistent(d) = AnswerAt(m)
      BY <1>1, <1>7, <2>3
    <3>3. CASE fs[m].kind = "nil"
      BY <3>1, <3>2, <3>3 DEF D!Nil
    <3>4. CASE fs[m].kind # "nil"
      <4>1. k \in Met(m)
        <5>1. \A i \in Answers : fs[i].kind # "nil" => Met(i) # {}
          OBVIOUS
        <5>2. \A i : Met(i) \in SUBSET Nat
          OBVIOUS
        <5> HIDE DEF Met, Answers, m
        <5> QED
          BY <3>1, <3>4, <5>1, <5>2, LeastOf DEF k
      <4>2. /\ m \in DOMAIN fs /\ k \in DOMAIN fs /\ Two(d, k, m)
            /\ D!Meet(fs[m], fs[k]) # "no"
        <5> HIDE DEF m, k
        <5> QED
          BY <1>2, <3>1, <4>1 DEF Two
      <4>3. D!AreAnyConsistent(d) = D!Meet(fs[m], fs[k])
        BY <3>2, <3>4
      <4> HIDE DEF m, k, Met, Answers, AnswerAt
      <4>4. CASE D!Meet(fs[m], fs[k]) = "raises"
        <5>1. fs[m].kind \in {"nil", "nan"} \/ fs[k].kind \in {"nil", "nan"}
          BY <2>1, <4>2, <4>4, MeetingRight
        <5> QED
          BY <4>2, <4>3, <4>4, <5>1 DEF D!Nil, D!NotANumber
      <4>5. CASE D!Meet(fs[m], fs[k]) = "yes"
        <5>1. D!Consistent(fs[k], fs[m])
          BY <2>1, <4>2, <4>5, MeetingRight
        <5> QED
          BY <4>2, <4>3, <4>5, <5>1, TypesOfPairs
      <4>6. D!Meet(fs[m], fs[k]) \in {"yes", "no", "raises"}
        BY <2>1, <4>2, MeetingRight
      <4> QED
        BY <4>2, <4>4, <4>5, <4>6
    <3> QED
      BY <3>3, <3>4
  <2> QED
    BY <2>2, <2>3
<1> QED
  BY <1>5, <1>6, <1>7

LEMMA WarningsAreRight ==
  ASSUME NEW d, FactSet(d), Len(d.facts) > 1
  PROVE  D!WarningsRight(d)
<1>1. /\ D!DoesSetHaveDuplicateType(d, "inconsistent") = D!Answer(D!AreAnyInconsistent(d))
      /\ D!DoesSetHaveDuplicateType(d, "consistent") = D!AreAnyConsistent(d)
      /\ D!DoesSetHaveDuplicateType(d, "incomplete") = D!Answer(~D!AreAllComplete(d))
      /\ D!DoesSetHaveDuplicateType(d, "complete") = D!Answer(D!AreAnyComplete(d))
  BY DEF D!DoesSetHaveDuplicateType
<1>3. D!Answer(D!AreAnyInconsistent(d)) \in {"yes", "no"}
  BY DEF D!Answer
<1>4. D!Answer(~D!AreAllComplete(d)) \in {"yes", "no"}
  BY DEF D!Answer
<1>5. D!Answer(D!AreAnyComplete(d)) \in {"yes", "no"}
  BY DEF D!Answer
<1>6. D!Plain(d) \/ d.numeric => D!Answer(D!AreAnyInconsistent(d)) = D!Answer(D!HasType(d, "inconsistent"))
  <2>1. CASE d.numeric
    BY <2>1, ConsistentRight DEF D!AreAnyInconsistent, D!Answer
  <2>2. CASE ~d.numeric /\ D!Plain(d)
    BY <2>2, ValuesRight DEF D!AreAnyInconsistent, D!Answer
  <2> QED
    BY <2>1, <2>2
<1>7. D!Plain(d) => /\ D!Answer(~D!AreAllComplete(d)) = D!Answer(D!HasType(d, "incomplete"))
                    /\ D!Answer(D!AreAnyComplete(d)) = D!Answer(D!HasType(d, "complete"))
  BY IncompleteRight DEF D!Answer
<1>8. D!Plain(d) => D!AreAnyConsistent(d) \in {"raises", D!Answer(D!HasType(d, "consistent"))}
  BY AnyConsistentRight DEF D!Answer
<1>9. D!AreAnyConsistent(d) = "raises" => D!Nil(d) \/ D!NotANumber(d)
  BY AnyConsistentRight
<1> SUFFICES ASSUME NEW type \in {"inconsistent", "consistent", "incomplete", "complete"}
             PROVE  LET answer == D!DoesSetHaveDuplicateType(d, type)
                    IN  /\ answer = "raises" => type = "consistent" /\ (D!Nil(d) \/ D!NotANumber(d))
                        /\ D!Plain(d) \/ (type = "inconsistent" /\ d.numeric) =>
                             answer \in {"raises", D!Answer(D!HasType(d, type))}
  BY DEF D!WarningsRight
<1> QED
  BY <1>1, <1>3, <1>4, <1>5, <1>6, <1>7, <1>8, <1>9

\* deduplicateCompleteSubsets keeps the first of the facts with a key.
LEMMA FirstsKept ==
  ASSUME NEW d, FactSet(d)
  PROVE  LET complete == D!DeduplicateCompleteSubsets(d.facts)
         IN  /\ complete \subseteq DOMAIN d.facts
             /\ \A i \in DOMAIN d.facts : \E k \in complete : k = i \/ D!Complete(d.facts[k], d.facts[i])
             /\ \A k, l \in complete : k # l => ~D!Complete(d.facts[k], d.facts[l])
<1> DEFINE fs == d.facts
           complete == D!DeduplicateCompleteSubsets(fs)
<1>1. complete \subseteq DOMAIN fs
  BY DEF D!DeduplicateCompleteSubsets
<1>2. ASSUME NEW i \in DOMAIN fs
      PROVE  \E k \in complete : k = i \/ D!Complete(fs[k], fs[i])
  <2> DEFINE S == {k \in 1..i : k = i \/ D!SameKey(fs[k], fs[i])}
             m == D!Min(S)
  <2>1. DOMAIN fs = 1..Len(fs) /\ Len(fs) \in Nat
    BY FactsAre
  <2>2. m \in S /\ \A k \in S : m =< k
    <3>1. S \in SUBSET Nat /\ i \in S
      BY <2>1
    <3> HIDE DEF S
    <3> QED
      BY <3>1, LeastOf
  <2>3. ASSUME NEW j \in 1..(m - 1) PROVE ~D!SameKey(fs[j], fs[m])
    <3> HIDE DEF m
    <3>1. j \in 1..i /\ j < m
      BY <2>1, <2>2
    <3>2. j \notin S
      BY <2>1, <2>2, <3>1
    <3> QED
      BY <2>2, <3>1, <3>2, CompletePairs
  <2>4. m \in DOMAIN fs
    <3> HIDE DEF m
    <3> QED
      BY <2>1, <2>2
  <2>5. m \in complete
    BY <2>3, <2>4 DEF D!DeduplicateCompleteSubsets
  <2> QED
    BY <2>2, <2>5 DEF D!Complete
<1>3. ASSUME NEW k \in complete, NEW l \in complete, k # l
      PROVE  ~D!SameKey(fs[k], fs[l])
  <2>1. /\ k \in DOMAIN fs /\ l \in DOMAIN fs
        /\ \A j \in 1..(l - 1) : ~D!SameKey(fs[j], fs[l])
        /\ \A j \in 1..(k - 1) : ~D!SameKey(fs[j], fs[k])
    BY DEF D!DeduplicateCompleteSubsets
  <2>2. DOMAIN fs = 1..Len(fs) /\ Len(fs) \in Nat
    BY <2>1, FactsAre
  <2>3. k \in 1..(l - 1) \/ l \in 1..(k - 1)
    BY <1>3, <2>1, <2>2
  <2> QED
    BY <2>1, <2>3, CompletePairs
<1> QED
  BY <1>1, <1>2, <1>3 DEF D!Complete

\* Facts that are consistent and not complete are numbers, rounded differently.
LEMMA ConsistentOnly ==
  ASSUME NEW d, FactSet(d), NEW i \in DOMAIN d.facts, NEW j \in DOMAIN d.facts
  PROVE  D!Consistent(d.facts[i], d.facts[j]) /\ ~D!Complete(d.facts[i], d.facts[j]) <=>
            /\ d.numeric
            /\ d.facts[i].kind = "value" /\ d.facts[j].kind = "value"
            /\ d.facts[i].decimals # d.facts[j].decimals
            /\ D!Lower(d.facts[j]) =< D!Upper(d.facts[i])
            /\ D!Lower(d.facts[i]) =< D!Upper(d.facts[j])
<1>1. d.numeric \in BOOLEAN /\ D!IsFact(d.facts[i], d.numeric) /\ D!IsFact(d.facts[j], d.numeric)
  BY FactsAre DEF FactSet
<1> QED
  BY <1>1, ConsistentPair DEF D!Complete, D!SameKey

\* A numeric fact has no decimals only when it is nil.
LEMMA DecimalsAre ==
  ASSUME NEW d, FactSet(d), d.numeric, NEW i \in DOMAIN d.facts
  PROVE  /\ d.facts[i].decimals = NoDecimals => d.facts[i].kind = "nil"
         /\ d.facts[i].decimals # NoDecimals => d.facts[i].decimals \in Int
         /\ d.facts[i].kind = "value" =>
              /\ d.facts[i].decimals \in Int
              /\ D!Lower(d.facts[i]) \in Int /\ D!Upper(d.facts[i]) \in Int
<1>1. D!IsFact(d.facts[i], TRUE)
  <2>1. d.numeric = TRUE
    BY DEF FactSet
  <2> QED
    BY <2>1, FactsAre
<1> QED
  BY <1>1, FactsAssumption, BoundsAre DEF D!IsFact

\* deduplicateConsistentPairs looks for a more precise fact only among those it keeps:
\* the others have the key, and so the interval, of one of them.
LEMMA PairsRight ==
  ASSUME NEW d, FactSet(d), Len(d.facts) > 1
  PROVE  LET pairs == D!DeduplicateConsistentPairs(d)
         IN  /\ pairs.raises => D!Nil(d)
             /\ ~pairs.raises => pairs.kept =
                  {i \in D!DeduplicateCompleteSubsets(d.facts) : \A j \in DOMAIN d.facts :
                     D!Consistent(d.facts[i], d.facts[j]) /\ ~D!Complete(d.facts[i], d.facts[j]) =>
                       d.facts[j].decimals < d.facts[i].decimals}
<1> DEFINE fs == d.facts
           complete == D!DeduplicateCompleteSubsets(fs)
           Overrides(i, j) ==
             /\ fs[i].decimals < fs[j].decimals
             /\ fs[i].kind = "value" /\ fs[j].kind = "value"
             /\ D!Lower(fs[j]) =< D!Upper(fs[i]) /\ D!Upper(fs[j]) >= D!Lower(fs[i])
           Refined(i, j) == D!Consistent(fs[i], fs[j]) /\ ~D!Complete(fs[i], fs[j])
           Precise == {i \in complete : \A j \in DOMAIN fs :
                          Refined(i, j) => fs[j].decimals < fs[i].decimals}
           pairs == D!DeduplicateConsistentPairs(d)
<1>1. /\ complete \subseteq DOMAIN fs
      /\ \A i \in DOMAIN fs : \E k \in complete : k = i \/ D!Complete(fs[k], fs[i])
  BY FirstsKept
<1>2. pairs = IF (\A i, j \in complete : i = j) \/ ~d.numeric THEN D!Kept(complete)
              ELSE IF \E i \in complete : fs[i].decimals = NoDecimals THEN D!AssertionError
              ELSE D!Kept({i \in complete : ~\E j \in complete : Overrides(i, j)})
  BY DEF D!DeduplicateConsistentPairs
<1>3. ASSUME NEW i \in complete, NEW j \in DOMAIN fs, Refined(i, j),
             (\A k, l \in complete : k = l) \/ ~d.numeric
      PROVE  FALSE
  <2>1. d.numeric /\ fs[i].kind = "value" /\ fs[i].decimals # fs[j].decimals
    BY <1>1, <1>3, ConsistentOnly
  <2>2. PICK k \in complete : k = j \/ D!Complete(fs[k], fs[j])
    BY <1>1
  <2>3. k = i
    BY <1>3, <2>1
  <2> QED
    BY <1>3, <2>1, <2>2, <2>3
<1>4. CASE (\A i, j \in complete : i = j) \/ ~d.numeric
  <2>1. complete = Precise
    BY <1>3, <1>4
  <2>2. ~pairs.raises /\ pairs.kept = complete
    BY <1>2, <1>4 DEF D!Kept
  <2> QED
    BY <2>1, <2>2
<1>5. CASE d.numeric /\ \E i \in complete : fs[i].decimals = NoDecimals
  <2>1. D!Nil(d)
    BY <1>1, <1>5, DecimalsAre DEF D!Nil
  <2>2. ASSUME ~((\A i, j \in complete : i = j) \/ ~d.numeric)
        PROVE  pairs.raises = TRUE
    <3> HIDE DEF Overrides, complete, pairs
    <3> QED
      BY <1>2, <1>5, <2>2 DEF D!AssertionError
  <2> QED
    BY <1>4, <2>1, <2>2
<1>6. CASE d.numeric /\ ~((\A i, j \in complete : i = j) \/ \E i \in complete : fs[i].decimals = NoDecimals)
  <2>1. ASSUME NEW i \in complete, NEW j \in DOMAIN fs, Refined(i, j),
               ~(fs[j].decimals < fs[i].decimals)
        PROVE  \E k \in complete : Overrides(i, k)
    <3>1. /\ fs[i].kind = "value" /\ fs[j].kind = "value"
          /\ fs[i].decimals # fs[j].decimals
          /\ D!Lower(fs[j]) =< D!Upper(fs[i]) /\ D!Lower(fs[i]) =< D!Upper(fs[j])
      BY <1>1, <2>1, ConsistentOnly
    <3>2. /\ fs[i].decimals \in Int /\ fs[j].decimals \in Int
          /\ D!Lower(fs[i]) \in Int /\ D!Upper(fs[j]) \in Int
      BY <1>1, <1>6, <3>1, DecimalsAre
    <3>3. PICK k \in complete : k = j \/ D!Complete(fs[k], fs[j])
      BY <1>1
    <3>4. fs[k].kind = "value" /\ fs[k].value = fs[j].value /\ fs[k].decimals = fs[j].decimals
      BY <3>1, <3>3 DEF D!Complete, D!SameKey
    <3>5. D!Lower(fs[k]) = D!Lower(fs[j]) /\ D!Upper(fs[k]) = D!Upper(fs[j])
      BY <3>4 DEF D!Lower, D!Upper
    <3>6. fs[i].decimals < fs[j].decimals /\ D!Upper(fs[j]) >= D!Lower(fs[i])
      BY <2>1, <3>1, <3>2
    <3> QED
      BY <3>1, <3>4, <3>5, <3>6
  <2>2. ASSUME NEW i \in complete, NEW k \in complete, Overrides(i, k)
        PROVE  Refined(i, k) /\ ~(fs[k].decimals < fs[i].decimals)
    <3>1. /\ fs[i].decimals \in Int /\ fs[k].decimals \in Int
          /\ D!Lower(fs[i]) \in Int /\ D!Upper(fs[k]) \in Int
      BY <1>1, <1>6, <2>2, DecimalsAre
    <3>2. /\ fs[i].decimals # fs[k].decimals /\ ~(fs[k].decimals < fs[i].decimals)
          /\ D!Lower(fs[i]) =< D!Upper(fs[k])
      BY <2>2, <3>1
    <3> QED
      BY <1>1, <1>6, <2>2, <3>2, ConsistentOnly
  <2>3. {i \in complete : ~\E j \in complete : Overrides(i, j)} = Precise
    <3> HIDE DEF Overrides, Refined, complete
    <3> QED
      BY <1>1, <2>1, <2>2
  <2>4. ~pairs.raises /\ pairs.kept = {i \in complete : ~\E j \in complete : Overrides(i, j)}
    <3> HIDE DEF Overrides, complete, pairs
    <3> QED
      BY <1>2, <1>6 DEF D!Kept
  <2> QED
    BY <2>3, <2>4
<1> QED
  BY <1>4, <1>5, <1>6

\* Of facts with decimals there is a first of those with the most.
LEMMA FirstMostPrecise ==
  ASSUME NEW fs, NEW n \in Nat \ {0}, \A i \in 1..n : fs[i].decimals \in Int
  PROVE  \E i \in 1..n :
            {k \in 1..n : /\ \A j \in 1..n : fs[j].decimals =< fs[k].decimals
                          /\ \A j \in 1..(k - 1) : fs[j].decimals < fs[k].decimals} = {i}
<1> DEFINE Most(k, i) == i \in 1..k /\ \A j \in 1..k : fs[j].decimals =< fs[i].decimals
           Without == {k \in 1..n : ~\E i : Most(k, i)}
           Mosts == {i \in 1..n : Most(n, i)}
           Firsts == {k \in 1..n : /\ \A j \in 1..n : fs[j].decimals =< fs[k].decimals
                                   /\ \A j \in 1..(k - 1) : fs[j].decimals < fs[k].decimals}
<1>1. Without = {}
  <2> SUFFICES ASSUME Without # {} PROVE FALSE
    OBVIOUS
  <2> DEFINE m == D!Min(Without)
  <2>1. m \in Without /\ \A k \in Without : m =< k
    <3>1. Without \in SUBSET Nat
      OBVIOUS
    <3> HIDE DEF Without
    <3> QED
      BY <3>1, LeastOf
  <2> HIDE DEF m
  <2>2. m \in 1..n /\ ~\E i : Most(m, i)
    BY <2>1
  <2>3. CASE m = 1
    <3>1. Most(1, 1)
      BY <2>2, <2>3
    <3> QED
      BY <2>2, <2>3, <3>1
  <2>4. CASE m # 1
    <3>1. m - 1 \in 1..n /\ m - 1 \notin Without
      BY <2>1, <2>2, <2>4
    <3>2. PICK i : Most(m - 1, i)
      BY <3>1
    <3>3. i \in 1..n /\ i \in 1..m /\ fs[i].decimals \in Int /\ fs[m].decimals \in Int
      BY <2>2, <3>2
    <3>4. CASE fs[m].decimals =< fs[i].decimals
      <4>1. Most(m, i)
        <5> SUFFICES ASSUME NEW j \in 1..m PROVE fs[j].decimals =< fs[i].decimals
          BY <3>3
        <5>1. j = m \/ j \in 1..(m - 1)
          <6>1. m \in Nat
            BY <2>2
          <6> QED
            BY <6>1, LastOf
        <5> QED
          BY <3>2, <3>4, <5>1
      <4> QED
        BY <2>2, <4>1
    <3>5. CASE fs[i].decimals < fs[m].decimals
      <4>1. Most(m, m)
        <5> SUFFICES ASSUME NEW j \in 1..m PROVE fs[j].decimals =< fs[m].decimals
          BY <2>2
        <5>1. j = m \/ j \in 1..(m - 1)
          <6>1. m \in Nat
            BY <2>2
          <6> QED
            BY <6>1, LastOf
        <5>2. j \in 1..n /\ fs[j].decimals \in Int
          BY <2>2
        <5> QED
          BY <3>2, <3>3, <3>5, <5>1, <5>2
      <4> QED
        BY <2>2, <4>1
    <3> QED
      BY <3>3, <3>4, <3>5
  <2> QED
    BY <2>3, <2>4
<1>2. Mosts # {}
  <2>1. n \in 1..n
    OBVIOUS
  <2> QED
    BY <1>1, <2>1
<1> DEFINE first == D!Min(Mosts)
<1>3. first \in Mosts /\ \A i \in Mosts : first =< i
  <2>1. Mosts \in SUBSET Nat
    OBVIOUS
  <2> HIDE DEF Mosts
  <2> QED
    BY <1>2, <2>1, LeastOf
<1> HIDE DEF first
<1>4. first \in Firsts
  <2>1. first \in 1..n /\ \A j \in 1..n : fs[j].decimals =< fs[first].decimals
    BY <1>3
  <2> SUFFICES ASSUME NEW j \in 1..(first - 1) PROVE fs[j].decimals < fs[first].decimals
    BY <2>1
  <2>2. j \in 1..n /\ j < first
    BY <2>1
  <2>3. j \notin Mosts
    BY <1>3, <2>1, <2>2
  <2>4. PICK l \in 1..n : ~(fs[l].decimals =< fs[j].decimals)
    BY <2>2, <2>3
  <2>5. fs[l].decimals =< fs[first].decimals
    BY <2>1
  <2> QED
    BY <2>1, <2>2, <2>4, <2>5
<1>5. ASSUME NEW k \in Firsts PROVE k = first
  <2>1. k \in Mosts
    OBVIOUS
  <2>2. first \in 1..n /\ k \in 1..n /\ first =< k
    BY <1>3, <2>1
  <2>3. ASSUME first < k PROVE FALSE
    <3>1. first \in 1..(k - 1)
      BY <2>2, <2>3
    <3>2. fs[first].decimals < fs[k].decimals /\ fs[k].decimals =< fs[first].decimals
      BY <1>3, <2>2, <3>1
    <3> QED
      BY <2>2, <3>2
  <2> QED
    BY <2>2, <2>3
<1>6. Firsts = {first} /\ first \in 1..n
  BY <1>3, <1>4, <1>5
<1> QED
  BY <1>6

LEMMA DeduplicationIsRight ==
  ASSUME NEW d, FactSet(d), d.facts # <<>>
  PROVE  D!DeduplicationRight(d)
<1> DEFINE fs == d.facts
           firsts == D!DeduplicateCompleteSubsets(fs)
           complete == D!Deduplicate(d, "complete")
           pairs == D!Deduplicate(d, "consistent-pairs")
           sets  == D!Deduplicate(d, "consistent-sets")
           Precise == {i \in firsts : \A j \in DOMAIN fs :
                          D!Consistent(fs[i], fs[j]) /\ ~D!Complete(fs[i], fs[j]) =>
                            fs[j].decimals < fs[i].decimals}
<1>1. DOMAIN fs = 1..Len(fs) /\ Len(fs) \in Nat /\ Len(fs) > 0
  <2>1. fs \in Seq(NumericFacts \cup OtherFacts)
    BY DEF FactSet
  <2>2. Len(fs) \in Nat /\ DOMAIN fs = 1..Len(fs)
    BY <2>1, LenProperties
  <2>3. Len(fs) # 0
    BY <2>1, EmptySeq
  <2> QED
    BY <2>2, <2>3
<1>2. /\ firsts \subseteq DOMAIN fs
      /\ \A i \in DOMAIN fs : \E k \in firsts : k = i \/ D!Complete(fs[k], fs[i])
      /\ \A k, l \in firsts : k # l => ~D!Complete(fs[k], fs[l])
  BY FirstsKept
<1>3. Len(fs) = 1 => DOMAIN fs = {1} /\ firsts = {1}
  BY <1>1, <1>2
<1>4. complete = D!Kept(firsts)
  <2>1. Len(fs) = 1 \/ ~(Len(fs) < 2)
    BY <1>1, OneOrMore
  <2>2. complete = IF Len(fs) < 2 THEN D!Kept(DOMAIN fs) ELSE D!Kept(firsts)
    BY DEF D!Deduplicate
  <2> QED
    BY <1>3, <2>1, <2>2
<1>5. ~complete.raises /\ complete.kept = firsts
  <2> HIDE DEF complete
  <2> QED
    BY <1>4 DEF D!Kept
<1>6. /\ pairs.raises => D!Nil(d)
      /\ ~pairs.raises => pairs.kept = Precise
  <2>1. CASE Len(fs) = 1
    <3>1. pairs = D!Kept(DOMAIN fs)
      BY <2>1 DEF D!Deduplicate
    <3>2. ~pairs.raises /\ pairs.kept = {1}
      <4> HIDE DEF pairs
      <4> QED
        BY <1>3, <2>1, <3>1 DEF D!Kept
    <3>3. Precise = {1}
      <4>1. ~(D!Consistent(fs[1], fs[1]) /\ ~D!Complete(fs[1], fs[1]))
        BY <1>3, <2>1, ConsistentOnly
      <4> QED
        BY <1>3, <2>1, <4>1
    <3> QED
      BY <3>2, <3>3
  <2>2. CASE Len(fs) # 1
    <3>1. Len(fs) > 1 /\ ~(Len(fs) < 2)
      BY <1>1, <2>2, OneOrMore
    <3>2. pairs = D!DeduplicateConsistentPairs(d)
      BY <3>1 DEF D!Deduplicate
    <3> QED
      BY <3>1, <3>2, PairsRight
  <2> QED
    BY <2>1, <2>2
<1>7. /\ sets.raises => D!Nil(d)
      /\ ~sets.raises =>
           IF d.numeric /\ ~D!HasType(d, "inconsistent")
           THEN \E i \in DOMAIN fs : /\ sets.kept = {i}
                                     /\ \A j \in DOMAIN fs \ {i} : fs[j].decimals =< fs[i].decimals
           ELSE sets.kept = firsts
  <2>1. CASE Len(fs) = 1
    <3>1. sets = D!Kept(DOMAIN fs)
      BY <2>1 DEF D!Deduplicate
    <3>2. ~sets.raises /\ sets.kept = {1}
      <4> HIDE DEF sets
      <4> QED
        BY <1>3, <2>1, <3>1 DEF D!Kept
    <3> QED
      BY <1>3, <2>1, <3>2
  <2>2. CASE Len(fs) # 1
    <3> DEFINE Firsts == {i \in DOMAIN fs :
                            /\ \A j \in DOMAIN fs : fs[j].decimals =< fs[i].decimals
                            /\ \A j \in 1..(i - 1) : fs[j].decimals < fs[i].decimals}
    <3>1. Len(fs) > 1 /\ ~(Len(fs) < 2)
      BY <1>1, <2>2, OneOrMore
    <3>2. sets = D!DeduplicateConsistentSet(d)
      BY <3>1 DEF D!Deduplicate
    <3>3. sets = IF ~d.numeric \/ ~D!AreAllConsistent(d) THEN D!Kept(firsts)
                 ELSE IF \E i \in DOMAIN fs : fs[i].decimals = NoDecimals THEN D!AssertionError
                 ELSE D!Kept(Firsts)
      BY <3>2 DEF D!DeduplicateConsistentSet
    <3>4. d.numeric => (D!AreAllConsistent(d) <=> ~D!HasType(d, "inconsistent"))
      BY <3>1, ConsistentRight
    <3> HIDE DEF sets
    <3>5. CASE ~d.numeric \/ ~D!AreAllConsistent(d)
      <4>1. ~sets.raises /\ sets.kept = firsts
        BY <3>3, <3>5 DEF D!Kept
      <4> QED
        BY <3>4, <3>5, <4>1
    <3>6. CASE d.numeric /\ D!AreAllConsistent(d) /\ \E i \in DOMAIN fs : fs[i].decimals = NoDecimals
      <4>1. sets.raises = TRUE
        BY <3>3, <3>6 DEF D!AssertionError
      <4>2. D!Nil(d)
        BY <3>6, DecimalsAre DEF D!Nil
      <4> QED
        BY <4>1, <4>2
    <3>7. CASE d.numeric /\ D!AreAllConsistent(d) /\ ~\E i \in DOMAIN fs : fs[i].decimals = NoDecimals
      <4>1. ~sets.raises /\ sets.kept = Firsts
        BY <3>3, <3>7 DEF D!Kept
      <4>2. \A i \in DOMAIN fs : fs[i].decimals \in Int
        BY <3>7, DecimalsAre
      <4>3. PICK i \in DOMAIN fs : Firsts = {i}
        <5> DEFINE n == Len(fs)
        <5>1. n \in Nat \ {0} /\ DOMAIN fs = 1..n
          BY <1>1
        <5> HIDE DEF n
        <5>2. \A i \in 1..n : fs[i].decimals \in Int
          BY <4>2, <5>1
        <5>3. \E i \in 1..n :
                 {k \in 1..n : /\ \A j \in 1..n : fs[j].decimals =< fs[k].decimals
                               /\ \A j \in 1..(k - 1) : fs[j].decimals < fs[k].decimals} = {i}
          BY <5>1, <5>2, FirstMostPrecise
        <5>4. Firsts =
                 {k \in 1..n : /\ \A j \in 1..n : fs[j].decimals =< fs[k].decimals
                               /\ \A j \in 1..(k - 1) : fs[j].decimals < fs[k].decimals}
          BY <5>1
        <5> HIDE DEF Firsts
        <5> QED
          BY <5>1, <5>3, <5>4
      <4>4. \A j \in DOMAIN fs \ {i} : fs[j].decimals =< fs[i].decimals
        BY <4>3
      <4> QED
        BY <3>4, <3>7, <4>1, <4>3, <4>4
    <3> QED
      BY <3>5, <3>6, <3>7
  <2> QED
    BY <2>1, <2>2
<1> HIDE DEF complete, pairs, sets, firsts
<1> QED
  BY <1>2, <1>5, <1>6, <1>7 DEF D!DeduplicationRight, complete, pairs, sets

-----------------------------------------------------------------------------
(* Sets of duplicates of any size *)

FactsSpec == input \in FactSets /\ [][AddFact]_input

\* An input is a set of duplicates, which AddFact keeps.
FactsType ==
    /\ input \in [about : {"facts"}, numeric : BOOLEAN, facts : Seq(NumericFacts \cup OtherFacts)]
    /\ FactSet(input)

LEMMA FactsInit == input \in FactSets => FactsType
<1> SUFFICES ASSUME input \in FactSets PROVE FactsType
  OBVIOUS
<1>1. /\ input \in [about : {"facts"}, numeric : BOOLEAN, facts : Seq(NumericFacts \cup OtherFacts)]
      /\ input.facts = <<>> /\ input.numeric \in BOOLEAN
  <2> DEFINE Facts == Seq(NumericFacts \cup OtherFacts)
  <2>1. <<>> \in Facts
    OBVIOUS
  <2> HIDE DEF Facts
  <2>2. input \in [about : {"facts"}, numeric : BOOLEAN, facts : Facts]
    BY <2>1 DEF FactSets
  <2> QED
    BY <2>2 DEF FactSets, Facts
<1>2. D!Range(input.facts) = {}
  BY <1>1 DEF D!Range
<1> QED
  BY <1>1, <1>2 DEF FactsType, FactSet

LEMMA FactsNext == FactsType /\ [AddFact]_input => FactsType'
<1> SUFFICES ASSUME FactsType, AddFact PROVE FactsType'
  BY DEF FactsType, FactSet
<1>1. PICK f \in IF input.numeric THEN NumericFacts ELSE OtherFacts :
         input' = [input EXCEPT !.facts = Append(@, f)]
  BY DEF AddFact
<1> DEFINE fs == input.facts
<1>2. /\ input' \in [about : {"facts"}, numeric : BOOLEAN, facts : Seq(NumericFacts \cup OtherFacts)]
      /\ input'.facts = Append(fs, f) /\ input'.numeric = input.numeric
      /\ input.numeric \in BOOLEAN /\ fs \in Seq(NumericFacts \cup OtherFacts)
      /\ f \in NumericFacts \cup OtherFacts
  BY <1>1 DEF FactsType
<1>3. D!IsFact(f, input.numeric)
  <2>1. CASE input.numeric = TRUE
    BY <1>1, <2>1, FactsAssumption
  <2>2. CASE input.numeric = FALSE
    BY <1>1, <2>2, FactsAssumption
  <2> QED
    BY <1>2, <2>1, <2>2
<1>4. \A g \in D!Range(Append(fs, f)) : g = f \/ g \in D!Range(fs)
  <2> SUFFICES ASSUME NEW i \in DOMAIN Append(fs, f)
               PROVE  Append(fs, f)[i] = f \/ Append(fs, f)[i] \in D!Range(fs)
    BY DEF D!Range
  <2>1. /\ Len(fs) \in Nat /\ DOMAIN fs = 1..Len(fs) /\ DOMAIN Append(fs, f) = 1..(Len(fs) + 1)
        /\ Append(fs, f)[Len(fs) + 1] = f /\ \A k \in 1..Len(fs) : Append(fs, f)[k] = fs[k]
    BY <1>2, AppendProperties, LenProperties
  <2>2. i = Len(fs) + 1 \/ i \in 1..Len(fs)
    BY <2>1
  <2> QED
    BY <2>1, <2>2 DEF D!Range
<1> QED
  BY <1>2, <1>3, <1>4 DEF FactsType, FactSet

\* Whatever the number of facts of a set and whatever their values and their decimals, the
\* warnings and what remains after removing duplicates are right (ValidateDuplicateFacts).
THEOREM DuplicatesAreRight == FactsSpec => []DuplicatesRight
<1>1. FactsType => DuplicatesRight
  BY WarningsAreRight, DeduplicationIsRight DEF DuplicatesRight, FactsType
<1> QED
  BY <1>1, FactsInit, FactsNext, PTL DEF FactsSpec

-----------------------------------------------------------------------------
(* Loops *)

\* What holds first, and for the next number when it holds for one, holds up to n.
LEMMA UpTo ==
  ASSUME NEW n \in Nat, NEW S, 0 \in S, \A k \in 0..(n - 1) : k \in S => k + 1 \in S
  PROVE  \A k \in 0..n : k \in S
<1> DEFINE Without == {k \in 0..n : k \notin S}
<1> SUFFICES ASSUME Without # {} PROVE FALSE
  OBVIOUS
<1> DEFINE m == D!Min(Without)
<1>1. m \in Without /\ \A k \in Without : m =< k
  <2>1. Without \in SUBSET Nat
    OBVIOUS
  <2> HIDE DEF Without
  <2> QED
    BY <2>1, LeastOf
<1> HIDE DEF m
<1>2. m \in 0..n /\ m # 0 /\ m \notin S
  BY <1>1
<1>3. m - 1 \in 0..(n - 1) /\ (m - 1) + 1 = m /\ m - 1 \notin Without
  BY <1>1, <1>2
<1>4. m - 1 \in S
  BY <1>3
<1> QED
  BY <1>2, <1>3, <1>4

\* A set of numbers up to n that is not empty has a greatest one.
LEMMA GreatestOf ==
  ASSUME NEW n \in Nat, NEW S \in SUBSET (1..n), S # {}
  PROVE  \E m \in S : \A k \in S : k =< m
<1> DEFINE T == {n - k : k \in S}
           l == D!Min(T)
<1>1. l \in T /\ \A j \in T : l =< j
  <2>1. \A k \in S : n - k \in Nat
    OBVIOUS
  <2>2. T \in SUBSET Nat /\ T # {}
    BY <2>1
  <2> HIDE DEF T
  <2> QED
    BY <2>2, LeastOf
<1> HIDE DEF l
<1>2. PICK m \in S : l = n - m
  BY <1>1
<1>3. \A k \in S : n - m =< n - k /\ k \in 1..n /\ m \in 1..n
  BY <1>1, <1>2
<1>4. \A k \in S : k =< m
  BY <1>3
<1> QED
  BY <1>4

\* The values of a loop of n steps, of which one follows from the number of the step and
\* the value before it, exist.
Steps(n, S) == [(1..n) \X S -> S]
IsLoop(n, S, init, step, f) ==
    /\ f \in [0..n -> S]
    /\ f = [k \in 0..n |-> IF k = 0 THEN init ELSE step[<<k, f[k - 1]>>]]

LEMMA LoopExists ==
  ASSUME NEW n \in Nat, NEW S, NEW init \in S, NEW step \in Steps(n, S)
  PROVE  \E f : IsLoop(n, S, init, step, f)
<1>0. step \in [(1..n) \X S -> S]
  BY DEF Steps
<1> DEFINE Loop(k, f) == /\ f \in [0..k -> S] /\ f[0] = init
                         /\ \A j \in 1..k : f[j] = step[<<j, f[j - 1]>>]
           Some == {k \in 0..n : \E f : Loop(k, f)}
<1>1. 0 \in Some
  <2>1. Loop(0, [k \in 0..0 |-> init])
    OBVIOUS
  <2> HIDE DEF Loop
  <2> QED
    BY <2>1
<1>2. ASSUME NEW k \in 0..(n - 1), k \in Some PROVE k + 1 \in Some
  <2>1. PICK f : Loop(k, f)
    BY <1>2
  <2> DEFINE x == step[<<k + 1, f[k]>>]
             g == [j \in 0..(k + 1) |-> IF j = k + 1 THEN x ELSE f[j]]
  <2>2. f[k] \in S /\ k + 1 \in 1..n
    BY <2>1
  <2>3. x \in S
    BY <1>0, <2>2
  <2>4. g \in [0..(k + 1) -> S] /\ g[0] = init
    <3> HIDE DEF x
    <3> QED
      BY <2>1, <2>3
  <2>5. \A j \in 1..(k + 1) : g[j] = step[<<j, g[j - 1]>>]
    <3> SUFFICES ASSUME NEW j \in 1..(k + 1) PROVE g[j] = step[<<j, g[j - 1]>>]
      OBVIOUS
    <3>1. CASE j = k + 1
      <4>1. j - 1 = k /\ j \in 0..(k + 1) /\ k \in 0..(k + 1) /\ k # k + 1
        BY <3>1
      <4>2. g[j] = x /\ g[j - 1] = f[k]
        BY <3>1, <4>1
      <4> QED
        BY <3>1, <4>1, <4>2
    <3>2. CASE j # k + 1
      <4>1. j \in 1..k /\ j - 1 \in 0..k /\ j - 1 # k + 1
        BY <3>2
      <4>2. g[j] = f[j] /\ g[j - 1] = f[j - 1]
        BY <3>2, <4>1
      <4> QED
        BY <2>1, <4>1, <4>2
    <3> QED
      BY <3>1, <3>2
  <2>6. Loop(k + 1, g)
    BY <2>4, <2>5
  <2>7. k + 1 \in 0..n
    OBVIOUS
  <2> HIDE DEF Loop, g
  <2> QED
    BY <2>6, <2>7
<1>3. PICK f : Loop(n, f)
  <2> HIDE DEF Some
  <2>1. n \in Some
    BY <1>1, <1>2, UpTo
  <2> QED
    BY <2>1 DEF Some
<1>4. f = [k \in 0..n |-> f[k]]
  BY <1>3
<1>5. \A k \in 0..n : f[k] = IF k = 0 THEN init ELSE step[<<k, f[k - 1]>>]
  BY <1>3
<1>6. f = [k \in 0..n |-> IF k = 0 THEN init ELSE step[<<k, f[k - 1]>>]]
  BY <1>4, <1>5
<1> QED
  BY <1>3, <1>6 DEF IsLoop

-----------------------------------------------------------------------------
(* Relationships *)

\* What an input has: relationships of one arc have its attributes.
RelSeq(rels) ==
    /\ rels \in Seq(Rels)
    /\ \A i, j \in DOMAIN rels : rels[i].arc = rels[j].arc =>
         /\ rels[i].custom = rels[j].custom /\ rels[i].priority = rels[j].priority
         /\ rels[i].prohibited = rels[j].prohibited

Dictionary == [hash : [Ends -> Rels \cup {NoRel, UsingKey}], key : [Ends \X Customs -> Rels \cup {NoRel}]]

LEMMA RelsAre ==
  ASSUME NEW rels, RelSeq(rels), NEW i \in DOMAIN rels
  PROVE  /\ DOMAIN rels = 1..Len(rels) /\ Len(rels) \in Nat
         /\ rels[i] \in Rels /\ rels[i] # NoRel /\ rels[i] # UsingKey
         /\ rels[i].ends \in Ends /\ rels[i].custom \in Customs
         /\ rels[i].priority \in Int /\ rels[i].prohibited \in BOOLEAN
         /\ R!EquivalenceKey(rels[i]) = <<rels[i].ends, rels[i].custom>>
<1>1. rels \in Seq(Rels)
  BY DEF RelSeq
<1>2. DOMAIN rels = 1..Len(rels) /\ Len(rels) \in Nat /\ rels[i] \in Rels
  BY <1>1, LenProperties, ElementOfSeq
<1> DEFINE r == rels[i]
<1>3. r \in Rels
  BY <1>2
<1> HIDE DEF r
<1>4. /\ r # NoRel /\ r # UsingKey /\ r.ends \in Ends /\ r.custom \in Customs
      /\ r.priority \in Int /\ r.prohibited \in BOOLEAN
  BY <1>3, ArcsAssumption DEF Rels
<1> QED
  BY <1>2, <1>4 DEF R!EquivalenceKey, r

LEMMA SameRel ==
  ASSUME NEW r \in Rels, NEW s \in Rels, r.arc = s.arc, r.ends = s.ends, r.custom = s.custom,
         r.priority = s.priority, r.prohibited = s.prohibited
  PROVE  r = s
  BY DEF Rels

\* The i-th of n relationships is of a class; the m-th one decides on the class: none has
\* a higher priority, none of its priority prohibits unless it does itself, and if none
\* does it is the last.
OfClass(rels, n, k, i) == i \in 1..n /\ R!EquivalenceKey(rels[i]) = k
Decides(rels, n, k, m) ==
    /\ OfClass(rels, n, k, m)
    /\ \A i : OfClass(rels, n, k, i) =>
         /\ rels[i].priority =< rels[m].priority
         /\ rels[i].priority = rels[m].priority =>
              /\ rels[i].prohibited => rels[m].prohibited
              /\ rels[m].prohibited \/ i =< m

\* What the dictionary has for a class.
Holds(rels, n, k, x) ==
    IF \E i : OfClass(rels, n, k, i) THEN \E m : Decides(rels, n, k, m) /\ x = rels[m]
    ELSE x = NoRel

LEMMA HoldsNext ==
  ASSUME NEW rels, RelSeq(rels), NEW n \in 0..(Len(rels) - 1), NEW k, NEW x, Holds(rels, n, k, x)
  PROVE  Holds(rels, n + 1, k,
               IF /\ R!EquivalenceKey(rels[n + 1]) = k
                  /\ x = NoRel \/ R!PriorityOver(rels[n + 1], x)
               THEN rels[n + 1] ELSE x)
<1> DEFINE r == rels[n + 1]
           y == IF R!EquivalenceKey(r) = k /\ (x = NoRel \/ R!PriorityOver(r, x)) THEN r ELSE x
<1>1. DOMAIN rels = 1..Len(rels) /\ Len(rels) \in Nat
  BY LenProperties DEF RelSeq
<1>2. /\ n + 1 \in DOMAIN rels /\ n \in Nat /\ ~(n + 1 \in 1..n) /\ 1..n \subseteq DOMAIN rels
      /\ \A i : i \in 1..(n + 1) <=> i \in 1..n \/ i = n + 1
  BY <1>1
<1>3. \A i \in DOMAIN rels : /\ rels[i] # NoRel /\ rels[i].priority \in Int
                             /\ rels[i].prohibited \in BOOLEAN
  BY RelsAre
<1>4. \A i : OfClass(rels, n + 1, k, i) <=>
               OfClass(rels, n, k, i) \/ (i = n + 1 /\ R!EquivalenceKey(r) = k)
  BY <1>2 DEF OfClass
<1>5. CASE R!EquivalenceKey(r) # k
  <2>1. \A i : OfClass(rels, n + 1, k, i) <=> OfClass(rels, n, k, i)
    BY <1>4, <1>5
  <2>2. y = x
    BY <1>5
  <2> HIDE DEF y, r
  <2> QED
    BY <2>1, <2>2 DEF Holds, Decides, y, r
<1>6. CASE R!EquivalenceKey(r) = k /\ ~\E i : OfClass(rels, n, k, i)
  <2>1. \A i : OfClass(rels, n + 1, k, i) <=> i = n + 1
    BY <1>4, <1>6
  <2>2. Decides(rels, n + 1, k, n + 1)
    BY <1>2, <1>3, <2>1 DEF Decides
  <2>3. y = r
    BY <1>6 DEF Holds
  <2> QED
    BY <2>1, <2>2, <2>3 DEF Holds
<1>7. CASE R!EquivalenceKey(r) = k /\ \E i : OfClass(rels, n, k, i)
  <2>1. PICK m : Decides(rels, n, k, m) /\ x = rels[m]
    BY <1>7 DEF Holds
  <2>2. m \in 1..n /\ m \in DOMAIN rels /\ OfClass(rels, n, k, m) /\ OfClass(rels, n + 1, k, n + 1)
    BY <1>2, <1>4, <1>7, <2>1 DEF Decides, OfClass
  <2>3. x # NoRel
    BY <1>3, <2>1, <2>2
  <2>4. \A i : OfClass(rels, n, k, i) => /\ i \in 1..n /\ i \in DOMAIN rels
                                         /\ rels[i].priority =< x.priority
                                         /\ rels[i].priority = x.priority =>
                                              (rels[i].prohibited => x.prohibited) /\ (x.prohibited \/ i =< m)
    BY <1>2, <2>1 DEF Decides, OfClass
  <2>5. /\ x.priority \in Int /\ r.priority \in Int /\ x.prohibited \in BOOLEAN
        /\ r.prohibited \in BOOLEAN
    BY <1>2, <1>3, <2>1, <2>2
  <2>6. CASE R!PriorityOver(r, x)
    <3>1. Decides(rels, n + 1, k, n + 1)
      <4> SUFFICES ASSUME NEW i, OfClass(rels, n + 1, k, i)
                   PROVE  /\ rels[i].priority =< r.priority
                          /\ rels[i].priority = r.priority =>
                               (rels[i].prohibited => r.prohibited) /\ (r.prohibited \/ i =< n + 1)
        BY <2>2 DEF Decides
      <4>1. CASE i = n + 1
        BY <2>5, <4>1
      <4>2. CASE i # n + 1
        <5>1. OfClass(rels, n, k, i)
          BY <1>4, <4>2
        <5>2. /\ i \in 1..n /\ rels[i].priority \in Int /\ rels[i].priority =< x.priority
              /\ rels[i].priority = x.priority => (rels[i].prohibited => x.prohibited)
          BY <1>3, <2>4, <5>1
        <5>3. x.priority =< r.priority /\ (x.priority = r.priority => ~x.prohibited)
          BY <2>5, <2>6 DEF R!PriorityOver
        <5>4. i =< n + 1
          BY <5>2
        <5>5. rels[i].priority =< r.priority
          BY <2>5, <5>2, <5>3
        <5>6. rels[i].priority = r.priority => rels[i].priority = x.priority /\ x.priority = r.priority
          BY <2>5, <5>2, <5>3
        <5> QED
          BY <5>2, <5>3, <5>4, <5>5, <5>6
      <4> QED
        BY <4>1, <4>2
    <3>2. y = r
      BY <1>7, <2>6
    <3> QED
      BY <2>2, <3>1, <3>2 DEF Holds
  <2>7. CASE ~R!PriorityOver(r, x)
    <3>1. r.priority =< x.priority /\ (r.priority = x.priority => x.prohibited)
      BY <2>5, <2>7 DEF R!PriorityOver
    <3>2. Decides(rels, n + 1, k, m)
      <4> SUFFICES ASSUME NEW i, OfClass(rels, n + 1, k, i)
                   PROVE  /\ rels[i].priority =< x.priority
                          /\ rels[i].priority = x.priority =>
                               (rels[i].prohibited => x.prohibited) /\ (x.prohibited \/ i =< m)
        BY <1>4, <2>1, <2>2 DEF Decides
      <4>1. CASE i = n + 1
        BY <3>1, <4>1
      <4>2. CASE i # n + 1
        BY <1>4, <2>4, <4>2
      <4> QED
        BY <4>1, <4>2
    <3>3. y = x
      BY <2>3, <2>7
    <3> QED
      BY <2>1, <2>2, <3>2, <3>3 DEF Holds
  <2> QED
    BY <2>6, <2>7
<1> QED
  BY <1>5, <1>6, <1>7

\* What is known of the dictionary after n relationships, of those that share a hash.
HashRight(rels, n, d, e) ==
    /\ d.hash[e] = NoRel => \A i \in 1..n : rels[i].ends # e
    /\ d.hash[e] \in Rels =>
         /\ d.hash[e].ends = e /\ \E i \in 1..n : rels[i] = d.hash[e]
         /\ \A i \in 1..n : rels[i].ends = e => rels[i] = d.hash[e]
    /\ d.hash[e] # UsingKey => \A c \in Customs : d.key[<<e, c>>] = NoRel
    /\ d.hash[e] = UsingKey => \A c \in Customs : Holds(rels, n, <<e, c>>, d.key[<<e, c>>])

CollectedRight(rels, n, d) == d \in Dictionary /\ \A e \in Ends : HashRight(rels, n, d, e)

LEMMA DictionaryIs ==
  ASSUME NEW d \in Dictionary
  PROVE  /\ d = [hash |-> d.hash, key |-> d.key]
         /\ d.hash \in [Ends -> Rels \cup {NoRel, UsingKey}]
         /\ d.key \in [Ends \X Customs -> Rels \cup {NoRel}]
  BY DEF Dictionary

\* The keys after a relationship has taken its place among them.
After(key, r) ==
    LET k == R!EquivalenceKey(r)
    IN  IF key[k] = NoRel \/ R!PriorityOver(r, key[k]) THEN [key EXCEPT ![k] = r] ELSE key

\* The cases of a relationship that is added.
LEMMA AddIs ==
  ASSUME NEW d \in Dictionary, NEW r \in Rels, NEW other, other = d.hash[r.ends]
  PROVE  /\ other \in Rels \/ other = NoRel \/ other = UsingKey
         /\ other = NoRel => R!Add(d, r) = [hash |-> [d.hash EXCEPT ![r.ends] = r], key |-> d.key]
         /\ other = UsingKey =>
              R!Add(d, r) = [hash |-> [d.hash EXCEPT ![r.ends] = UsingKey], key |-> After(d.key, r)]
         /\ other \in Rels /\ R!IsIdenticalTo(r, other) => R!Add(d, r) = d
         /\ other \in Rels /\ ~R!IsIdenticalTo(r, other) =>
              R!Add(d, r) = [hash |-> [d.hash EXCEPT ![r.ends] = UsingKey],
                             key |-> After([d.key EXCEPT ![R!EquivalenceKey(other)] = other], r)]
<1> DEFINE moved == IF other \in {NoRel, UsingKey} THEN d.key
                    ELSE [d.key EXCEPT ![R!EquivalenceKey(other)] = other]
           using == [hash |-> [d.hash EXCEPT ![r.ends] = UsingKey], key |-> After(moved, r)]
           first == [hash |-> [d.hash EXCEPT ![r.ends] = r], key |-> d.key]
<1>1. [d EXCEPT !.hash[r.ends] = r] = first
  BY DictionaryIs
<1>2. R!Add(d, r) =
        CASE other = NoRel -> [d EXCEPT !.hash[r.ends] = r]
          [] other \notin {NoRel, UsingKey} /\ R!IsIdenticalTo(r, other) -> d
          [] OTHER -> using
  BY DEF R!Add, After
<1>3. NoRel # UsingKey /\ NoRel \notin Rels /\ UsingKey \notin Rels
  BY ArcsAssumption
<1>4. r.ends \in Ends /\ other \in Rels \cup {NoRel, UsingKey}
  BY DictionaryIs DEF Rels
<1> HIDE DEF using, first
<1>5. other = NoRel => R!Add(d, r) = first
  BY <1>1, <1>2, <1>3
<1>6. other = UsingKey => R!Add(d, r) = using
  BY <1>2, <1>3
<1>7. other \in Rels /\ R!IsIdenticalTo(r, other) => R!Add(d, r) = d
  BY <1>2, <1>3
<1>8. other \in Rels /\ ~R!IsIdenticalTo(r, other) => R!Add(d, r) = using
  BY <1>2, <1>3
<1>9. /\ other = UsingKey => moved = d.key
      /\ other \in Rels => moved = [d.key EXCEPT ![R!EquivalenceKey(other)] = other]
  BY <1>3
<1> HIDE DEF moved
<1> QED
  BY <1>4, <1>5, <1>6, <1>7, <1>8, <1>9 DEF using, first

LEMMA AfterIs ==
  ASSUME NEW key \in [Ends \X Customs -> Rels \cup {NoRel}], NEW r \in Rels
  PROVE  /\ After(key, r) \in [Ends \X Customs -> Rels \cup {NoRel}]
         /\ R!EquivalenceKey(r) = <<r.ends, r.custom>> /\ R!EquivalenceKey(r) \in Ends \X Customs
         /\ \A k \in Ends \X Customs :
              After(key, r)[k] = IF /\ R!EquivalenceKey(r) = k
                                    /\ key[k] = NoRel \/ R!PriorityOver(r, key[k])
                                 THEN r ELSE key[k]
<1> DEFINE k0 == R!EquivalenceKey(r)
<1>1. k0 = <<r.ends, r.custom>> /\ k0 \in Ends \X Customs
  BY DEF R!EquivalenceKey, Rels
<1>2. After(key, r) = IF key[k0] = NoRel \/ R!PriorityOver(r, key[k0])
                      THEN [key EXCEPT ![k0] = r] ELSE key
  BY DEF After
<1> HIDE DEF k0
<1>3. CASE key[k0] = NoRel \/ R!PriorityOver(r, key[k0])
  <2>1. After(key, r) = [key EXCEPT ![k0] = r]
    BY <1>2, <1>3
  <2>2. \A k \in Ends \X Customs : After(key, r)[k] = IF k0 = k THEN r ELSE key[k]
    BY <1>1, <2>1
  <2> QED
    BY <1>1, <1>3, <2>1, <2>2 DEF k0
<1>4. CASE ~(key[k0] = NoRel \/ R!PriorityOver(r, key[k0]))
  BY <1>1, <1>2, <1>4 DEF k0
<1> QED
  BY <1>3, <1>4

LEMMA AfterElsewhere ==
  ASSUME NEW key \in [Ends \X Customs -> Rels \cup {NoRel}], NEW r \in Rels,
         NEW e \in Ends, e # r.ends, NEW c \in Customs
  PROVE  After(key, r)[<<e, c>>] = key[<<e, c>>]
<1>1. <<e, c>> \in Ends \X Customs /\ <<r.ends, r.custom>> # <<e, c>>
  OBVIOUS
<1> QED
  BY <1>1, AfterIs

LEMMA AfterHolds ==
  ASSUME NEW rels, RelSeq(rels), NEW n \in 0..(Len(rels) - 1), NEW k \in Ends \X Customs,
         NEW key \in [Ends \X Customs -> Rels \cup {NoRel}], Holds(rels, n, k, key[k])
  PROVE  Holds(rels, n + 1, k, After(key, rels[n + 1])[k])
<1>1. n + 1 \in DOMAIN rels
  BY LenProperties DEF RelSeq
<1>2. rels[n + 1] \in Rels
  BY <1>1, RelsAre
<1>3. After(key, rels[n + 1])[k] =
         IF /\ R!EquivalenceKey(rels[n + 1]) = k
            /\ key[k] = NoRel \/ R!PriorityOver(rels[n + 1], key[k])
         THEN rels[n + 1] ELSE key[k]
  BY <1>2, AfterIs
<1> QED
  BY <1>3, HoldsNext

\* A relationship does not matter to the others of other hashes.
LEMMA HashElsewhere ==
  ASSUME NEW rels, RelSeq(rels), NEW n \in 0..(Len(rels) - 1), NEW e \in Ends,
         rels[n + 1].ends # e, NEW d, NEW d2, HashRight(rels, n, d, e), d2.hash[e] = d.hash[e],
         \A c \in Customs : d2.key[<<e, c>>] = d.key[<<e, c>>]
  PROVE  HashRight(rels, n + 1, d2, e)
<1>1. /\ n + 1 \in DOMAIN rels /\ n \in Nat
      /\ \A i : i \in 1..(n + 1) <=> i \in 1..n \/ i = n + 1
  BY LenProperties DEF RelSeq
<1>2. ASSUME NEW c \in Customs, Holds(rels, n, <<e, c>>, d.key[<<e, c>>])
      PROVE  Holds(rels, n + 1, <<e, c>>, d.key[<<e, c>>])
  <2>1. R!EquivalenceKey(rels[n + 1]) # <<e, c>>
    BY <1>1, RelsAre
  <2> QED
    BY <1>2, <2>1, HoldsNext
<1> QED
  BY <1>1, <1>2 DEF HashRight

\* What a class has when all relationships of its hash are the same one.
LEMMA HoldsOne ==
  ASSUME NEW rels, RelSeq(rels), NEW n \in 0..Len(rels), NEW e \in Ends, NEW c \in Customs, NEW r \in Rels,
         r.ends = e, \E i \in 1..n : rels[i] = r, \A i \in 1..n : rels[i].ends = e => rels[i] = r
  PROVE  Holds(rels, n, <<e, c>>, IF r.custom = c THEN r ELSE NoRel)
<1> DEFINE k == <<e, c>>
           S == {i \in 1..n : OfClass(rels, n, k, i)}
<1>1. n \in Nat /\ 1..n \subseteq DOMAIN rels
  BY LenProperties DEF RelSeq
<1>2. \A i \in 1..n : /\ R!EquivalenceKey(rels[i]) = <<rels[i].ends, rels[i].custom>>
                      /\ rels[i].priority \in Int
  BY <1>1, RelsAre
<1>3. \A i \in S : i \in 1..n /\ rels[i] = r /\ r.custom = c
  BY <1>2 DEF OfClass
<1>4. CASE r.custom = c
  <2>1. S # {}
    BY <1>2, <1>4 DEF OfClass
  <2>2. PICK m \in S : \A i \in S : i =< m
    <3>1. S \in SUBSET (1..n)
      OBVIOUS
    <3> HIDE DEF S
    <3> QED
      BY <1>1, <2>1, <3>1, GreatestOf
  <2>3. \A i : OfClass(rels, n, k, i) => i \in S
    BY DEF OfClass
  <2>4. OfClass(rels, n, k, m) /\ rels[m] = r
    BY <1>3, <2>2
  <2> HIDE DEF S, k
  <2>5. Decides(rels, n, k, m)
    BY <1>2, <1>3, <2>2, <2>3, <2>4 DEF Decides
  <2>6. Holds(rels, n, k, r)
    BY <2>4, <2>5 DEF Holds
  <2> QED
    BY <1>4, <2>6 DEF k
<1>5. CASE r.custom # c
  <2>1. \A i : ~OfClass(rels, n, k, i)
    BY <1>3, <1>5 DEF OfClass
  <2> QED
    BY <1>5, <2>1 DEF Holds
<1> QED
  BY <1>4, <1>5

LEMMA AddNext ==
  ASSUME NEW rels, RelSeq(rels), NEW n \in 0..(Len(rels) - 1), NEW d, CollectedRight(rels, n, d)
  PROVE  CollectedRight(rels, n + 1, R!Add(d, rels[n + 1]))
<1> DEFINE r == rels[n + 1]
           e0 == r.ends
           other == d.hash[e0]
           d2 == R!Add(d, r)
<1>1. /\ n + 1 \in DOMAIN rels /\ n \in Nat /\ n \in 0..Len(rels) /\ 1..n \subseteq DOMAIN rels
      /\ \A i : i \in 1..(n + 1) <=> i \in 1..n \/ i = n + 1
  BY LenProperties DEF RelSeq
<1>2. r \in Rels /\ e0 \in Ends /\ r # UsingKey /\ r # NoRel /\ NoRel # UsingKey
      /\ NoRel \notin Rels /\ UsingKey \notin Rels
  BY <1>1, RelsAre, ArcsAssumption
<1>3. d \in Dictionary /\ \A e \in Ends : HashRight(rels, n, d, e)
  BY DEF CollectedRight
<1>4. /\ d.hash \in [Ends -> Rels \cup {NoRel, UsingKey}]
      /\ d.key \in [Ends \X Customs -> Rels \cup {NoRel}]
  BY <1>3, DictionaryIs
<1>5. /\ other \in Rels \/ other = NoRel \/ other = UsingKey
      /\ other = NoRel => d2 = [hash |-> [d.hash EXCEPT ![e0] = r], key |-> d.key]
      /\ other = UsingKey =>
           d2 = [hash |-> [d.hash EXCEPT ![e0] = UsingKey], key |-> After(d.key, r)]
      /\ other \in Rels /\ R!IsIdenticalTo(r, other) => d2 = d
      /\ other \in Rels /\ ~R!IsIdenticalTo(r, other) =>
           d2 = [hash |-> [d.hash EXCEPT ![e0] = UsingKey],
                 key |-> After([d.key EXCEPT ![R!EquivalenceKey(other)] = other], r)]
  BY <1>2, <1>3, AddIs
<1>6. HashRight(rels, n, d, e0)
  BY <1>2, <1>3
<1> HIDE DEF d2, other
<1> SUFFICES CollectedRight(rels, n + 1, d2)
  BY DEF d2
<1>7. CASE other = NoRel
  <2>1. d2 = [hash |-> [d.hash EXCEPT ![e0] = r], key |-> d.key]
    BY <1>5, <1>7
  <2>2. d2 \in Dictionary
    BY <1>2, <1>4, <2>1 DEF Dictionary
  <2>3. HashRight(rels, n + 1, d2, e0)
    <3>1. /\ \A i \in 1..n : rels[i].ends # e0
          /\ \A c \in Customs : d.key[<<e0, c>>] = NoRel
      BY <1>2, <1>6, <1>7 DEF HashRight, other
    <3>2. d2.hash[e0] = r /\ d2.key = d.key
      BY <1>2, <1>4, <2>1
    <3>3. \A i \in 1..(n + 1) : rels[i].ends = e0 => i = n + 1
      BY <1>1, <3>1
    <3>4. n + 1 \in 1..(n + 1)
      BY <1>1
    <3> QED
      BY <1>2, <3>1, <3>2, <3>3, <3>4 DEF HashRight
  <2>4. ASSUME NEW e \in Ends, e # e0 PROVE HashRight(rels, n + 1, d2, e)
    <3>1. d2.hash[e] = d.hash[e] /\ d2.key = d.key
      BY <1>2, <1>4, <2>1, <2>4
    <3> QED
      BY <1>3, <2>4, <3>1, HashElsewhere
  <2> QED
    BY <2>2, <2>3, <2>4 DEF CollectedRight
<1>8. CASE other = UsingKey
  <2>1. d2 = [hash |-> [d.hash EXCEPT ![e0] = UsingKey], key |-> After(d.key, r)]
    BY <1>5, <1>8
  <2>2. After(d.key, r) \in [Ends \X Customs -> Rels \cup {NoRel}]
    BY <1>2, <1>4, AfterIs
  <2>3. d2 \in Dictionary
    BY <1>2, <1>4, <2>1, <2>2 DEF Dictionary
  <2>4. HashRight(rels, n + 1, d2, e0)
    <3>1. \A c \in Customs : Holds(rels, n, <<e0, c>>, d.key[<<e0, c>>])
      BY <1>6, <1>8 DEF HashRight, other
    <3>2. \A c \in Customs : Holds(rels, n + 1, <<e0, c>>, After(d.key, r)[<<e0, c>>])
      <4> SUFFICES ASSUME NEW c \in Customs
                   PROVE  Holds(rels, n + 1, <<e0, c>>, After(d.key, r)[<<e0, c>>])
        OBVIOUS
      <4>1. <<e0, c>> \in Ends \X Customs /\ Holds(rels, n, <<e0, c>>, d.key[<<e0, c>>])
        BY <1>2, <3>1
      <4> QED
        BY <1>4, <4>1, AfterHolds
    <3>3. d2.hash[e0] = UsingKey /\ d2.key = After(d.key, r)
      BY <1>2, <1>4, <2>1
    <3> QED
      BY <1>2, <3>2, <3>3 DEF HashRight
  <2>5. ASSUME NEW e \in Ends, e # e0 PROVE HashRight(rels, n + 1, d2, e)
    <3>1. d2.hash[e] = d.hash[e] /\ d2.key = After(d.key, r)
      BY <1>2, <1>4, <2>1, <2>5
    <3>2. \A c \in Customs : After(d.key, r)[<<e, c>>] = d.key[<<e, c>>]
      BY <1>2, <1>4, <2>5, AfterElsewhere
    <3> QED
      BY <1>3, <2>5, <3>1, <3>2, HashElsewhere
  <2> QED
    BY <2>3, <2>4, <2>5 DEF CollectedRight
<1>9. ASSUME other \in Rels
      PROVE  /\ other.ends = e0 /\ \E i \in 1..n : rels[i] = other
             /\ \A i \in 1..n : rels[i].ends = e0 => rels[i] = other
             /\ \A c \in Customs : d.key[<<e0, c>>] = NoRel
  BY <1>2, <1>6, <1>9 DEF HashRight, other
<1>10. CASE other \in Rels /\ R!IsIdenticalTo(r, other)
  <2>1. d2 = d
    BY <1>5, <1>10
  <2>2. r = other
    <3>1. PICK i \in 1..n : rels[i] = other
      BY <1>9, <1>10
    <3>2. i \in DOMAIN rels /\ r.arc = rels[i].arc
      BY <1>1, <1>10, <3>1 DEF R!IsIdenticalTo
    <3>3. /\ r.custom = other.custom /\ r.priority = other.priority
          /\ r.prohibited = other.prohibited
      BY <1>1, <3>1, <3>2 DEF RelSeq
    <3> QED
      BY <1>2, <1>9, <1>10, <3>1, <3>2, <3>3, SameRel
  <2>3. HashRight(rels, n + 1, d2, e0)
    <3>1. d.hash[e0] = r /\ d.hash[e0] \in Rels
      BY <1>2, <2>2 DEF other
    <3> QED
      BY <1>1, <1>2, <1>9, <1>10, <2>1, <2>2, <3>1 DEF HashRight
  <2>4. ASSUME NEW e \in Ends, e # e0 PROVE HashRight(rels, n + 1, d2, e)
    BY <1>3, <2>1, <2>4, HashElsewhere
  <2> QED
    BY <1>3, <2>1, <2>3, <2>4 DEF CollectedRight
<1>11. CASE other \in Rels /\ ~R!IsIdenticalTo(r, other)
  <2> DEFINE moved == [d.key EXCEPT ![R!EquivalenceKey(other)] = other]
  <2>1. d2 = [hash |-> [d.hash EXCEPT ![e0] = UsingKey], key |-> After(moved, r)]
    BY <1>5, <1>11
  <2>2. R!EquivalenceKey(other) = <<e0, other.custom>> /\ other.custom \in Customs
    BY <1>9, <1>11 DEF R!EquivalenceKey, Rels
  <2>3. /\ moved \in [Ends \X Customs -> Rels \cup {NoRel}]
        /\ \A k \in Ends \X Customs : moved[k] = IF k = <<e0, other.custom>> THEN other ELSE d.key[k]
    BY <1>2, <1>4, <1>11, <2>2
  <2> HIDE DEF moved
  <2>4. After(moved, r) \in [Ends \X Customs -> Rels \cup {NoRel}]
    BY <1>2, <2>3, AfterIs
  <2>5. d2 \in Dictionary
    BY <1>2, <1>4, <2>1, <2>4 DEF Dictionary
  <2>6. HashRight(rels, n + 1, d2, e0)
    <3>1. ASSUME NEW c \in Customs
          PROVE  Holds(rels, n + 1, <<e0, c>>, After(moved, r)[<<e0, c>>])
      <4>1. <<e0, c>> \in Ends \X Customs
        BY <1>2
      <4>2. moved[<<e0, c>>] = IF other.custom = c THEN other ELSE NoRel
        BY <1>9, <1>11, <2>3, <4>1
      <4>3. Holds(rels, n, <<e0, c>>, moved[<<e0, c>>])
        BY <1>1, <1>2, <1>9, <1>11, <4>2, HoldsOne
      <4> QED
        BY <2>3, <4>1, <4>3, AfterHolds
    <3>2. d2.hash[e0] = UsingKey /\ d2.key = After(moved, r)
      BY <1>2, <1>4, <2>1
    <3> QED
      BY <1>2, <3>1, <3>2 DEF HashRight
  <2>7. ASSUME NEW e \in Ends, e # e0 PROVE HashRight(rels, n + 1, d2, e)
    <3>1. d2.hash[e] = d.hash[e] /\ d2.key = After(moved, r)
      BY <1>2, <1>4, <2>1, <2>7
    <3>2. \A c \in Customs : After(moved, r)[<<e, c>>] = d.key[<<e, c>>]
      <4> SUFFICES ASSUME NEW c \in Customs PROVE After(moved, r)[<<e, c>>] = d.key[<<e, c>>]
        OBVIOUS
      <4>1. After(moved, r)[<<e, c>>] = moved[<<e, c>>]
        BY <1>2, <2>3, <2>7, AfterElsewhere
      <4>2. <<e, c>> \in Ends \X Customs /\ <<e, c>> # <<e0, other.custom>>
        BY <2>7
      <4> QED
        BY <2>3, <4>1, <4>2
    <3> QED
      BY <1>3, <2>7, <3>1, <3>2, HashElsewhere
  <2> QED
    BY <2>5, <2>6, <2>7 DEF CollectedRight
<1> QED
  BY <1>5, <1>7, <1>8, <1>10, <1>11

\* The loop keeps what is known of the dictionary.
LEMMA CollectedIsRight ==
  ASSUME NEW rels, RelSeq(rels)
  PROVE  CollectedRight(rels, Len(rels), R!Collected(rels))
<1> DEFINE n == Len(rels)
           d == CHOOSE f : f = [k \in 0..n |-> IF k = 0 THEN R!Empty ELSE R!Add(f[k - 1], rels[k])]
           step == [p \in (1..n) \X Dictionary |-> R!Add(p[2], rels[p[1]])]
<1>1. n \in Nat /\ DOMAIN rels = 1..n
  BY LenProperties DEF RelSeq
<1>2. R!Empty \in Dictionary
  BY DEF R!Empty, Dictionary
<1>3. ASSUME NEW e \in Dictionary, NEW r \in Rels PROVE R!Add(e, r) \in Dictionary
  <2>1. /\ e.hash \in [Ends -> Rels \cup {NoRel, UsingKey}]
        /\ e.key \in [Ends \X Customs -> Rels \cup {NoRel}] /\ r.ends \in Ends
    BY DictionaryIs DEF Rels
  <2> DEFINE other == e.hash[r.ends]
  <2>3. After(e.key, r) \in [Ends \X Customs -> Rels \cup {NoRel}]
    BY <2>1, AfterIs
  <2>4. other \in Rels => After([e.key EXCEPT ![R!EquivalenceKey(other)] = other], r)
                            \in [Ends \X Customs -> Rels \cup {NoRel}]
    <3> SUFFICES ASSUME other \in Rels
                 PROVE  After([e.key EXCEPT ![R!EquivalenceKey(other)] = other], r)
                          \in [Ends \X Customs -> Rels \cup {NoRel}]
      OBVIOUS
    <3>1. [e.key EXCEPT ![R!EquivalenceKey(other)] = other] \in [Ends \X Customs -> Rels \cup {NoRel}]
      <4> HIDE DEF other
      <4> QED
        BY <2>1
    <3> QED
      BY <3>1, AfterIs
  <2> DEFINE to(h, key) == [hash |-> [e.hash EXCEPT ![r.ends] = h], key |-> key]
             moved == After([e.key EXCEPT ![R!EquivalenceKey(other)] = other], r)
  <2> DEFINE Keys == [Ends \X Customs -> Rels \cup {NoRel}]
  <2>5. \A h \in Rels \cup {NoRel, UsingKey}, key \in Keys : to(h, key) \in Dictionary
    BY <2>1 DEF Dictionary
  <2>6. /\ other \in Rels \/ other = NoRel \/ other = UsingKey
        /\ other = NoRel => R!Add(e, r) = to(r, e.key)
        /\ other = UsingKey => R!Add(e, r) = to(UsingKey, After(e.key, r))
        /\ other \in Rels /\ R!IsIdenticalTo(r, other) => R!Add(e, r) = e
        /\ other \in Rels /\ ~R!IsIdenticalTo(r, other) => R!Add(e, r) = to(UsingKey, moved)
    BY AddIs
  <2> HIDE DEF other, to, moved
  <2>7. /\ e.key \in Keys /\ After(e.key, r) \in Keys
        /\ other \in Rels => moved \in Keys
    BY <2>1, <2>3, <2>4 DEF moved
  <2> HIDE DEF Keys
  <2> QED
    BY <2>5, <2>6, <2>7
<1>4. step \in [(1..n) \X Dictionary -> Dictionary]
  <2>1. \A i \in 1..n : rels[i] \in Rels
    BY <1>1, RelsAre
  <2> HIDE DEF n
  <2> QED
    BY <1>3, <2>1
<1>5. PICK g : IsLoop(n, Dictionary, R!Empty, step, g)
  <2> HIDE DEF n, step
  <2>1. step \in Steps(n, Dictionary)
    BY <1>4 DEF Steps
  <2> QED
    BY <1>1, <1>2, <2>1, LoopExists
<1>6. \A k \in 1..n : step[<<k, g[k - 1]>>] = R!Add(g[k - 1], rels[k])
  <2> SUFFICES ASSUME NEW k \in 1..n PROVE step[<<k, g[k - 1]>>] = R!Add(g[k - 1], rels[k])
    OBVIOUS
  <2> HIDE DEF n, step
  <2>1. k - 1 \in 0..n /\ g \in [0..n -> Dictionary]
    BY <1>1, <1>5 DEF IsLoop
  <2>2. g[k - 1] \in Dictionary
    BY <2>1
  <2> QED
    BY <2>2 DEF step
<1>7. g = [k \in 0..n |-> IF k = 0 THEN R!Empty ELSE R!Add(g[k - 1], rels[k])]
  <2> HIDE DEF step, n
  <2>1. \A k \in 0..n : g[k] = IF k = 0 THEN R!Empty ELSE R!Add(g[k - 1], rels[k])
    <3> SUFFICES ASSUME NEW k \in 0..n
                 PROVE  g[k] = IF k = 0 THEN R!Empty ELSE R!Add(g[k - 1], rels[k])
      OBVIOUS
    <3>1. g[k] = IF k = 0 THEN R!Empty ELSE step[<<k, g[k - 1]>>]
      BY <1>5 DEF IsLoop
    <3>2. k # 0 => k \in 1..n
      BY <1>1
    <3> QED
      BY <1>6, <3>1, <3>2
  <2>2. g = [k \in 0..n |-> g[k]]
    BY <1>5 DEF IsLoop
  <2> QED
    BY <2>1, <2>2
<1>8. d = [k \in 0..n |-> IF k = 0 THEN R!Empty ELSE R!Add(d[k - 1], rels[k])]
  <2> HIDE DEF step, n
  <2> QED
    BY <1>7
<1>9. R!Collected(rels) = d[n]
  BY DEF R!Collected
<1> HIDE DEF d
<1> DEFINE S == {k \in 0..n : CollectedRight(rels, k, d[k])}
<1>10. 0 \in S
  <2>1. d[0] = R!Empty
    BY <1>1, <1>8
  <2>2. \A e \in Ends : R!Empty.hash[e] = NoRel /\ \A c \in Customs : R!Empty.key[<<e, c>>] = NoRel
    BY DEF R!Empty
  <2>3. NoRel # UsingKey /\ NoRel \notin Rels
    BY ArcsAssumption
  <2> HIDE DEF n
  <2>4. CollectedRight(rels, 0, R!Empty)
    BY <1>2, <2>2, <2>3 DEF CollectedRight, HashRight
  <2> QED
    BY <1>1, <2>1, <2>4
<1>11. \A k \in 0..(n - 1) : k \in S => k + 1 \in S
  <2> SUFFICES ASSUME NEW k \in 0..(n - 1), k \in S PROVE k + 1 \in S
    OBVIOUS
  <2>1. k + 1 \in 0..n /\ k + 1 # 0 /\ (k + 1) - 1 = k
    BY <1>1
  <2>2. d[k + 1] = R!Add(d[k], rels[k + 1])
    <3> HIDE DEF n
    <3> QED
      BY <1>8, <2>1
  <2>3. CollectedRight(rels, k + 1, d[k + 1])
    BY <2>2, AddNext
  <2> QED
    BY <2>1, <2>3
<1>12. n \in S
  <2> HIDE DEF S, n
  <2>1. \A k \in 0..n : k \in S
    BY <1>1, <1>10, <1>11, UpTo
  <2> QED
    BY <1>1, <2>1
<1> QED
  BY <1>9, <1>12

\* Of each class the relationship set has the one that decides, and nothing else.
LEMMA ClassHas ==
  ASSUME NEW rels, RelSeq(rels), NEW k \in Ends \X Customs
  PROVE  \E x : /\ Holds(rels, Len(rels), k, x)
                /\ \A r : r \in R!ModelRelationships(rels, TRUE) /\ R!EquivalenceKey(r) = k
                            <=> r = x /\ x # NoRel
<1> DEFINE n == Len(rels)
           d == R!Collected(rels)
           all == R!ModelRelationships(rels, TRUE)
           Of(r) == r \in all /\ R!EquivalenceKey(r) = k
<1>1. PICK e \in Ends, c \in Customs : k = <<e, c>>
  OBVIOUS
<1>2. n \in Nat /\ DOMAIN rels = 1..n /\ n \in 0..n
  BY LenProperties DEF RelSeq
<1>3. CollectedRight(rels, n, d)
  BY CollectedIsRight
<1>4. all = (R!Range(d.hash) \cup R!Range(d.key)) \ {NoRel, UsingKey}
  BY DEF R!ModelRelationships
<1> HIDE DEF n, d, all
<1>5. /\ d.hash \in [Ends -> Rels \cup {NoRel, UsingKey}]
      /\ d.key \in [Ends \X Customs -> Rels \cup {NoRel}]
      /\ \A e1 \in Ends : HashRight(rels, n, d, e1)
  BY <1>3, DictionaryIs DEF CollectedRight
<1>6. NoRel # UsingKey /\ NoRel \notin Rels /\ UsingKey \notin Rels
  BY ArcsAssumption
<1>7. \A r \in Rels : R!EquivalenceKey(r) = <<r.ends, r.custom>>
  BY DEF R!EquivalenceKey
<1>8. ASSUME NEW e1 \in Ends, NEW c1 \in Customs, NEW r, d.key[<<e1, c1>>] = r, r # NoRel
      PROVE  /\ d.hash[e1] = UsingKey /\ r \in Rels /\ R!EquivalenceKey(r) = <<e1, c1>>
             /\ Holds(rels, n, <<e1, c1>>, r)
  <2>1. d.hash[e1] = UsingKey
    BY <1>5, <1>8 DEF HashRight
  <2>2. Holds(rels, n, <<e1, c1>>, r)
    BY <1>5, <1>8, <2>1 DEF HashRight
  <2>3. R!EquivalenceKey(r) = <<e1, c1>>
    BY <1>8, <2>2 DEF Holds, Decides, OfClass
  <2>4. r \in Rels
    BY <1>5, <1>8
  <2> QED
    BY <2>1, <2>2, <2>3, <2>4
<1>9. ASSUME NEW r, Of(r)
      PROVE  \/ r = d.hash[e] /\ r \in Rels
             \/ r = d.key[k] /\ r # NoRel /\ d.hash[e] = UsingKey
  <2>1. CASE r \in R!Range(d.hash)
    <3>1. PICK e1 \in Ends : r = d.hash[e1]
      BY <1>5, <2>1 DEF R!Range
    <3>2. r \in Rels /\ r.ends = e1
      <4>1. r # NoRel /\ r # UsingKey
        BY <1>4, <1>9
      <4>2. r \in Rels /\ HashRight(rels, n, d, e1)
        BY <1>5, <3>1, <4>1
      <4>3. d.hash[e1].ends = e1
        <5>1. d.hash[e1] \in Rels
          BY <3>1, <4>2
        <5> QED
          BY <4>2, <5>1 DEF HashRight
      <4> QED
        BY <3>1, <4>2, <4>3
    <3>3. e1 = e
      BY <1>1, <1>7, <1>9, <3>2
    <3> QED
      BY <3>1, <3>2, <3>3
  <2>2. CASE r \in R!Range(d.key)
    <3>1. PICK e1 \in Ends, c1 \in Customs : r = d.key[<<e1, c1>>]
      <4>1. PICK k1 \in Ends \X Customs : r = d.key[k1]
        BY <1>5, <2>2 DEF R!Range
      <4>2. PICK e1 \in Ends, c1 \in Customs : k1 = <<e1, c1>>
        OBVIOUS
      <4> QED
        BY <4>1, <4>2
    <3>2. r # NoRel
      BY <1>4, <1>9
    <3>3. k = <<e1, c1>> /\ d.hash[e1] = UsingKey
      BY <1>8, <1>9, <3>1, <3>2
    <3> QED
      BY <1>1, <3>1, <3>2, <3>3
  <2> QED
    BY <1>4, <1>9, <2>1, <2>2
<1>10. CASE d.hash[e] = NoRel
  <2>1. \A i : ~OfClass(rels, n, k, i)
    <3> SUFFICES ASSUME NEW i, OfClass(rels, n, k, i) PROVE FALSE
      OBVIOUS
    <3>1. i \in 1..n /\ R!EquivalenceKey(rels[i]) = <<e, c>> /\ rels[i].ends # e
      BY <1>1, <1>5, <1>10 DEF OfClass, HashRight
    <3> QED
      BY <1>2, <3>1, RelsAre
  <2>2. Holds(rels, n, k, NoRel)
    BY <2>1 DEF Holds
  <2>3. \A r : ~Of(r)
    BY <1>6, <1>9, <1>10
  <2> QED
    BY <2>2, <2>3 DEF n, all
<1>11. CASE d.hash[e] = UsingKey
  <2> DEFINE x == d.key[k]
  <2>1. Holds(rels, n, k, x)
    BY <1>1, <1>5, <1>11 DEF HashRight
  <2>2. ASSUME NEW r, Of(r) PROVE r = x /\ x # NoRel
    BY <1>6, <1>9, <1>11, <2>2
  <2>3. ASSUME x # NoRel PROVE Of(x)
    <3>1. x \in Rels /\ R!EquivalenceKey(x) = k
      BY <1>1, <1>8, <2>3
    <3>2. x \in R!Range(d.key)
      BY <1>5 DEF R!Range
    <3> QED
      BY <1>4, <1>6, <3>1, <3>2
  <2> HIDE DEF x, Of
  <2>4. \A r : Of(r) <=> r = x /\ x # NoRel
    BY <2>2, <2>3
  <2> QED
    BY <2>1, <2>4 DEF n, all, Of
<1>12. CASE d.hash[e] \in Rels
  <2> DEFINE h == d.hash[e]
             x == IF h.custom = c THEN h ELSE NoRel
  <2>1. h.ends = e /\ (\E i \in 1..n : rels[i] = h) /\ \A i \in 1..n : rels[i].ends = e => rels[i] = h
    BY <1>5, <1>12 DEF HashRight
  <2>2. Holds(rels, n, k, x)
    <3> HIDE DEF h
    <3>1. h \in Rels
      BY <1>12 DEF h
    <3> QED
      BY <1>1, <1>2, <2>1, <3>1, HoldsOne DEF n
  <2>3. ASSUME NEW r, Of(r) PROVE r = x /\ x # NoRel
    <3>1. r = h /\ r \in Rels
      BY <1>6, <1>9, <1>12, <2>3
    <3>2. r.custom = c
      BY <1>1, <1>7, <2>3, <3>1
    <3> QED
      BY <1>6, <3>1, <3>2
  <2>4. ASSUME x # NoRel PROVE Of(x)
    <3>1. x = h /\ h.custom = c
      BY <2>4
    <3>2. R!EquivalenceKey(h) = k
      BY <1>1, <1>7, <1>12, <2>1, <3>1
    <3>3. h \in R!Range(d.hash)
      BY <1>5 DEF R!Range
    <3> QED
      BY <1>4, <1>6, <1>12, <3>1, <3>2, <3>3
  <2> HIDE DEF x, Of
  <2>5. \A r : Of(r) <=> r = x /\ x # NoRel
    BY <2>3, <2>4
  <2> QED
    BY <2>2, <2>5 DEF n, all, Of
<1> QED
  BY <1>5, <1>10, <1>11, <1>12

LEMMA EffectiveAre ==
  ASSUME NEW rels
  PROVE  R!ModelRelationships(rels, FALSE) = {r \in R!ModelRelationships(rels, TRUE) : ~r.prohibited}
  BY DEF R!ModelRelationships

\* The relationships of the highest priority of a class, and the one that decides.
LEMMA HighestIs ==
  ASSUME NEW rels, RelSeq(rels), NEW k
  PROVE  /\ (\A i : ~OfClass(rels, Len(rels), k, i)) => R!Highest(rels, k) = {}
         /\ \A m : Decides(rels, Len(rels), k, m) =>
              /\ rels[m] \in R!Highest(rels, k)
              /\ \A r \in R!Highest(rels, k) : r.prohibited => rels[m].prohibited
<1> DEFINE n == Len(rels)
           same == {r \in R!Range(rels) : R!EquivalenceKey(r) = k}
<1>1. n \in Nat /\ DOMAIN rels = 1..n
  BY LenProperties DEF RelSeq
<1>2. R!Highest(rels, k) = {r \in same : \A s \in same : s.priority =< r.priority}
  BY DEF R!Highest
<1>3. \A r : r \in same <=> \E i : OfClass(rels, n, k, i) /\ r = rels[i]
  BY <1>1 DEF R!Range, OfClass
<1> HIDE DEF same
<1>4. (\A i : ~OfClass(rels, n, k, i)) => R!Highest(rels, k) = {}
  BY <1>2, <1>3
<1>5. ASSUME NEW m, Decides(rels, n, k, m)
      PROVE  /\ rels[m] \in R!Highest(rels, k)
             /\ \A r \in R!Highest(rels, k) : r.prohibited => rels[m].prohibited
  <2>1. /\ OfClass(rels, n, k, m)
        /\ \A i : OfClass(rels, n, k, i) =>
             /\ rels[i].priority =< rels[m].priority
             /\ rels[i].priority = rels[m].priority => (rels[i].prohibited => rels[m].prohibited)
    BY <1>5 DEF Decides
  <2>2. rels[m] \in R!Highest(rels, k)
    BY <1>2, <1>3, <2>1
  <2>3. ASSUME NEW r \in R!Highest(rels, k), r.prohibited PROVE rels[m].prohibited
    <3>1. PICK i : OfClass(rels, n, k, i) /\ r = rels[i]
      BY <1>2, <1>3
    <3>2. rels[m].priority =< rels[i].priority
      BY <1>2, <1>3, <2>1, <3>1
    <3>3. i \in DOMAIN rels /\ m \in DOMAIN rels
      BY <1>1, <2>1, <3>1 DEF OfClass
    <3>4. rels[i].priority \in Int /\ rels[m].priority \in Int
      BY <3>3, RelsAre
    <3>5. rels[i].priority =< rels[m].priority
      BY <2>1, <3>1
    <3>6. rels[i].priority = rels[m].priority
      BY <3>2, <3>4, <3>5
    <3> QED
      BY <2>1, <2>3, <3>1, <3>6
  <2> QED
    BY <2>2, <2>3
<1> QED
  BY <1>4, <1>5

LEMMA NetworkIsRight ==
  ASSUME NEW rels, RelSeq(rels)
  PROVE  R!NetworkRight(rels)
<1> DEFINE effective == R!ModelRelationships(rels, FALSE)
           all == R!ModelRelationships(rels, TRUE)
           Of(set, k) == {r \in set : R!EquivalenceKey(r) = k}
<1>1. effective = {r \in all : ~r.prohibited}
  BY EffectiveAre
<1> HIDE DEF effective, all
<1>2. ASSUME NEW k \in Ends \X Customs
      PROVE  LET top == R!Highest(rels, k)
             IN  /\ IF top = {} \/ \E r \in top : r.prohibited
                    THEN Of(effective, k) = {}
                    ELSE \E r \in top : Of(effective, k) = {r}
                 /\ top # {} => \E r \in top : Of(all, k) = {r}
  <2> DEFINE top == R!Highest(rels, k)
  <2>1. PICK x : /\ Holds(rels, Len(rels), k, x)
                 /\ \A r : r \in all /\ R!EquivalenceKey(r) = k <=> r = x /\ x # NoRel
    BY ClassHas DEF all
  <2>2. CASE \A i : ~OfClass(rels, Len(rels), k, i)
    <3>1. top = {} /\ x = NoRel
      BY <2>1, <2>2, HighestIs DEF Holds
    <3>2. Of(effective, k) = {}
      BY <1>1, <2>1, <3>1
    <3> QED
      BY <3>1, <3>2
  <2>3. CASE \E i : OfClass(rels, Len(rels), k, i)
    <3>1. PICK m : Decides(rels, Len(rels), k, m) /\ x = rels[m]
      BY <2>1, <2>3 DEF Holds
    <3>2. x \in top /\ \A r \in top : r.prohibited => x.prohibited
      BY <3>1, HighestIs
    <3>3. x # NoRel
      <4>1. m \in DOMAIN rels
        BY <3>1, LenProperties DEF RelSeq, Decides, OfClass
      <4> QED
        BY <3>1, <4>1, RelsAre
    <3>4. Of(all, k) = {x}
      BY <2>1, <3>3
    <3>5. Of(effective, k) = IF x.prohibited THEN {} ELSE {x}
      BY <1>1, <2>1, <3>3
    <3> HIDE DEF top, Of
    <3> QED
      BY <3>2, <3>4, <3>5 DEF top
  <2> QED
    BY <2>2, <2>3
<1> QED
  BY <1>2 DEF R!NetworkRight, effective, all

\* Positions are in the order of a report, one before the other.
LEMMA OrderIs ==
  ASSUME NEW rels, RelSeq(rels), NEW i \in DOMAIN rels, NEW j \in DOMAIN rels
  PROVE  /\ i # j => R!SortsBefore(rels, i, j) \/ R!SortsBefore(rels, j, i)
         /\ ~R!SortsBefore(rels, i, i)
         /\ R!SortsBefore(rels, i, j) =>
              /\ rels[i].priority =< rels[j].priority
              /\ rels[i].priority = rels[j].priority =>
                   /\ rels[i].prohibited => rels[j].prohibited
                   /\ rels[i].prohibited = rels[j].prohibited => i < j
         /\ \A k \in DOMAIN rels : R!SortsBefore(rels, i, j) /\ R!SortsBefore(rels, j, k) =>
              R!SortsBefore(rels, i, k)
<1>1. /\ i \in Nat /\ j \in Nat /\ DOMAIN rels \subseteq Nat
      /\ \A k \in DOMAIN rels : rels[k].priority \in Int /\ rels[k].prohibited \in BOOLEAN
  BY RelsAre
<1> QED
  BY <1>1 DEF R!SortsBefore

\* Of some positions one comes first.
LEMMA FirstOf ==
  ASSUME NEW rels, RelSeq(rels), NEW S \in SUBSET DOMAIN rels, S # {}
  PROVE  \E i \in S : \A j \in S : ~R!SortsBefore(rels, j, i)
<1> DEFINE n == Len(rels)
           First(k) == \E i \in S : i =< k /\ \A j \in S : j =< k => ~R!SortsBefore(rels, j, i)
           Good == {k \in 0..n : (\E i \in S : i =< k) => First(k)}
<1>1. n \in Nat /\ DOMAIN rels = 1..n
  BY LenProperties DEF RelSeq
<1>2. 0 \in Good
  BY <1>1
<1>3. \A k \in 0..(n - 1) : k \in Good => k + 1 \in Good
  <2> SUFFICES ASSUME NEW k \in 0..(n - 1), k \in Good, NEW s \in S, s =< k + 1
               PROVE  First(k + 1)
    BY <1>1
  <2>1. k \in Nat /\ \A j \in S : j \in Nat /\ j \in DOMAIN rels /\ (j =< k + 1 <=> j =< k \/ j = k + 1)
    BY <1>1
  <2>2. CASE k + 1 \notin S
    <3>1. \A j \in S : j =< k + 1 <=> j =< k
      BY <2>1, <2>2
    <3>2. First(k)
      BY <3>1
    <3> QED
      BY <3>1, <3>2
  <2>3. CASE k + 1 \in S /\ ~\E i \in S : i =< k
    <3>1. \A j \in S : j =< k + 1 => j = k + 1
      BY <2>1, <2>3
    <3>2. ~R!SortsBefore(rels, k + 1, k + 1)
      BY <2>1, <2>3, OrderIs
    <3> QED
      BY <2>1, <2>3, <3>1, <3>2
  <2>4. CASE k + 1 \in S /\ \E i \in S : i =< k
    <3>1. PICK i \in S : i =< k /\ \A j \in S : j =< k => ~R!SortsBefore(rels, j, i)
      BY <2>4
    <3>2. i \in DOMAIN rels /\ k + 1 \in DOMAIN rels /\ i # k + 1 /\ i =< k + 1
      BY <2>1, <2>4, <3>1
    <3>3. CASE R!SortsBefore(rels, k + 1, i)
      <4>1. ASSUME NEW j \in S, j =< k + 1, R!SortsBefore(rels, j, k + 1) PROVE FALSE
        <5>1. j # k + 1
          BY <3>2, <4>1, OrderIs
        <5>2. j =< k /\ j \in DOMAIN rels
          BY <2>1, <4>1, <5>1
        <5>3. R!SortsBefore(rels, j, i)
          BY <3>2, <3>3, <4>1, <5>2, OrderIs
        <5> QED
          BY <3>1, <5>2, <5>3
      <4> QED
        BY <2>1, <2>4, <4>1
    <3>4. CASE ~R!SortsBefore(rels, k + 1, i)
      <4>1. \A j \in S : j =< k + 1 => ~R!SortsBefore(rels, j, i)
        BY <2>1, <3>1, <3>4
      <4> QED
        BY <3>2, <4>1
    <3> QED
      BY <3>3, <3>4
  <2> QED
    BY <2>2, <2>3, <2>4
<1>4. n \in Good
  <2> HIDE DEF Good, n
  <2>1. \A k \in 0..n : k \in Good
    BY <1>1, <1>2, <1>3, UpTo
  <2> QED
    BY <1>1, <2>1
<1>5. \A j \in S : j =< n
  BY <1>1
<1>6. First(n)
  BY <1>4, <1>5
<1> QED
  BY <1>5, <1>6

LEMMA EffectiveIs ==
  ASSUME NEW rels, RelSeq(rels), NEW i \in DOMAIN rels
  PROVE  LET k == R!EquivalenceKey(rels[i])
         IN  \E m \in DOMAIN rels :
               /\ Decides(rels, Len(rels), k, m)
               /\ \A j \in DOMAIN rels : R!EquivalenceKey(rels[j]) = k =>
                    (rels[j] \in R!ModelRelationships(rels, FALSE) <=>
                       rels[j] = rels[m] /\ ~rels[m].prohibited)
<1> DEFINE k == R!EquivalenceKey(rels[i])
           all == R!ModelRelationships(rels, TRUE)
<1>1. DOMAIN rels = 1..Len(rels) /\ k \in Ends \X Customs /\ OfClass(rels, Len(rels), k, i)
  BY RelsAre DEF OfClass
<1>2. PICK x : /\ Holds(rels, Len(rels), k, x)
               /\ \A r : r \in all /\ R!EquivalenceKey(r) = k <=> r = x /\ x # NoRel
  <2> HIDE DEF k
  <2> QED
    BY <1>1, ClassHas
<1>3. PICK m : Decides(rels, Len(rels), k, m) /\ x = rels[m]
  BY <1>1, <1>2 DEF Holds
<1>4. m \in DOMAIN rels
  BY <1>1, <1>3 DEF Decides, OfClass
<1>5. x # NoRel
  BY <1>3, <1>4, RelsAre
<1> HIDE DEF k, all
<1>6. \A j \in DOMAIN rels : R!EquivalenceKey(rels[j]) = k =>
         (rels[j] \in R!ModelRelationships(rels, FALSE) <=> rels[j] = rels[m] /\ ~rels[m].prohibited)
  BY <1>2, <1>3, <1>5, EffectiveAre DEF all
<1> QED
  BY <1>3, <1>4, <1>6 DEF k

\* Equivalent positions, and the next of them in the order of a report.
Alike(rels, i, j) == j \in DOMAIN rels /\ R!EquivalenceKey(rels[j]) = R!EquivalenceKey(rels[i])
NextAlike(rels, i, j) ==
    /\ Alike(rels, i, j) /\ R!SortsBefore(rels, i, j)
    /\ \A k : Alike(rels, i, k) => ~(R!SortsBefore(rels, i, k) /\ R!SortsBefore(rels, k, j))

LEMMA ReportedAre ==
  ASSUME NEW rels, NEW i \in DOMAIN rels
  PROVE  i \in R!IneffectiveArcs(rels) <=>
           \/ rels[i].prohibited /\ \A j : Alike(rels, i, j) => ~R!SortsBefore(rels, j, i)
           \/ \E j : NextAlike(rels, i, j) /\ rels[i].prohibited = rels[j].prohibited
  BY DEF R!IneffectiveArcs, Alike, NextAlike

\* A position before another one of its class has a next one.
LEMMA NextExists ==
  ASSUME NEW rels, RelSeq(rels), NEW i \in DOMAIN rels, NEW m, Alike(rels, i, m),
         R!SortsBefore(rels, i, m)
  PROVE  \E j : NextAlike(rels, i, j)
<1> DEFINE S == {j \in DOMAIN rels : Alike(rels, i, j) /\ R!SortsBefore(rels, i, j)}
<1>1. m \in S /\ S \in SUBSET DOMAIN rels
  BY DEF Alike
<1>2. PICK j \in S : \A k \in S : ~R!SortsBefore(rels, k, j)
  <2> HIDE DEF S
  <2> QED
    BY <1>1, FirstOf
<1>3. \A k : Alike(rels, i, k) /\ R!SortsBefore(rels, i, k) => k \in S
  BY DEF Alike
<1> QED
  BY <1>2, <1>3 DEF NextAlike

LEMMA ReportIsRight ==
  ASSUME NEW rels, RelSeq(rels)
  PROVE  R!ReportAgrees(rels)
<1> DEFINE effective == R!ModelRelationships(rels, FALSE)
           reported == {rels[i] : i \in R!IneffectiveArcs(rels)}
           Twice(r) == \E i, j \in DOMAIN rels : i # j /\ rels[i] = r /\ rels[j] = r
           Prohibits(s, r) == s.prohibited /\ ~r.prohibited /\ s.priority >= r.priority
           Follows(r, s) == r.prohibited /\ s.priority =< r.priority
           Others(r) == {s \in R!Range(rels) : R!EquivalenceKey(s) = R!EquivalenceKey(r) /\ s # r}
           Has(r, i) == i \in DOMAIN rels /\ rels[i] = r
<1>1. /\ DOMAIN rels \subseteq Nat
      /\ \A i \in DOMAIN rels : /\ rels[i].priority \in Int /\ rels[i].prohibited \in BOOLEAN
                                /\ rels[i] \in R!Range(rels) /\ Alike(rels, i, i)
  <2>1. DOMAIN rels = 1..Len(rels)
    BY LenProperties DEF RelSeq
  <2> QED
    BY <2>1, RelsAre DEF R!Range, Alike
<1>2. \A r \in R!Range(rels) : \E i : Has(r, i)
  BY DEF R!Range
<1>3. \A r \in reported : \E i : Has(r, i) /\ i \in R!IneffectiveArcs(rels)
  BY DEF R!IneffectiveArcs
<1>4. ASSUME NEW i, NEW j, i \in DOMAIN rels, Alike(rels, i, j), rels[j] # rels[i]
      PROVE  rels[j] \in Others(rels[i])
  BY <1>1, <1>4 DEF Alike
\* One that decides on a class, from a position of the class.
<1>5. ASSUME NEW i \in DOMAIN rels
      PROVE  \E m : /\ Alike(rels, i, m)
                    /\ rels[i] \in effective <=> rels[i] = rels[m] /\ ~rels[m].prohibited
                    /\ rels[m] \in effective <=> ~rels[m].prohibited
                    /\ \A j : Alike(rels, i, j) =>
                         /\ rels[j].priority =< rels[m].priority
                         /\ rels[j].priority = rels[m].priority =>
                              (rels[j].prohibited => rels[m].prohibited) /\ (rels[m].prohibited \/ j =< m)
  <2>1. PICK m \in DOMAIN rels :
           /\ Decides(rels, Len(rels), R!EquivalenceKey(rels[i]), m)
           /\ \A j \in DOMAIN rels : R!EquivalenceKey(rels[j]) = R!EquivalenceKey(rels[i]) =>
                (rels[j] \in effective <=> rels[j] = rels[m] /\ ~rels[m].prohibited)
    BY EffectiveIs
  <2>2. DOMAIN rels = 1..Len(rels)
    BY LenProperties DEF RelSeq
  <2>3. \A j : Alike(rels, i, j) <=> OfClass(rels, Len(rels), R!EquivalenceKey(rels[i]), j)
    BY <2>2 DEF Alike, OfClass
  <2>4. Alike(rels, i, m) /\ R!EquivalenceKey(rels[m]) = R!EquivalenceKey(rels[i])
    BY <2>1, <2>3 DEF Decides, Alike
  <2> HIDE DEF effective
  <2>5. rels[m] \in effective <=> ~rels[m].prohibited
    BY <2>1, <2>4
  <2>6. rels[i] \in effective <=> rels[i] = rels[m] /\ ~rels[m].prohibited
    BY <2>1
  <2>7. \A j : Alike(rels, i, j) =>
                 /\ rels[j].priority =< rels[m].priority
                 /\ rels[j].priority = rels[m].priority =>
                      (rels[j].prohibited => rels[m].prohibited) /\ (rels[m].prohibited \/ j =< m)
    BY <2>1, <2>3 DEF Decides
  <2> QED
    BY <2>4, <2>5, <2>6, <2>7
<1> HIDE DEF effective
<1>6. ASSUME NEW r \in reported, r \in effective PROVE Twice(r)
  <2>1. PICK i : Has(r, i) /\ i \in R!IneffectiveArcs(rels)
    BY <1>3
  <2>2. PICK m : /\ Alike(rels, i, m)
                 /\ rels[i] \in effective <=> rels[i] = rels[m] /\ ~rels[m].prohibited
                 /\ \A j : Alike(rels, i, j) =>
                      /\ rels[j].priority =< rels[m].priority
                      /\ rels[j].priority = rels[m].priority =>
                           (rels[j].prohibited => rels[m].prohibited) /\ (rels[m].prohibited \/ j =< m)
    BY <1>5, <2>1
  <2>3. rels[i] = rels[m] /\ ~rels[m].prohibited /\ i \in DOMAIN rels /\ m \in DOMAIN rels
    BY <1>6, <2>1, <2>2 DEF Alike
  <2>4. PICK j : NextAlike(rels, i, j) /\ rels[i].prohibited = rels[j].prohibited
    BY <2>1, <2>3, ReportedAre
  <2>5. Alike(rels, i, j) /\ j \in DOMAIN rels /\ R!SortsBefore(rels, i, j)
    BY <2>4 DEF NextAlike, Alike
  <2>6. /\ rels[i].priority =< rels[j].priority
        /\ rels[i].priority = rels[j].priority => i < j
    BY <2>3, <2>4, <2>5, OrderIs
  <2>7. rels[i].priority = rels[j].priority
    BY <1>1, <2>2, <2>3, <2>5, <2>6
  <2>8. i < j /\ j =< m
    BY <2>2, <2>3, <2>5, <2>6, <2>7
  <2>9. i # m
    BY <1>1, <2>3, <2>5, <2>8
  <2> QED
    BY <2>1, <2>3, <2>9
<1>7. ASSUME NEW r \in reported, NEW s \in R!Range(rels), r.prohibited, s \in Others(r), Prohibits(r, s)
      PROVE  Twice(r) \/ \E t \in Others(r) : t.prohibited /\ Prohibits(t, s)
  <2>1. PICK i : Has(r, i) /\ i \in R!IneffectiveArcs(rels)
    BY <1>3
  <2>2. PICK l : Has(s, l) /\ Alike(rels, i, l)
    BY <1>2, <1>7, <2>1 DEF Alike
  <2>3. R!SortsBefore(rels, l, i)
    BY <1>1, <1>7, <2>1, <2>2 DEF R!SortsBefore
  <2>4. PICK j : NextAlike(rels, i, j) /\ rels[i].prohibited = rels[j].prohibited
    BY <2>1, <2>2, <2>3, ReportedAre
  <2>5. Alike(rels, i, j) /\ j \in DOMAIN rels /\ R!SortsBefore(rels, i, j)
    BY <2>4 DEF NextAlike, Alike
  <2>6. rels[i].priority =< rels[j].priority /\ i # j
    BY <2>1, <2>5, OrderIs
  <2>7. CASE rels[j] = r
    BY <2>1, <2>5, <2>6, <2>7
  <2>8. CASE rels[j] # r
    <3>1. rels[j] \in Others(r)
      BY <1>4, <2>1, <2>5, <2>8
    <3>2. rels[j].prohibited /\ rels[j].priority >= s.priority /\ ~s.prohibited
      BY <1>1, <1>7, <2>1, <2>2, <2>4, <2>5, <2>6
    <3> QED
      BY <3>1, <3>2
  <2> QED
    BY <2>7, <2>8
<1>8. ASSUME NEW r \in R!Range(rels), r \notin reported, r \notin effective
      PROVE  \E s \in Others(r) : Prohibits(s, r) \/ Follows(r, s)
  <2>1. \A i : Has(r, i) => i \notin R!IneffectiveArcs(rels)
    BY <1>8
  <2>2. CASE r.prohibited
    <3> DEFINE S == {i \in DOMAIN rels : rels[i] = r}
    <3>1. PICK i \in S : \A j \in S : ~R!SortsBefore(rels, j, i)
      <4>1. S # {} /\ S \in SUBSET DOMAIN rels
        BY <1>2
      <4> HIDE DEF S
      <4> QED
        BY <4>1, FirstOf
    <3>2. Has(r, i)
      BY <3>1
    <3>3. PICK j : Alike(rels, i, j) /\ R!SortsBefore(rels, j, i)
      BY <2>1, <2>2, <3>2, ReportedAre
    <3>4. j \in DOMAIN rels /\ rels[j] # r
      BY <3>1, <3>3 DEF Alike
    <3>5. rels[j] \in Others(r)
      BY <1>4, <3>2, <3>3, <3>4
    <3>6. rels[j].priority =< r.priority
      BY <3>2, <3>3, <3>4, OrderIs
    <3> QED
      BY <2>2, <3>5, <3>6
  <2>3. CASE ~r.prohibited
    <3>1. PICK i : Has(r, i)
      BY <1>2
    <3>2. PICK m : /\ Alike(rels, i, m)
                   /\ rels[i] \in effective <=> rels[i] = rels[m] /\ ~rels[m].prohibited
                   /\ rels[m] \in effective <=> ~rels[m].prohibited
                   /\ \A j : Alike(rels, i, j) =>
                        /\ rels[j].priority =< rels[m].priority
                        /\ rels[j].priority = rels[m].priority =>
                             (rels[j].prohibited => rels[m].prohibited) /\ (rels[m].prohibited \/ j =< m)
      BY <1>5, <3>1
    <3>3. /\ i \in DOMAIN rels /\ m \in DOMAIN rels /\ rels[i] = r /\ rels[m] # r
          /\ Alike(rels, i, i) /\ r.priority =< rels[m].priority
      BY <1>1, <1>8, <2>3, <3>1, <3>2 DEF Alike
    <3>4. CASE rels[m].prohibited
      <4>1. rels[m] \in Others(r)
        BY <1>4, <3>2, <3>3
      <4>2. rels[m].priority >= r.priority
        BY <1>1, <3>3
      <4> QED
        BY <2>3, <3>4, <4>1, <4>2
    <3>5. CASE ~rels[m].prohibited
      <4>1. i # m /\ (rels[i].priority = rels[m].priority => i =< m)
        BY <3>2, <3>3, <3>5
      <4>2. R!SortsBefore(rels, i, m)
        BY <1>1, <2>3, <3>3, <3>5, <4>1 DEF R!SortsBefore
      <4>3. PICK j : NextAlike(rels, i, j)
        BY <3>2, <3>3, <4>2, NextExists
      <4>4. Alike(rels, i, j) /\ j \in DOMAIN rels /\ R!SortsBefore(rels, i, j)
        BY <4>3 DEF NextAlike, Alike
      <4>5. rels[i].prohibited # rels[j].prohibited
        BY <2>1, <3>1, <3>3, <4>3, ReportedAre
      <4>6. rels[j].prohibited /\ rels[j] # r
        BY <1>1, <2>3, <3>3, <4>4, <4>5
      <4>7. rels[j].priority >= r.priority
        BY <1>1, <3>3, <4>4, OrderIs
      <4>8. rels[j] \in Others(r)
        BY <1>4, <3>3, <4>4, <4>6
      <4> QED
        BY <2>3, <4>6, <4>7, <4>8
    <3> QED
      BY <3>4, <3>5
  <2> QED
    BY <2>2, <2>3
<1> HIDE DEF reported, Twice, Prohibits, Follows, Others
<1>9. /\ \A r \in reported \cap effective : Twice(r)
      /\ \A r \in reported, s \in R!Range(rels) :
           r.prohibited /\ s \in Others(r) /\ Prohibits(r, s) =>
             Twice(r) \/ \E t \in Others(r) : t.prohibited /\ Prohibits(t, s)
      /\ \A r \in R!Range(rels) \ (reported \cup effective) :
           \E s \in Others(r) : Prohibits(s, r) \/ Follows(r, s)
  BY <1>6, <1>7, <1>8
<1> QED
  BY <1>9 DEF R!ReportAgrees, reported, Twice, Prohibits, Follows, Others, effective

-----------------------------------------------------------------------------
(* Arcs of any number *)

ArcsSpec == input \in ArcSets /\ [][AddArc \/ CollectAgain]_input

\* The relationships of an arc have its number, none a number that is still to come.
ArcsType ==
    /\ input \in [about : {"arcs"}, rels : Seq(Rels), arcs : 0..MaxArcs, again : BOOLEAN]
    /\ \A i \in DOMAIN input.rels : input.rels[i].arc =< input.arcs
    /\ RelSeq(input.rels)

LEMMA ArcsInit == input \in ArcSets => ArcsType
<1> SUFFICES ASSUME input \in ArcSets PROVE ArcsType
  OBVIOUS
<1> DEFINE Lists == Seq(Rels)
<1>1. <<>> \in Lists /\ 0 \in 0..MaxArcs
  BY ArcsAssumption
<1> HIDE DEF Lists
<1>2. /\ input \in [about : {"arcs"}, rels : Lists, arcs : 0..MaxArcs, again : BOOLEAN]
      /\ input.rels = <<>>
  BY <1>1 DEF ArcSets
<1> QED
  BY <1>2 DEF Lists, ArcsType, RelSeq

LEMMA ArcsNext == ArcsType /\ [AddArc \/ CollectAgain]_input => ArcsType'
<1> DEFINE Lists == Seq(Rels)
           rels == input.rels
<1> SUFFICES ASSUME ArcsType, AddArc \/ CollectAgain PROVE ArcsType'
  BY DEF ArcsType, RelSeq
<1>1. /\ input \in [about : {"arcs"}, rels : Lists, arcs : 0..MaxArcs, again : BOOLEAN]
      /\ rels \in Lists /\ input.arcs \in 0..MaxArcs /\ MaxArcs \in Nat
      /\ \A i \in DOMAIN rels : rels[i].arc =< input.arcs
      /\ \A i, j \in DOMAIN rels : rels[i].arc = rels[j].arc =>
           /\ rels[i].custom = rels[j].custom /\ rels[i].priority = rels[j].priority
           /\ rels[i].prohibited = rels[j].prohibited
  <2> HIDE DEF Lists
  <2>1. input \in [about : {"arcs"}, rels : Lists, arcs : 0..MaxArcs, again : BOOLEAN]
    BY DEF ArcsType, Lists
  <2> QED
    BY <2>1, ArcsAssumption DEF ArcsType, RelSeq
<1>2. ASSUME NEW i \in DOMAIN rels PROVE rels[i] \in Rels /\ rels[i].arc \in Int
  <2>1. rels[i] \in Rels
    BY <1>1, ElementOfSeq, LenProperties
  <2> QED
    BY <2>1 DEF Rels
<1>3. CASE AddArc
  <2>1. PICK ends \in ArcEnds, custom \in Customs, priority \in Priorities, prohibited \in BOOLEAN :
           input' = [input EXCEPT
              !.arcs = @ + 1,
              !.rels = @ \o R!RelationshipsOf(input.arcs + 1, ends, custom, priority, prohibited)]
    BY <1>3 DEF AddArc
  <2> DEFINE new == R!RelationshipsOf(input.arcs + 1, ends, custom, priority, prohibited)
             all == rels \o new
  <2>2. ends \in Seq(Ends) /\ input.arcs + 1 \in 1..MaxArcs
    <3>1. input.arcs < MaxArcs
      BY <1>3 DEF AddArc
    <3> HIDE DEF new, all
    <3> QED
      BY <1>1, <3>1, ArcsAssumption
  <2>3. /\ new \in Lists /\ DOMAIN new = DOMAIN ends
        /\ \A i \in DOMAIN new : /\ new[i].arc = input.arcs + 1 /\ new[i].custom = custom
                                 /\ new[i].priority = priority /\ new[i].prohibited = prohibited
    <3>1. Len(ends) \in Nat /\ DOMAIN ends = 1..Len(ends) /\ \A i \in 1..Len(ends) : ends[i] \in Ends
      BY <2>2, LenProperties, ElementOfSeq
    <3> DEFINE rel(i) == [arc |-> input.arcs + 1, ends |-> ends[i], custom |-> custom,
                          priority |-> priority, prohibited |-> prohibited]
    <3>2. \A i \in 1..Len(ends) : rel(i) \in Rels
      BY <2>2, <3>1 DEF Rels
    <3>3. new = [i \in 1..Len(ends) |-> rel(i)]
      BY <3>1 DEF R!RelationshipsOf
    <3>4. \A i : /\ rel(i).arc = input.arcs + 1 /\ rel(i).custom = custom
                 /\ rel(i).priority = priority /\ rel(i).prohibited = prohibited
      OBVIOUS
    <3> HIDE DEF rel, new
    <3>5. new \in Lists
      BY <3>1, <3>2, <3>3, SeqDef
    <3> QED
      BY <3>1, <3>3, <3>4, <3>5
  <2> HIDE DEF new
  <2>4. /\ all \in Lists
        /\ \A i \in DOMAIN all : (i \in DOMAIN rels /\ all[i] = rels[i])
             \/ \E j \in DOMAIN new : all[i] = new[j]
    <3>1. /\ all \in Lists /\ Len(all) = Len(rels) + Len(new) /\ Len(rels) \in Nat /\ Len(new) \in Nat
          /\ DOMAIN rels = 1..Len(rels) /\ DOMAIN new = 1..Len(new) /\ DOMAIN all = 1..Len(all)
          /\ \A i \in 1..(Len(rels) + Len(new)) :
               all[i] = IF i =< Len(rels) THEN rels[i] ELSE new[i - Len(rels)]
      BY <1>1, <2>3, ConcatProperties, LenProperties
    <3> SUFFICES ASSUME NEW i \in DOMAIN all
                 PROVE  (i \in DOMAIN rels /\ all[i] = rels[i]) \/ \E j \in DOMAIN new : all[i] = new[j]
      BY <3>1
    <3> HIDE DEF all
    <3>2. CASE i =< Len(rels)
      BY <3>1, <3>2
    <3>3. CASE ~(i =< Len(rels))
      <4>1. i - Len(rels) \in 1..Len(new) /\ all[i] = new[i - Len(rels)]
        BY <3>1, <3>3
      <4> QED
        BY <3>1, <4>1
    <3> QED
      BY <3>2, <3>3
  <2>5. \A i \in DOMAIN all :
           \/ i \in DOMAIN rels /\ all[i] = rels[i]
           \/ /\ all[i].arc = input.arcs + 1 /\ all[i].custom = custom
              /\ all[i].priority = priority /\ all[i].prohibited = prohibited
    <3> HIDE DEF all
    <3> QED
      BY <2>3, <2>4
  <2>6. /\ input' \in [about : {"arcs"}, rels : Lists, arcs : 0..MaxArcs, again : BOOLEAN]
        /\ input'.rels = all /\ input'.arcs = input.arcs + 1
    <3>1. input' = [input EXCEPT !.arcs = input.arcs + 1, !.rels = all]
      BY <2>1 DEF new
    <3>2. input.arcs + 1 \in 0..MaxArcs
      BY <1>1, <2>2
    <3> HIDE DEF all, Lists
    <3> QED
      BY <1>1, <2>4, <3>1, <3>2
  <2> HIDE DEF all
  <2>7. \A i \in DOMAIN all : all[i].arc =< input.arcs + 1
    BY <1>1, <1>2, <2>5
  <2>8. ASSUME NEW i \in DOMAIN all, NEW j \in DOMAIN all, all[i].arc = all[j].arc
        PROVE  /\ all[i].custom = all[j].custom /\ all[i].priority = all[j].priority
               /\ all[i].prohibited = all[j].prohibited
    <3>1. \A k \in DOMAIN rels : rels[k].arc # input.arcs + 1
      BY <1>1, <1>2
    <3>2. (i \in DOMAIN rels /\ all[i] = rels[i] /\ j \in DOMAIN rels /\ all[j] = rels[j])
          \/ (all[i].arc = input.arcs + 1 /\ all[j].arc = input.arcs + 1
              /\ ~(i \in DOMAIN rels /\ all[i] = rels[i]) /\ ~(j \in DOMAIN rels /\ all[j] = rels[j]))
      BY <2>5, <2>8, <3>1
    <3> QED
      BY <1>1, <2>5, <2>8, <3>2
  <2> QED
    BY <2>4, <2>6, <2>7, <2>8 DEF ArcsType, RelSeq
<1>4. CASE CollectAgain
  <2> DEFINE all == rels \o rels
  <2>1. input' = [input EXCEPT !.rels = all, !.again = TRUE]
    BY <1>4 DEF CollectAgain
  <2>2. /\ all \in Lists
        /\ \A i \in DOMAIN all : \E j \in DOMAIN rels : all[i] = rels[j]
    <3>1. /\ all \in Lists /\ Len(all) = Len(rels) + Len(rels) /\ Len(rels) \in Nat
          /\ DOMAIN rels = 1..Len(rels) /\ DOMAIN all = 1..Len(all)
          /\ \A i \in 1..(Len(rels) + Len(rels)) :
               all[i] = IF i =< Len(rels) THEN rels[i] ELSE rels[i - Len(rels)]
      BY <1>1, ConcatProperties, LenProperties
    <3> SUFFICES ASSUME NEW i \in DOMAIN all PROVE \E j \in DOMAIN rels : all[i] = rels[j]
      BY <3>1
    <3> HIDE DEF all
    <3>2. CASE i =< Len(rels)
      BY <3>1, <3>2
    <3>3. CASE ~(i =< Len(rels))
      <4>1. i - Len(rels) \in 1..Len(rels) /\ all[i] = rels[i - Len(rels)]
        BY <3>1, <3>3
      <4> QED
        BY <3>1, <4>1
    <3> QED
      BY <3>2, <3>3
  <2> HIDE DEF all
  <2>3. /\ input' \in [about : {"arcs"}, rels : Lists, arcs : 0..MaxArcs, again : BOOLEAN]
        /\ input'.rels = all /\ input'.arcs = input.arcs
    <3> HIDE DEF Lists
    <3> QED
      BY <1>1, <2>1, <2>2
  <2>4. \A i \in DOMAIN all : all[i].arc =< input.arcs
    BY <1>1, <2>2
  <2>5. \A i, j \in DOMAIN all : all[i].arc = all[j].arc =>
           /\ all[i].custom = all[j].custom /\ all[i].priority = all[j].priority
           /\ all[i].prohibited = all[j].prohibited
    BY <1>1, <2>2
  <2> QED
    BY <2>2, <2>3, <2>4, <2>5 DEF ArcsType, RelSeq
<1> QED
  BY <1>3, <1>4

\* Whatever the arcs, their order, their repetition and the hashes in which they meet, the
\* relationship set has the effective relationships and the report of arcs without effect
\* agrees with it (ModelRelationshipSet.__init__, ineffectiveArcs).
THEOREM RelationshipsAreRight == ArcsSpec => []RelationshipsRight
<1>1. ArcsType => RelationshipsRight
  BY NetworkIsRight, ReportIsRight DEF RelationshipsRight, ArcsType
<1> QED
  BY <1>1, ArcsInit, ArcsNext, PTL DEF ArcsSpec

-----------------------------------------------------------------------------
(* Calculations *)

\* The facts of a concept, and a calculation.
FactList(fs) == fs \in Seq(CalculationFacts)
Calculation(c) ==
    /\ FactList(c.total)
    /\ c.items \in Seq(Seq(CalculationFacts))
    /\ c.weights \in Seq(Int \ {0}) /\ DOMAIN c.weights = DOMAIN c.items

LEMMA CalculationFactsAre ==
  ASSUME NEW fs, FactList(fs)
  PROVE  /\ DOMAIN fs = 1..Len(fs) /\ Len(fs) \in Nat
         /\ \A i \in 1..Len(fs) :
              /\ fs[i].kind \in {"value", "nan", "nil"} /\ fs[i].value \in Int
              /\ fs[i].decimals \in DOMAIN Unit \cup {Infinite} /\ fs[i].decimals \in Int
<1>1. DOMAIN fs = 1..Len(fs) /\ Len(fs) \in Nat /\ \A i \in 1..Len(fs) : fs[i] \in CalculationFacts
  BY LenProperties, ElementOfSeq DEF FactList
<1>2. ASSUME NEW i \in 1..Len(fs) PROVE C!IsFact(fs[i])
  BY <1>1, CalculationAssumption
<1> QED
  BY <1>1, <1>2, CalculationAssumption DEF C!IsFact

\* The lists of facts of a calculation.
LEMMA ListsAre ==
  ASSUME NEW c, Calculation(c)
  PROVE  /\ DOMAIN c.items = 1..Len(c.items) /\ Len(c.items) \in Nat
         /\ FactList(c.total) /\ \A k \in DOMAIN c.items : FactList(c.items[k])
         /\ \A k \in DOMAIN c.items : c.weights[k] \in Int \ {0}
         /\ C!Range(c.items) = {c.items[k] : k \in DOMAIN c.items}
<1> DEFINE L == Seq(CalculationFacts)
<1>1. c.items \in Seq(L) /\ c.weights \in Seq(Int \ {0}) /\ FactList(c.total)
  BY DEF Calculation
<1>2. \A k \in DOMAIN c.items : c.items[k] \in L
  <2> HIDE DEF L
  <2> QED
    BY <1>1, ElementOfSeq, LenProperties
<1>3. DOMAIN c.items = 1..Len(c.items) /\ Len(c.items) \in Nat
  <2> HIDE DEF L
  <2> QED
    BY <1>1, LenProperties
<1>4. \A k \in DOMAIN c.weights : c.weights[k] \in Int \ {0}
  BY <1>1, ElementOfSeq, LenProperties
<1> QED
  BY <1>1, <1>2, <1>3, <1>4 DEF FactList, Calculation, C!Range

-----------------------------------------------------------------------------
(* Calculations 1.0: the facts of a concept *)

LEMMA SameRoundedIs ==
  ASSUME NEW fs, FactList(fs), NEW i \in DOMAIN fs, NEW j \in DOMAIN fs, C!SameRounded(fs[i], fs[j])
  PROVE  /\ C!SameRounded(fs[j], fs[i])
         /\ fs[i].kind = "value" /\ fs[j].kind = "value"
         /\ fs[i].decimals = fs[j].decimals =>
              C!Round(fs[i].value, fs[i].decimals) = C!Round(fs[j].value, fs[j].decimals)
<1>1. fs[i].decimals \in Int /\ fs[j].decimals \in Int
  BY CalculationFactsAre
<1>2. C!Smaller(fs[i].decimals, fs[j].decimals) = C!Smaller(fs[j].decimals, fs[i].decimals)
  BY <1>1 DEF C!Smaller
<1>3. fs[i].decimals = fs[j].decimals => C!Smaller(fs[i].decimals, fs[j].decimals) = fs[i].decimals
  BY DEF C!Smaller
<1> QED
  BY <1>2, <1>3 DEF C!SameRounded

\* The first n facts of a concept that are not nil, and what is bound of them: the kept fact
\* is the most precise one; others of its precision have its value.
FirstValues(fs, n) == {i \in 1..n : fs[i].kind # "nil"}
Keeps(fs, V, k) ==
    /\ k \in V
    /\ \A i \in V : fs[i].decimals =< fs[k].decimals
    /\ \A i \in V : fs[i].decimals = fs[k].decimals =>
         C!Round(fs[i].value, fs[i].decimals) = C!Round(fs[k].value, fs[k].decimals)
    /\ \A i \in V : fs[i].kind = "nan" => V = {i}
Agrees(fs, V) == \A i \in V : V # {i} => \E j \in V \ {i} : C!SameRounded(fs[i], fs[j])
Bindings(fs) ==
    [kept : 0..Len(fs), duplicated : SUBSET (0..Len(fs)), consistent : SUBSET (0..Len(fs))]
BoundRight(fs, V, s, deDuplicate) ==
    /\ V = {} => s.kept = 0 /\ s.duplicated = {}
    /\ V # {} => s.kept \in V
    /\ s.duplicated # {} => \E i, j \in V : i # j /\ (deDuplicate => ~C!SameRounded(fs[i], fs[j]))
    /\ s.duplicated = {} /\ V # {} =>
         /\ Keeps(fs, V, s.kept) /\ Agrees(fs, V)
         /\ ~deDuplicate => \A i, j \in V : i = j

LEMMA BindFactIs ==
  ASSUME NEW fs, FactList(fs), NEW i \in 1..Len(fs), NEW s \in Bindings(fs), NEW deDuplicate \in BOOLEAN
  PROVE  C!BindFact(fs, s, i, deDuplicate) \in Bindings(fs)
<1> DEFINE N == 0..Len(fs)
           same == deDuplicate /\ C!SameRounded(fs[i], fs[s.kept])
           t == C!BindFact(fs, s, i, deDuplicate)
<1>1. i \in N /\ s.kept \in N /\ s.duplicated \in SUBSET N /\ s.consistent \in SUBSET N
  BY DEF Bindings
<1>2. /\ fs[i].kind = "nil" => t = s
      /\ fs[i].kind # "nil" /\ s.kept = 0 => t = [s EXCEPT !.kept = i]
      /\ fs[i].kind # "nil" /\ s.kept # 0 /\ ~same => t = [s EXCEPT !.duplicated = @ \cup {i, s.kept}]
      /\ fs[i].kind # "nil" /\ s.kept # 0 /\ same =>
           \/ t = [s EXCEPT !.kept = i, !.consistent = @ \cup {s.kept}]
           \/ t = [s EXCEPT !.consistent = @ \cup {i}]
  BY DEF C!BindFact
<1>3. s \in [kept : N, duplicated : SUBSET N, consistent : SUBSET N]
  BY DEF Bindings
<1> HIDE DEF N, same, t
<1>4. t \in [kept : N, duplicated : SUBSET N, consistent : SUBSET N]
  BY <1>1, <1>2, <1>3
<1> QED
  BY <1>4 DEF Bindings, N, t

LEMMA BindNext ==
  ASSUME NEW fs, FactList(fs), NEW n \in 0..(Len(fs) - 1), NEW s \in Bindings(fs), NEW deDuplicate \in BOOLEAN,
         BoundRight(fs, FirstValues(fs, n), s, deDuplicate)
  PROVE  BoundRight(fs, FirstValues(fs, n + 1), C!BindFact(fs, s, n + 1, deDuplicate), deDuplicate)
<1> DEFINE i == n + 1
           V == FirstValues(fs, n)
           W == FirstValues(fs, n + 1)
           t == C!BindFact(fs, s, i, deDuplicate)
           k == s.kept
<1>0. /\ Len(fs) \in Nat /\ DOMAIN fs = 1..Len(fs) /\ n \in Nat /\ i \in 1..Len(fs) /\ i \in Int
      /\ \A j \in 1..Len(fs) : fs[j].decimals \in Int
  BY CalculationFactsAre
<1>1. /\ V \subseteq DOMAIN fs /\ i \notin V
      /\ fs[i].kind = "nil" => W = V
      /\ fs[i].kind # "nil" => W = V \cup {i}
  BY <1>0 DEF FirstValues
<1> HIDE DEF V, W
<1>2. CASE fs[i].kind = "nil"
  <2>1. t = s
    BY <1>2 DEF C!BindFact
  <2> HIDE DEF t
  <2> QED
    BY <1>1, <1>2, <2>1 DEF V, W, t
<1>3. CASE fs[i].kind # "nil" /\ k = 0
  <2>1. t = [s EXCEPT !.kept = i]
    BY <1>3 DEF C!BindFact
  <2>2. V = {}
    BY <1>0, <1>1, <1>3 DEF BoundRight, V
  <2>3. s.duplicated = {}
    BY <2>2 DEF BoundRight, V
  <2>4. t.kept = i /\ t.duplicated = {} /\ W = {i}
    BY <1>1, <1>3, <2>1, <2>2, <2>3 DEF Bindings
  <2>5. fs[i].decimals \in Int
    BY <1>0
  <2> HIDE DEF t, i
  <2> QED
    BY <2>4, <2>5 DEF BoundRight, Keeps, Agrees, W, t, i
<1>4. CASE fs[i].kind # "nil" /\ k # 0
  <2> DEFINE same == deDuplicate /\ C!SameRounded(fs[i], fs[k])
  <2>1. V # {} /\ k \in V /\ k \in DOMAIN fs /\ k # i /\ W = V \cup {i}
    BY <1>1, <1>4 DEF BoundRight, V
  <2>2. /\ ~same => t = [s EXCEPT !.duplicated = @ \cup {i, k}]
        /\ same /\ fs[i].decimals > fs[k].decimals =>
             t = [s EXCEPT !.kept = i, !.consistent = @ \cup {k}]
        /\ same /\ ~(fs[i].decimals > fs[k].decimals) => t = [s EXCEPT !.consistent = @ \cup {i}]
    BY <1>4 DEF C!BindFact
  <2> HIDE DEF t
  <2>3. CASE ~same
    <3>1. t.kept = k /\ t.duplicated # {}
      BY <2>2, <2>3 DEF Bindings
    <3>2. k \in W /\ i \in W /\ i # k /\ (deDuplicate => ~C!SameRounded(fs[i], fs[k]))
      BY <2>1, <2>3
    <3> HIDE DEF i, k, same
    <3>3. BoundRight(fs, W, t, deDuplicate)
      BY <3>1, <3>2 DEF BoundRight
    <3> QED
      BY <3>3 DEF W, t, i
  <2>4. CASE same /\ s.duplicated # {}
    <3>1. t.duplicated = s.duplicated /\ t.kept \in {i, k}
      BY <2>2, <2>4 DEF Bindings
    <3>2. \E a, b \in V : a # b /\ (deDuplicate => ~C!SameRounded(fs[a], fs[b]))
      BY <2>4 DEF BoundRight, V
    <3> HIDE DEF i, k, same
    <3>3. BoundRight(fs, W, t, deDuplicate)
      BY <2>1, <2>4, <3>1, <3>2 DEF BoundRight
    <3> QED
      BY <3>3 DEF W, t, i
  <2>5. CASE same /\ s.duplicated = {}
    <3>1. Keeps(fs, V, k) /\ Agrees(fs, V)
      BY <2>1, <2>5 DEF BoundRight, V
    <3>2. /\ C!SameRounded(fs[k], fs[i]) /\ fs[i].kind = "value" /\ fs[k].kind = "value"
          /\ fs[i].decimals = fs[k].decimals =>
               C!Round(fs[i].value, fs[i].decimals) = C!Round(fs[k].value, fs[k].decimals)
      BY <1>0, <2>1, <2>5, SameRoundedIs
    <3>3. /\ t.duplicated = {}
          /\ fs[i].decimals > fs[k].decimals => t.kept = i
          /\ ~(fs[i].decimals > fs[k].decimals) => t.kept = k
      BY <2>2, <2>5 DEF Bindings
    <3>4. fs[i].decimals \in Int /\ \A j \in V : fs[j].decimals \in Int
      BY <1>0, <1>1
    <3>5. \A j \in W : fs[j].kind # "nan"
      BY <2>1, <3>1, <3>2 DEF Keeps
    <3>6. Agrees(fs, W)
      <4> SUFFICES ASSUME NEW j \in W PROVE \E l \in W \ {j} : C!SameRounded(fs[j], fs[l])
        BY DEF Agrees
      <4>1. CASE j = i
        BY <2>1, <2>5, <4>1
      <4>2. CASE j = k
        BY <2>1, <3>2, <4>2
      <4>3. CASE j # i /\ j # k
        BY <2>1, <3>1, <4>3 DEF Agrees
      <4> QED
        BY <4>1, <4>2, <4>3
    <3>7. Keeps(fs, W, t.kept)
      <4> HIDE DEF i, k, same
      <4>1. CASE fs[i].decimals > fs[k].decimals
        <5>1. t.kept = i /\ \A j \in V : fs[j].decimals < fs[i].decimals
          BY <2>1, <3>1, <3>3, <3>4, <4>1 DEF Keeps
        <5>2. \A j \in W : j = i \/ fs[j].decimals < fs[i].decimals
          BY <2>1, <5>1
        <5>3. \A j \in W : fs[j].decimals =< fs[i].decimals
          BY <3>4, <5>2, <2>1
        <5> QED
          BY <2>1, <3>4, <3>5, <5>1, <5>2, <5>3 DEF Keeps
      <4>2. CASE ~(fs[i].decimals > fs[k].decimals)
        BY <2>1, <3>1, <3>2, <3>3, <3>4, <3>5, <4>2 DEF Keeps
      <4> QED
        BY <4>1, <4>2
    <3>8. t.kept \in W /\ W # {}
      BY <3>7 DEF Keeps
    <3> HIDE DEF i, k
    <3>9. BoundRight(fs, W, t, deDuplicate)
      BY <2>5, <3>3, <3>6, <3>7, <3>8 DEF BoundRight
    <3> QED
      BY <3>9 DEF W, t, i
  <2> QED
    BY <2>3, <2>4, <2>5
<1> QED
  BY <1>2, <1>3, <1>4

\* What is bound of all facts of a concept (bindFacts).
LEMMA BindFactsRight ==
  ASSUME NEW fs, FactList(fs), NEW deDuplicate \in BOOLEAN
  PROVE  /\ C!BindFacts(fs, deDuplicate) \in Bindings(fs)
         /\ BoundRight(fs, FirstValues(fs, Len(fs)), C!BindFacts(fs, deDuplicate), deDuplicate)
<1> DEFINE n == Len(fs)
           S == Bindings(fs)
           init == C!NotBound
           step == [p \in (1..n) \X S |-> C!BindFact(fs, p[2], p[1], deDuplicate)]
           b == CHOOSE f : f = [k \in 0..n |-> IF k = 0 THEN init
                                               ELSE C!BindFact(fs, f[k - 1], k, deDuplicate)]
<1>1. n \in Nat
  BY CalculationFactsAre
<1>2. init \in S
  BY <1>1 DEF C!NotBound, Bindings
<1>3. step \in Steps(n, S)
  <2>1. \A k \in 1..n, s \in S : C!BindFact(fs, s, k, deDuplicate) \in S
    BY BindFactIs
  <2> HIDE DEF S
  <2> QED
    BY <2>1 DEF Steps
<1>4. \A k \in 1..n, s \in S : step[<<k, s>>] = C!BindFact(fs, s, k, deDuplicate)
  <2> HIDE DEF S
  <2> QED
    OBVIOUS
<1>5. PICK g : IsLoop(n, S, init, step, g)
  <2> HIDE DEF n, S, init, step
  <2> QED
    BY <1>1, <1>2, <1>3, LoopExists
<1>6. g \in [0..n -> S] /\ g = [k \in 0..n |-> IF k = 0 THEN init ELSE step[<<k, g[k - 1]>>]]
  BY <1>5 DEF IsLoop
<1> HIDE DEF step, S
<1>7. g = [k \in 0..n |-> IF k = 0 THEN init ELSE C!BindFact(fs, g[k - 1], k, deDuplicate)]
  <2>1. \A k \in 1..n : g[k - 1] \in S
    BY <1>1, <1>6
  <2>2. \A k \in 0..n : g[k] = IF k = 0 THEN init ELSE C!BindFact(fs, g[k - 1], k, deDuplicate)
    <3> SUFFICES ASSUME NEW k \in 0..n
                 PROVE  g[k] = IF k = 0 THEN init ELSE C!BindFact(fs, g[k - 1], k, deDuplicate)
      OBVIOUS
    <3>1. CASE k = 0
      BY <1>6, <3>1
    <3>2. CASE k # 0
      <4>1. k \in 1..n
        BY <1>1, <3>2
      <4>2. g[k] = step[<<k, g[k - 1]>>]
        BY <1>6, <3>2
      <4> QED
        BY <1>4, <2>1, <3>2, <4>1, <4>2
    <3> QED
      BY <3>1, <3>2
  <2>3. g = [k \in 0..n |-> g[k]]
    BY <1>6
  <2> HIDE DEF init
  <2> QED
    BY <2>2, <2>3
<1>8. b = [k \in 0..n |-> IF k = 0 THEN init ELSE C!BindFact(fs, b[k - 1], k, deDuplicate)]
  BY <1>7
<1>9. b[0] = init /\ \A k \in 1..n : b[k] = C!BindFact(fs, b[k - 1], k, deDuplicate)
  <2> HIDE DEF b, init
  <2> QED
    BY <1>1, <1>8
<1> HIDE DEF b
<1> DEFINE Right == {k \in 0..n : b[k] \in S /\ BoundRight(fs, FirstValues(fs, k), b[k], deDuplicate)}
<1>10. 0 \in Right
  <2>1. FirstValues(fs, 0) = {}
    BY DEF FirstValues
  <2>2. BoundRight(fs, {}, init, deDuplicate)
    BY DEF BoundRight, C!NotBound
  <2> QED
    BY <1>1, <1>2, <1>9, <2>1, <2>2
<1>11. ASSUME NEW k \in 0..(n - 1), k \in Right PROVE k + 1 \in Right
  <2>1. b[k] \in S /\ BoundRight(fs, FirstValues(fs, k), b[k], deDuplicate)
    BY <1>11
  <2>2. k + 1 \in 1..n /\ (k + 1) - 1 = k
    BY <1>1
  <2>3. b[k + 1] = C!BindFact(fs, b[k], k + 1, deDuplicate)
    BY <1>9, <2>2
  <2> QED
    BY <2>1, <2>2, <2>3, BindFactIs, BindNext DEF S
<1>12. n \in Right
  <2> HIDE DEF Right, n
  <2>1. \A k \in 0..n : k \in Right
    BY <1>1, <1>10, <1>11, UpTo
  <2> QED
    BY <1>1, <2>1
<1>13. C!BindFacts(fs, deDuplicate) = b[n]
  BY DEF C!BindFacts, b
<1> QED
  BY <1>12, <1>13 DEF S

\* What the facts of a concept come to, when there are no duplicates: nothing, or a fact
\* as precise and of the same value as the most precise one.
KeptOf(fs, found) ==
    IF C!Values(fs) = {} THEN found = C!Nothing
    ELSE \E k \in C!Values(fs) : found = [is |-> "fact", fact |-> fs[k]] /\ Keeps(fs, C!Values(fs), k)

LEMMA Facts10Are ==
  ASSUME NEW fs, FactList(fs), NEW deDuplicate \in BOOLEAN
  PROVE  \/ /\ C!Facts10(fs, deDuplicate) = C!Inconsistent
            /\ \E i, j \in C!Values(fs) : i # j /\ (deDuplicate => ~C!SameRounded(fs[i], fs[j]))
         \/ /\ KeptOf(fs, C!Facts10(fs, deDuplicate)) /\ C!Agree(fs)
            /\ ~deDuplicate => C!Single(fs)
<1> DEFINE V == C!Values(fs)
           s == C!BindFacts(fs, deDuplicate)
<1>1. FirstValues(fs, Len(fs)) = V /\ \A i \in V : i # 0
  BY CalculationFactsAre DEF FirstValues, C!Values
<1>2. BoundRight(fs, V, s, deDuplicate)
  BY <1>1, BindFactsRight
<1>3. /\ s.duplicated # {} => C!Facts10(fs, deDuplicate) = C!Inconsistent
      /\ s.duplicated = {} /\ s.kept = 0 => C!Facts10(fs, deDuplicate) = C!Nothing
      /\ s.duplicated = {} /\ s.kept # 0 =>
           C!Facts10(fs, deDuplicate) = [is |-> "fact", fact |-> fs[s.kept]]
  BY DEF C!Facts10
<1> HIDE DEF s, V
<1>4. CASE s.duplicated # {}
  BY <1>2, <1>3, <1>4 DEF BoundRight, V
<1>5. CASE s.duplicated = {} /\ V = {}
  BY <1>2, <1>3, <1>5 DEF BoundRight, V, KeptOf, C!Agree, C!Single
<1>6. CASE s.duplicated = {} /\ V # {}
  <2>1. s.kept \in V /\ s.kept # 0 /\ Keeps(fs, V, s.kept) /\ Agrees(fs, V)
        /\ (~deDuplicate => \A i, j \in V : i = j)
    BY <1>1, <1>2, <1>6 DEF BoundRight
  <2>2. KeptOf(fs, C!Facts10(fs, deDuplicate))
    BY <1>3, <1>6, <2>1 DEF KeptOf, V
  <2> QED
    BY <2>1, <2>2 DEF Agrees, V, C!Agree, C!Single
<1> QED
  BY <1>4, <1>5, <1>6

\* The fact that is kept counts as the most precise one does.
LEMMA KeptIsMostPrecise ==
  ASSUME NEW fs, FactList(fs), NEW k \in C!Values(fs), Keeps(fs, C!Values(fs), k)
  PROVE  /\ C!MostPrecise(fs).decimals = fs[k].decimals
         /\ C!Round(C!MostPrecise(fs).value, C!MostPrecise(fs).decimals) = C!Round(fs[k].value, fs[k].decimals)
         /\ fs[k].kind = "nan" <=> \E f \in C!Reported(fs) : f.kind = "nan"
<1> DEFINE V == C!Values(fs)
           m == C!MostPrecise(fs)
<1>1. C!Reported(fs) = {fs[i] : i \in V} /\ V \subseteq DOMAIN fs
  BY DEF C!Reported, C!Values, C!Range
<1>2. \A i \in V : fs[i].decimals \in Int
  BY <1>1, CalculationFactsAre
<1> HIDE DEF V
<1>3. \A g \in C!Reported(fs) : g.decimals =< fs[k].decimals
  BY <1>1 DEF Keeps, V
<1>4. fs[k] \in C!Reported(fs)
  BY <1>1 DEF V
<1>5. m \in C!Reported(fs) /\ \A g \in C!Reported(fs) : g.decimals =< m.decimals
  BY <1>3, <1>4 DEF C!MostPrecise
<1> HIDE DEF m
<1>6. PICK j \in V : m = fs[j]
  BY <1>1, <1>5
<1>7. fs[j].decimals = fs[k].decimals
  BY <1>2, <1>3, <1>4, <1>5, <1>6 DEF V
<1>8. C!Round(fs[j].value, fs[j].decimals) = C!Round(fs[k].value, fs[k].decimals)
  BY <1>7 DEF Keeps, V
<1>9. fs[k].kind = "nan" <=> \E f \in C!Reported(fs) : f.kind = "nan"
  BY <1>1, <1>4 DEF Keeps, V
<1> QED
  BY <1>6, <1>7, <1>8, <1>9 DEF m

LEMMA ReportedAreValues ==
  ASSUME NEW fs, FactList(fs)
  PROVE  /\ C!Reported(fs) = {} <=> C!Values(fs) = {}
         /\ C!Values(fs) # {} => fs # <<>>
  BY DEF C!Reported, C!Values, C!Range

\* The definition's verdict is that on the facts that are kept.
LEMMA VerdictOfKept ==
  ASSUME NEW c, Calculation(c), NEW deDuplicate \in BOOLEAN, ~(Len(c.total) > 1 /\ ~deDuplicate),
         KeptOf(c.total, C!Facts10(c.total, deDuplicate)),
         \A k \in DOMAIN c.items : KeptOf(c.items[k], C!Facts10(c.items[k], deDuplicate))
  PROVE  C!Validate10(c, deDuplicate) = C!Definition10(c)
<1> DEFINE RoundFact(f) == C!Round(f.value, f.decimals)
           n == Len(c.items)
           total == C!Facts10(c.total, deDuplicate)
           found == [k \in DOMAIN c.items |-> C!Facts10(c.items[k], deDuplicate)]
           added == {k \in C!Items(c) : found[k].is = "fact"}
           numbers == [k \in added |-> RoundFact(found[k].fact) * c.weights[k]]
           NaN == \E f \in {total.fact} \cup {found[k].fact : k \in added} : f.kind = "nan"
           sum == C!SumOfNumbers(n, numbers)
           best == C!MostPrecise(c.total)
           all == {k \in DOMAIN c.items : C!Reported(c.items[k]) # {}}
           precise == [k \in all |-> RoundFact(C!MostPrecise(c.items[k])) * c.weights[k]]
           Nan == \E fs \in {c.total} \cup C!Range(c.items) : \E f \in C!Reported(fs) : f.kind = "nan"
<1>0. /\ FactList(c.total) /\ \A k \in DOMAIN c.items : FactList(c.items[k])
      /\ C!Range(c.items) = {c.items[k] : k \in DOMAIN c.items}
  BY ListsAre
<1>1. ASSUME NEW fs, FactList(fs), NEW r, KeptOf(fs, r)
      PROVE  /\ r.is \in {"nothing", "fact"}
             /\ r.is = "fact" <=> C!Reported(fs) # {}
             /\ r.is = "fact" =>
                  /\ fs # <<>> /\ r.fact.decimals = C!MostPrecise(fs).decimals
                  /\ RoundFact(r.fact) = RoundFact(C!MostPrecise(fs))
                  /\ r.fact.kind = "nan" <=> \E f \in C!Reported(fs) : f.kind = "nan"
  <2>1. CASE C!Values(fs) = {}
    BY <1>1, <2>1, ReportedAreValues DEF KeptOf, C!Nothing
  <2>2. CASE C!Values(fs) # {}
    <3>1. PICK k \in C!Values(fs) : r = [is |-> "fact", fact |-> fs[k]] /\ Keeps(fs, C!Values(fs), k)
      BY <1>1, <2>2 DEF KeptOf
    <3>2. r.is = "fact" /\ r.fact = fs[k]
      BY <3>1
    <3> QED
      BY <1>1, <2>2, <3>1, <3>2, KeptIsMostPrecise, ReportedAreValues
  <2> QED
    BY <2>1, <2>2
<1> HIDE DEF RoundFact
<1>2. \A k \in DOMAIN c.items :
        /\ found[k].is \in {"nothing", "fact"}
        /\ found[k].is = "fact" <=> C!Reported(c.items[k]) # {}
        /\ found[k].is = "fact" =>
             /\ c.items[k] # <<>>
             /\ RoundFact(found[k].fact) = RoundFact(C!MostPrecise(c.items[k]))
             /\ found[k].fact.kind = "nan" <=> \E f \in C!Reported(c.items[k]) : f.kind = "nan"
  BY <1>0, <1>1
<1>3. /\ total.is \in {"nothing", "fact"}
      /\ total.is = "fact" <=> C!Reported(c.total) # {}
      /\ total.is = "fact" =>
           /\ total.fact.decimals = best.decimals /\ RoundFact(total.fact) = RoundFact(best)
           /\ total.fact.kind = "nan" <=> \E f \in C!Reported(c.total) : f.kind = "nan"
  BY <1>0, <1>1
<1>4. C!Validate10(c, deDuplicate) =
        IF \/ total.is # "fact" \/ added = {}
           \/ \E k \in DOMAIN found : found[k].is = "inconsistent" THEN "not bound"
        ELSE IF NaN \/ C!Round(sum, total.fact.decimals) # RoundFact(total.fact)
        THEN "inconsistent" ELSE "consistent"
  BY DEF C!Validate10, RoundFact
<1>5. C!Definition10(c) =
        IF C!Reported(c.total) = {} \/ all = {} THEN "not bound"
        ELSE IF Nan \/ C!Round(C!SumOfNumbers(n, precise), best.decimals) # RoundFact(best)
        THEN "inconsistent" ELSE "consistent"
  BY DEF C!Definition10, RoundFact
<1> HIDE DEF found, best
<1>6. DOMAIN found = DOMAIN c.items
  BY DEF found
<1>7. added = all /\ all \subseteq DOMAIN c.items
  BY <1>2 DEF C!Items
<1>8. numbers = precise
  BY <1>2, <1>7
<1>9. total.is = "fact" => (NaN <=> Nan)
  <2>1. Nan <=> \/ \E f \in C!Reported(c.total) : f.kind = "nan"
                \/ \E k \in all : \E f \in C!Reported(c.items[k]) : f.kind = "nan"
    BY <1>0
  <2>2. NaN <=> total.fact.kind = "nan" \/ \E k \in added : found[k].fact.kind = "nan"
    BY <1>7
  <2>3. \A k \in added : /\ k \in all /\ k \in DOMAIN c.items /\ found[k].is = "fact"
    BY <1>7
  <2> HIDE DEF Nan, NaN, all, added
  <2> QED
    BY <1>2, <1>3, <1>7, <2>1, <2>2, <2>3
<1>10. ~\E k \in DOMAIN found : found[k].is = "inconsistent"
  BY <1>2, <1>3, <1>6
<1> HIDE DEF total, added, all, numbers, precise, NaN, Nan
<1> QED
  BY <1>3, <1>4, <1>5, <1>7, <1>8, <1>9, <1>10

\* Calculations 1.0: the verdicts with and without de-duplication.
LEMMA Verdict10IsRight ==
  ASSUME NEW c, Calculation(c)
  PROVE  C!Verdict10Right(c)
<1> DEFINE Lists == {c.total} \cup C!Range(c.items)
           Clear(deDuplicate) == \A fs \in Lists : KeptOf(fs, C!Facts10(fs, deDuplicate))
<1>1. /\ \A fs \in Lists : FactList(fs) /\ (fs = c.total \/ \E k \in DOMAIN c.items : fs = c.items[k])
      /\ c.total \in Lists /\ \A k \in DOMAIN c.items : c.items[k] \in Lists
  <2>1. /\ FactList(c.total) /\ \A k \in DOMAIN c.items : FactList(c.items[k])
        /\ C!Range(c.items) = {c.items[k] : k \in DOMAIN c.items}
    BY ListsAre
  <2> QED
    BY <2>1
<1> HIDE DEF Lists
<1>2. ASSUME NEW deDuplicate \in BOOLEAN, Clear(deDuplicate), ~(Len(c.total) > 1 /\ ~deDuplicate)
      PROVE  C!Validate10(c, deDuplicate) = C!Definition10(c)
  BY <1>1, <1>2, VerdictOfKept
<1>3. ASSUME NEW deDuplicate \in BOOLEAN, NEW fs \in Lists, C!Facts10(fs, deDuplicate) = C!Inconsistent
      PROVE  C!Validate10(c, deDuplicate) = "not bound"
  <2> DEFINE total == C!Facts10(c.total, deDuplicate)
             found == [k \in DOMAIN c.items |-> C!Facts10(c.items[k], deDuplicate)]
  <2>1. total.is = "inconsistent" \/ \E k \in DOMAIN found : found[k].is = "inconsistent"
    BY <1>1, <1>3 DEF C!Inconsistent
  <2> HIDE DEF total, found
  <2> QED
    BY <2>1 DEF C!Validate10, total, found
<1>4. ASSUME NEW deDuplicate \in BOOLEAN, \A fs \in Lists : C!Facts10(fs, deDuplicate) # C!Inconsistent
      PROVE  /\ Clear(deDuplicate) /\ \A fs \in Lists : C!Agree(fs)
             /\ ~deDuplicate => \A fs \in Lists : C!Single(fs)
  BY <1>1, <1>4, Facts10Are
<1>5. C!Validate10(c, TRUE) # "not bound" =>
        C!Validate10(c, TRUE) = C!Definition10(c) /\ \A fs \in Lists : C!Agree(fs)
  BY <1>2, <1>3, <1>4
<1>6. (\A fs \in Lists : C!AllAgree(fs)) => C!Validate10(c, TRUE) = C!Definition10(c)
  <2> SUFFICES ASSUME \A fs \in Lists : C!AllAgree(fs) PROVE C!Validate10(c, TRUE) = C!Definition10(c)
    OBVIOUS
  <2>1. ASSUME NEW fs \in Lists PROVE KeptOf(fs, C!Facts10(fs, TRUE))
    BY <1>1, Facts10Are DEF C!AllAgree
  <2> QED
    BY <1>2, <2>1
<1>7. C!Validate10(c, FALSE) =
        IF (\A fs \in Lists : C!Single(fs)) /\ Len(c.total) = 1 THEN C!Definition10(c) ELSE "not bound"
  <2>0. FactList(c.total) /\ Len(c.total) \in Nat
    BY <1>1, CalculationFactsAre
  <2>1. CASE \E fs \in Lists : C!Facts10(fs, FALSE) = C!Inconsistent
    <3>1. PICK fs \in Lists : C!Facts10(fs, FALSE) = C!Inconsistent
      BY <2>1
    <3>2. ~C!Single(fs)
      <4>1. ~KeptOf(fs, C!Inconsistent)
        BY DEF KeptOf, C!Inconsistent, C!Nothing
      <4> QED
        BY <1>1, <3>1, <4>1, Facts10Are DEF C!Single
    <3> QED
      BY <1>3, <3>1, <3>2
  <2>2. CASE \A fs \in Lists : C!Facts10(fs, FALSE) # C!Inconsistent
    <3>1. Clear(FALSE) /\ \A fs \in Lists : C!Single(fs)
      BY <1>4, <2>2
    <3>2. CASE Len(c.total) = 1
      <4>1. ~(Len(c.total) > 1)
        BY <2>0, <3>2
      <4>2. C!Validate10(c, FALSE) = C!Definition10(c)
        BY <1>2, <3>1, <4>1
      <4> QED
        BY <3>1, <3>2, <4>2
    <3>3. CASE Len(c.total) # 1
      <4> DEFINE whole == C!Facts10(c.total, FALSE)
                 found == [k \in DOMAIN c.items |-> C!Facts10(c.items[k], FALSE)]
      <4>1. KeptOf(c.total, whole)
        BY <1>1, <3>1
      <4>2. Len(c.total) = 0 => C!Values(c.total) = {}
        BY <2>0, CalculationFactsAre DEF C!Values
      <4> HIDE DEF whole, found, Clear
      <4>3. C!Values(c.total) = {} => whole.is # "fact"
        BY <4>1 DEF KeptOf, C!Nothing
      <4>4. Len(c.total) > 1 \/ Len(c.total) = 0
        <5>1. \A n \in Nat : n = 1 \/ n > 1 \/ n = 0
          OBVIOUS
        <5> QED
          BY <2>0, <3>3, <5>1
      <4>5. C!Validate10(c, FALSE) = "not bound"
        BY <4>2, <4>3, <4>4 DEF C!Validate10, whole, found
      <4> QED
        BY <3>3, <4>5
    <3> QED
      BY <3>2, <3>3
  <2> QED
    BY <2>1, <2>2
<1> QED
  BY <1>5, <1>6, <1>7 DEF C!Verdict10Right, Lists

-----------------------------------------------------------------------------
(* Calculations 1.1: the interval of the facts of a concept *)

Ranges == [a : Int, b : Int, inclA : BOOLEAN, inclB : BOOLEAN]

\* An interval that has one value only has it; rounded to nearest, bounds belong to it.
Proper(r, truncate) ==
    /\ r \in Ranges /\ r.a =< r.b
    /\ r.a = r.b => r.inclA /\ r.inclB
    /\ ~truncate => r.inclA /\ r.inclB

LEMMA RangesAre ==
  ASSUME NEW fs, FactList(fs), NEW i \in DOMAIN fs, NEW truncate \in BOOLEAN
  PROVE  Proper(C!RangeValue(fs[i], truncate), truncate)
<1> DEFINE v == fs[i].value
           u == Unit[fs[i].decimals]
           h == u \div 2
           r == C!RangeValue(fs[i], truncate)
<1>1. v \in Int /\ fs[i].decimals \in DOMAIN Unit \cup {Infinite}
  BY CalculationFactsAre
<1>2. fs[i].decimals # Infinite => u \in Nat /\ u > 0 /\ u % 2 = 0
  BY <1>1, CalculationAssumption
<1>3. fs[i].decimals # Infinite => h \in Nat /\ h > 0
  <2>1. \A n \in Nat : n > 0 /\ n % 2 = 0 => n \div 2 \in Nat /\ n \div 2 > 0
    OBVIOUS
  <2> HIDE DEF u
  <2> QED
    BY <1>2, <2>1
<1>4. CASE fs[i].decimals = Infinite
  <2>1. r = C!Interval(v, v, TRUE, TRUE)
    BY <1>4 DEF C!RangeValue
  <2> HIDE DEF v, r
  <2>2. r \in Ranges /\ r.a = v /\ r.b = v /\ r.inclA /\ r.inclB
    BY <1>1, <2>1 DEF C!Interval, Ranges
  <2> QED
    BY <1>1, <2>2 DEF Proper, r
<1>5. CASE fs[i].decimals # Infinite /\ ~truncate
  <2>1. r = C!Interval(v - h, v + h, TRUE, TRUE)
    BY <1>5 DEF C!RangeValue
  <2> HIDE DEF v, h, r
  <2>2. v - h \in Int /\ v + h \in Int /\ v - h =< v + h
    BY <1>1, <1>3, <1>5
  <2>3. r \in Ranges /\ r.a = v - h /\ r.b = v + h /\ r.inclA /\ r.inclB
    BY <2>1, <2>2 DEF C!Interval, Ranges
  <2> QED
    BY <2>2, <2>3 DEF Proper, r
<1>6. CASE fs[i].decimals # Infinite /\ truncate
  <2>1. /\ v > 0 => r = C!Interval(v, v + u, TRUE, FALSE)
        /\ v < 0 => r = C!Interval(v - u, v, FALSE, TRUE)
        /\ v = 0 => r = C!Interval(v - u, v + u, FALSE, FALSE)
    <3> DEFINE infinite == fs[i].decimals = Infinite
    <3>1. r = CASE infinite -> C!Interval(v, v, TRUE, TRUE)
                [] ~infinite /\ ~truncate -> C!Interval(v - u \div 2, v + u \div 2, TRUE, TRUE)
                [] ~infinite /\ truncate /\ v > 0 -> C!Interval(v, v + u, TRUE, FALSE)
                [] ~infinite /\ truncate /\ v < 0 -> C!Interval(v - u, v, FALSE, TRUE)
                [] ~infinite /\ truncate /\ v = 0 -> C!Interval(v - u, v + u, FALSE, FALSE)
      BY DEF C!RangeValue
    <3>2. /\ v > 0 => ~(v < 0) /\ ~(v = 0)
          /\ v < 0 => ~(v > 0) /\ ~(v = 0)
          /\ v = 0 => ~(v > 0) /\ ~(v < 0)
      BY <1>1
    <3> DEFINE positive == v > 0
               negative == v < 0
    <3>3. ~infinite /\ truncate
      BY <1>6
    <3> HIDE DEF v, u, r, infinite, positive, negative
    <3> QED
      BY <3>1, <3>2, <3>3 DEF positive, negative
  <2> HIDE DEF v, u, r
  <2>2. /\ v - u \in Int /\ v + u \in Int
        /\ v < v + u /\ v - u < v /\ v - u < v + u
    BY <1>1, <1>2, <1>6
  <2>3. CASE v > 0
    <3>1. r = C!Interval(v, v + u, TRUE, FALSE)
      BY <2>1, <2>3
    <3>2. r \in Ranges /\ r.a = v /\ r.b = v + u
      BY <1>1, <2>2, <3>1 DEF C!Interval, Ranges
    <3>3. r.a < r.b
      BY <2>2, <3>2
    <3>4. r.a \in Int /\ r.b \in Int
      BY <3>2 DEF Ranges
    <3>5. r.a =< r.b /\ r.a # r.b
      BY <3>3, <3>4
    <3>6. Proper(r, truncate)
      BY <1>6, <3>2, <3>5 DEF Proper
    <3> QED
      BY <3>6 DEF r
  <2>4. CASE v < 0
    <3>1. r = C!Interval(v - u, v, FALSE, TRUE)
      BY <2>1, <2>4
    <3>2. r \in Ranges /\ r.a = v - u /\ r.b = v
      BY <1>1, <2>2, <3>1 DEF C!Interval, Ranges
    <3>3. r.a < r.b
      BY <2>2, <3>2
    <3>4. r.a \in Int /\ r.b \in Int
      BY <3>2 DEF Ranges
    <3>5. r.a =< r.b /\ r.a # r.b
      BY <3>3, <3>4
    <3>6. Proper(r, truncate)
      BY <1>6, <3>2, <3>5 DEF Proper
    <3> QED
      BY <3>6 DEF r
  <2>5. CASE v = 0
    <3>1. r = C!Interval(v - u, v + u, FALSE, FALSE)
      BY <2>1, <2>5
    <3>2. r \in Ranges /\ r.a = v - u /\ r.b = v + u
      BY <1>1, <2>2, <3>1 DEF C!Interval, Ranges
    <3>3. r.a < r.b
      BY <2>2, <3>2
    <3>4. r.a \in Int /\ r.b \in Int
      BY <3>2 DEF Ranges
    <3>5. r.a =< r.b /\ r.a # r.b
      BY <3>3, <3>4
    <3>6. Proper(r, truncate)
      BY <1>6, <3>2, <3>5 DEF Proper
    <3> QED
      BY <3>6 DEF r
  <2> QED
    BY <1>1, <2>3, <2>4, <2>5
<1> QED
  BY <1>4, <1>5, <1>6

\* The first n facts of a concept, all of them with values, narrow to the common values; a
\* bound that one of them has belongs to the interval if it does for that one.
Narrowings ==
    [decimals : SUBSET (DOMAIN Unit \cup {Infinite}), range : Ranges, excess : BOOLEAN,
     ended : BOOLEAN]
Within(fs, n, r, truncate) ==
    /\ \A i \in 1..n : /\ C!RangeValue(fs[i], truncate).a =< r.a
                       /\ r.b =< C!RangeValue(fs[i], truncate).b
    /\ \E i \in 1..n : /\ C!RangeValue(fs[i], truncate).a = r.a
                       /\ C!RangeValue(fs[i], truncate).inclA => r.inclA
    /\ \E i \in 1..n : /\ C!RangeValue(fs[i], truncate).b = r.b
                       /\ C!RangeValue(fs[i], truncate).inclB => r.inclB
NarrowRight(fs, n, s, truncate) ==
    /\ ~s.ended
    /\ s.excess <=> \E i \in 1..n : C!ExcessDigits(fs[i])
    /\ ~s.excess => s.decimals = {fs[i].decimals : i \in 1..n}
    /\ ~s.excess /\ n > 0 => Within(fs, n, s.range, truncate)

\* What the next fact makes of what has been narrowed.
NarrowStep(s, f, t, truncate) ==
    LET r == C!RangeValue(f, truncate)
    IN  /\ t \in Narrowings
        /\ s.ended \/ f.kind = "nan" => t = [s EXCEPT !.ended = TRUE]
        /\ ~s.ended /\ f.kind = "value" /\ C!ExcessDigits(f) => t = [s EXCEPT !.excess = TRUE]
        /\ ~s.ended /\ f.kind = "value" /\ ~C!ExcessDigits(f) =>
             IF f.decimals \in s.decimals THEN t = s
             ELSE /\ t.ended = s.ended /\ t.excess = s.excess
                  /\ t.decimals = s.decimals \cup {f.decimals}
                  /\ IF s.decimals = {} \/ r.a >= s.range.a
                     THEN t.range.a = r.a /\ (r.inclA => t.range.inclA)
                     ELSE t.range.a = s.range.a /\ (s.range.inclA => t.range.inclA)
                  /\ IF s.decimals = {} \/ r.b =< s.range.b
                     THEN t.range.b = r.b /\ (r.inclB => t.range.inclB)
                     ELSE t.range.b = s.range.b /\ (s.range.inclB => t.range.inclB)

LEMMA NarrowIs ==
  ASSUME NEW fs, FactList(fs), NEW i \in 1..Len(fs), NEW s \in Narrowings, NEW truncate \in BOOLEAN,
         fs[i].kind # "nil"
  PROVE  NarrowStep(s, fs[i], C!Narrow(s, fs[i], truncate), truncate)
<1> DEFINE r == C!RangeValue(fs[i], truncate)
           t == C!Narrow(s, fs[i], truncate)
           lower == s.decimals = {} \/ r.a >= s.range.a
           upper == s.decimals = {} \/ r.b =< s.range.b
           q == C!Interval(IF lower THEN r.a ELSE s.range.a, IF upper THEN r.b ELSE s.range.b,
                           s.range.inclA \/ (lower /\ r.inclA), s.range.inclB \/ (upper /\ r.inclB))
           narrowed == [s EXCEPT !.decimals = @ \cup {fs[i].decimals}, !.range = q]
           Decimals == DOMAIN Unit \cup {Infinite}
<1>1. /\ fs[i].kind \in {"value", "nan", "nil"} /\ fs[i].decimals \in Decimals
      /\ i \in DOMAIN fs
  BY CalculationFactsAre
<1>2. r \in Ranges
  BY <1>1, RangesAre DEF Proper
<1>3. /\ s \in [decimals : SUBSET Decimals, range : Ranges, excess : BOOLEAN, ended : BOOLEAN]
      /\ s.range \in Ranges /\ s.ended \in BOOLEAN
  BY DEF Narrowings
<1>4. /\ s.ended \/ fs[i].kind = "nan" => t = [s EXCEPT !.ended = TRUE]
      /\ ~s.ended /\ fs[i].kind = "value" /\ C!ExcessDigits(fs[i]) => t = [s EXCEPT !.excess = TRUE]
      /\ ~s.ended /\ fs[i].kind = "value" /\ ~C!ExcessDigits(fs[i]) =>
           t = IF fs[i].decimals \in s.decimals THEN s ELSE narrowed
  BY <1>1, <1>3 DEF C!Narrow
<1> HIDE DEF r, t, lower, upper, Decimals
<1>5. /\ q \in Ranges
      /\ q.a = (IF lower THEN r.a ELSE s.range.a) /\ q.b = (IF upper THEN r.b ELSE s.range.b)
      /\ q.inclA = (s.range.inclA \/ (lower /\ r.inclA)) /\ q.inclB = (s.range.inclB \/ (upper /\ r.inclB))
  <2>1. lower \in BOOLEAN /\ upper \in BOOLEAN
    BY DEF lower, upper
  <2> QED
    BY <1>2, <1>3, <2>1 DEF Ranges, C!Interval
<1> HIDE DEF q
<1>6. /\ narrowed \in [decimals : SUBSET Decimals, range : Ranges, excess : BOOLEAN, ended : BOOLEAN]
      /\ narrowed.ended = s.ended /\ narrowed.excess = s.excess
      /\ narrowed.decimals = s.decimals \cup {fs[i].decimals} /\ narrowed.range = q
  BY <1>1, <1>3, <1>5
<1> HIDE DEF narrowed
<1>7. t \in [decimals : SUBSET Decimals, range : Ranges, excess : BOOLEAN, ended : BOOLEAN]
  BY <1>1, <1>3, <1>4, <1>6
<1>8. /\ lower => (r.inclA => q.inclA)
      /\ ~lower => (s.range.inclA => q.inclA)
      /\ upper => (r.inclB => q.inclB)
      /\ ~upper => (s.range.inclB => q.inclB)
  <2>1. s.range.inclA \in BOOLEAN /\ s.range.inclB \in BOOLEAN
    BY <1>3 DEF Ranges
  <2> QED
    BY <1>5, <2>1
<1>9. t \in Narrowings
  BY <1>7 DEF Narrowings, Decimals
<1>10. ~s.ended /\ fs[i].kind = "value" /\ ~C!ExcessDigits(fs[i]) =>
         IF fs[i].decimals \in s.decimals THEN t = s
         ELSE /\ t.ended = s.ended /\ t.excess = s.excess
              /\ t.decimals = s.decimals \cup {fs[i].decimals}
              /\ IF lower
                 THEN t.range.a = r.a /\ (r.inclA => t.range.inclA)
                 ELSE t.range.a = s.range.a /\ (s.range.inclA => t.range.inclA)
              /\ IF upper
                 THEN t.range.b = r.b /\ (r.inclB => t.range.inclB)
                 ELSE t.range.b = s.range.b /\ (s.range.inclB => t.range.inclB)
  BY <1>4, <1>5, <1>6, <1>8
<1> QED
  BY <1>4, <1>9, <1>10 DEF r, t, lower, upper, NarrowStep

\* Facts with the same decimals have the same value.
SameValues(fs) ==
    \A i, j \in DOMAIN fs : fs[i].decimals = fs[j].decimals => fs[i].value = fs[j].value

LEMMA NarrowNext ==
  ASSUME NEW fs, FactList(fs), NEW n \in 0..(Len(fs) - 1), NEW s \in Narrowings, NEW truncate \in BOOLEAN,
         \A i \in DOMAIN fs : fs[i].kind = "value", SameValues(fs),
         NarrowRight(fs, n, s, truncate)
  PROVE  NarrowRight(fs, n + 1, C!Narrow(s, fs[n + 1], truncate), truncate)
<1> DEFINE m == n + 1
           t == C!Narrow(s, fs[m], truncate)
           Of(i) == C!RangeValue(fs[i], truncate)
           r == Of(m)
           Excess(i) == C!ExcessDigits(fs[i])
<1>1. /\ Len(fs) \in Nat /\ DOMAIN fs = 1..Len(fs) /\ n \in Nat /\ m \in 1..Len(fs) /\ m \in 1..m
      /\ 1..m = 1..n \cup {m} /\ m > 0 /\ \A i \in 1..m : i \in DOMAIN fs
  BY CalculationFactsAre
<1>2. /\ ~s.ended
      /\ s.excess <=> \E i \in 1..n : Excess(i)
      /\ ~s.excess => s.decimals = {fs[i].decimals : i \in 1..n}
      /\ ~s.excess /\ n > 0 => Within(fs, n, s.range, truncate)
  BY DEF NarrowRight
<1>3. /\ s.range \in Ranges
      /\ \A i \in 1..m : Of(i) \in Ranges
  <2>1. \A i \in 1..m : Proper(Of(i), truncate)
    BY <1>1, RangesAre
  <2> HIDE DEF Of
  <2> QED
    BY <2>1 DEF Proper, Narrowings
<1>4. /\ fs[m].kind = "value" /\ fs[m].kind # "nil"
      /\ C!Narrow(s, fs[m], truncate) = t
  BY <1>1
<1>5. /\ Excess(m) => t = [s EXCEPT !.excess = TRUE]
      /\ ~Excess(m) =>
           IF fs[m].decimals \in s.decimals THEN t = s
           ELSE /\ t.ended = s.ended /\ t.excess = s.excess
                /\ t.decimals = s.decimals \cup {fs[m].decimals}
                /\ IF s.decimals = {} \/ r.a >= s.range.a
                   THEN t.range.a = r.a /\ (r.inclA => t.range.inclA)
                   ELSE t.range.a = s.range.a /\ (s.range.inclA => t.range.inclA)
                /\ IF s.decimals = {} \/ r.b =< s.range.b
                   THEN t.range.b = r.b /\ (r.inclB => t.range.inclB)
                   ELSE t.range.b = s.range.b /\ (s.range.inclB => t.range.inclB)
      /\ t \in Narrowings
  <2>1. NarrowStep(s, fs[m], t, truncate)
    BY <1>1, <1>4, NarrowIs
  <2> HIDE DEF t
  <2> QED
    BY <1>2, <1>4, <2>1 DEF NarrowStep
<1>6. /\ \A i, j \in 1..m : fs[i].decimals = fs[j].decimals => Of(i) = Of(j)
  BY <1>1 DEF SameValues, C!RangeValue
<1>7. /\ s.range.a \in Int /\ s.range.b \in Int
      /\ \A i \in 1..m : Of(i).a \in Int /\ Of(i).b \in Int
      /\ r \in Ranges /\ r.a \in Int /\ r.b \in Int
  <2> HIDE DEF Of
  <2> QED
    BY <1>1, <1>3 DEF Ranges
<1> DEFINE Narrows(k, q) == /\ \A i \in 1..k : Of(i).a =< q.a /\ q.b =< Of(i).b
                            /\ \E i \in 1..k : Of(i).a = q.a /\ (Of(i).inclA => q.inclA)
                            /\ \E i \in 1..k : Of(i).b = q.b /\ (Of(i).inclB => q.inclB)
<1>8. \A k, q : Within(fs, k, q, truncate) <=> Narrows(k, q)
  BY DEF Within
<1> DEFINE Goal == /\ ~t.ended
                   /\ t.excess <=> \E i \in 1..m : Excess(i)
                   /\ ~t.excess => t.decimals = {fs[i].decimals : i \in 1..m}
                   /\ ~t.excess => Narrows(m, t.range)
<1>9. Goal => NarrowRight(fs, n + 1, C!Narrow(s, fs[n + 1], truncate), truncate)
  <2> HIDE DEF Narrows, Of
  <2> QED
    BY <1>8 DEF NarrowRight
<1> HIDE DEF Excess, t, m
<1>10. CASE Excess(m)
  <2>1. t.excess = TRUE /\ t.ended = s.ended
    BY <1>5, <1>10 DEF Narrowings
  <2> HIDE DEF Narrows
  <2> QED
    BY <1>1, <1>2, <1>9, <1>10, <2>1
<1>11. CASE ~Excess(m) /\ s.excess
  <2>1. t.excess = s.excess /\ t.ended = s.ended
    <3> HIDE DEF Of
    <3> QED
      BY <1>5, <1>11
  <2> HIDE DEF Narrows
  <2> QED
    BY <1>1, <1>2, <1>9, <1>11, <2>1
<1>12. CASE ~Excess(m) /\ ~s.excess /\ fs[m].decimals \in s.decimals
  <2>1. t = s
    <3> HIDE DEF Of
    <3> QED
      BY <1>5, <1>12
  <2>2. PICK j \in 1..n : fs[j].decimals = fs[m].decimals
    BY <1>2, <1>12
  <2>3. Of(j) = r /\ n > 0
    <3> HIDE DEF Of
    <3> QED
      BY <1>1, <1>6, <2>2
  <2>4. s.decimals = {fs[i].decimals : i \in 1..m}
    BY <1>1, <1>2, <1>12, <2>2
  <2>5. Narrows(n, s.range)
    <3> HIDE DEF Narrows
    <3> QED
      BY <1>2, <1>8, <1>12, <2>3
  <2> HIDE DEF Of
  <2>6. Narrows(m, s.range)
    BY <1>1, <2>2, <2>3, <2>5
  <2> HIDE DEF Narrows
  <2> QED
    BY <1>1, <1>2, <1>9, <1>12, <2>1, <2>4, <2>6
<1>13. CASE ~Excess(m) /\ ~s.excess /\ fs[m].decimals \notin s.decimals
  <2> HIDE DEF Of
  <2>1. /\ t.ended = s.ended /\ t.excess = s.excess
        /\ t.decimals = s.decimals \cup {fs[m].decimals}
        /\ IF s.decimals = {} \/ r.a >= s.range.a
           THEN t.range.a = r.a /\ (r.inclA => t.range.inclA)
           ELSE t.range.a = s.range.a /\ (s.range.inclA => t.range.inclA)
        /\ IF s.decimals = {} \/ r.b =< s.range.b
           THEN t.range.b = r.b /\ (r.inclB => t.range.inclB)
           ELSE t.range.b = s.range.b /\ (s.range.inclB => t.range.inclB)
    BY <1>5, <1>13
  <2>2. t.decimals = {fs[i].decimals : i \in 1..m}
    BY <1>1, <1>2, <1>13, <2>1
  <2>3. Narrows(m, t.range)
    <3>1. CASE n = 0
      <4>1. 1..m = {m} /\ s.decimals = {}
        BY <1>2, <1>13, <3>1 DEF m
      <4>2. t.range.a = r.a /\ t.range.b = r.b /\ (r.inclA => t.range.inclA) /\ (r.inclB => t.range.inclB)
        BY <2>1, <4>1
      <4> QED
        BY <1>7, <4>1, <4>2
    <3>2. CASE n > 0
      <4>1. s.decimals # {}
        <5>1. 1 \in 1..n
          BY <1>1, <3>2
        <5> QED
          BY <1>2, <1>13, <5>1
      <4>2. Narrows(n, s.range)
        <5> HIDE DEF Narrows
        <5> QED
          BY <1>2, <1>8, <1>13, <3>2
      <4>3. \/ t.range.a = r.a /\ s.range.a =< r.a /\ (r.inclA => t.range.inclA)
            \/ t.range.a = s.range.a /\ r.a =< s.range.a /\ (s.range.inclA => t.range.inclA)
        BY <1>7, <2>1, <4>1
      <4>4. \/ t.range.b = r.b /\ r.b =< s.range.b /\ (r.inclB => t.range.inclB)
            \/ t.range.b = s.range.b /\ s.range.b =< r.b /\ (s.range.inclB => t.range.inclB)
        BY <1>7, <2>1, <4>1
      <4>5. \A i \in 1..m : Of(i).a =< t.range.a /\ t.range.b =< Of(i).b
        <5>1. r.a =< t.range.a /\ t.range.b =< r.b
          BY <1>7, <4>3, <4>4
        <5>2. \A i \in 1..n : Of(i).a =< t.range.a /\ t.range.b =< Of(i).b
          BY <1>1, <1>7, <4>2, <4>3, <4>4
        <5> QED
          BY <1>1, <5>1, <5>2
      <4>6. \E i \in 1..m : Of(i).a = t.range.a /\ (Of(i).inclA => t.range.inclA)
        BY <1>1, <4>2, <4>3
      <4>7. \E i \in 1..m : Of(i).b = t.range.b /\ (Of(i).inclB => t.range.inclB)
        BY <1>1, <4>2, <4>4
      <4> QED
        BY <4>5, <4>6, <4>7
    <3> QED
      BY <1>1, <3>1, <3>2
  <2>4. ~t.excess /\ ~t.ended /\ ~\E i \in 1..m : Excess(i)
    BY <1>1, <1>2, <1>13, <2>1
  <2> HIDE DEF Narrows
  <2> QED
    BY <1>9, <2>2, <2>3, <2>4
<1> QED
  BY <1>10, <1>11, <1>12, <1>13

\* The loop of the facts of a concept (consistentFactValueInterval): when the first one is
\* NaN there is no interval, when all have values there is the common one.
LEMMA NarrowedIs ==
  ASSUME NEW fs, FactList(fs), fs # <<>>, NEW truncate \in BOOLEAN,
         \A i \in DOMAIN fs : fs[i].kind # "nil"
  PROVE  /\ C!Narrowed(fs, truncate) \in Narrowings
         /\ fs[1].kind = "nan" => /\ ~C!Narrowed(fs, truncate).excess
                                  /\ C!Narrowed(fs, truncate).range = C!NotNarrowed.range
         /\ (\A i \in DOMAIN fs : fs[i].kind = "value") /\ SameValues(fs) =>
              NarrowRight(fs, Len(fs), C!Narrowed(fs, truncate), truncate)
<1> DEFINE n == Len(fs)
           S == Narrowings
           init == C!NotNarrowed
           step == [p \in (1..n) \X S |-> C!Narrow(p[2], fs[p[1]], truncate)]
           b == CHOOSE f : f = [k \in 0..n |-> IF k = 0 THEN init ELSE C!Narrow(f[k - 1], fs[k], truncate)]
<1>1. n \in Nat /\ n > 0 /\ DOMAIN fs = 1..n
  <2>1. n \in Nat /\ DOMAIN fs = 1..n
    BY CalculationFactsAre
  <2>2. n # 0
    BY EmptySeq DEF FactList
  <2> HIDE DEF n
  <2> QED
    BY <2>1, <2>2
<1>2. init \in S /\ init.decimals = {} /\ ~init.excess /\ ~init.ended
  <2> DEFINE zero == C!Interval(0, 0, FALSE, FALSE)
  <2>1. zero \in Ranges
    BY DEF C!Interval, Ranges
  <2>2. init = [decimals |-> {}, range |-> zero, excess |-> FALSE, ended |-> FALSE]
    BY DEF C!NotNarrowed
  <2> HIDE DEF zero, init
  <2> QED
    BY <2>1, <2>2 DEF Narrowings
<1>3. \A k \in 1..n, s \in S : NarrowStep(s, fs[k], C!Narrow(s, fs[k], truncate), truncate)
                                /\ C!Narrow(s, fs[k], truncate) \in S
  <2> SUFFICES ASSUME NEW k \in 1..n, NEW s \in S
               PROVE  NarrowStep(s, fs[k], C!Narrow(s, fs[k], truncate), truncate)
                      /\ C!Narrow(s, fs[k], truncate) \in S
    OBVIOUS
  <2>1. NarrowStep(s, fs[k], C!Narrow(s, fs[k], truncate), truncate)
    BY <1>1, NarrowIs
  <2> QED
    BY <2>1 DEF NarrowStep
<1>4. step \in Steps(n, S) /\ \A k \in 1..n, s \in S : step[<<k, s>>] = C!Narrow(s, fs[k], truncate)
  <2> HIDE DEF S
  <2> QED
    BY <1>3 DEF Steps
<1>5. PICK g : IsLoop(n, S, init, step, g)
  <2> HIDE DEF n, S, init, step
  <2> QED
    BY <1>1, <1>2, <1>4, LoopExists
<1>6. g \in [0..n -> S] /\ g = [k \in 0..n |-> IF k = 0 THEN init ELSE step[<<k, g[k - 1]>>]]
  BY <1>5 DEF IsLoop
<1> HIDE DEF step, S, init, n
<1>7. g = [k \in 0..n |-> IF k = 0 THEN init ELSE C!Narrow(g[k - 1], fs[k], truncate)]
  <2>1. \A k \in 1..n : g[k - 1] \in S
    BY <1>1, <1>6
  <2>2. \A k \in 0..n : g[k] = IF k = 0 THEN init ELSE C!Narrow(g[k - 1], fs[k], truncate)
    <3> SUFFICES ASSUME NEW k \in 0..n
                 PROVE  g[k] = IF k = 0 THEN init ELSE C!Narrow(g[k - 1], fs[k], truncate)
      OBVIOUS
    <3>1. CASE k = 0
      BY <1>6, <3>1
    <3>2. CASE k # 0
      <4>1. k \in 1..n
        BY <1>1, <3>2
      <4>2. g[k] = step[<<k, g[k - 1]>>]
        BY <1>6, <3>2
      <4> QED
        BY <1>4, <2>1, <3>2, <4>1, <4>2
    <3> QED
      BY <3>1, <3>2
  <2>3. g = [k \in 0..n |-> g[k]]
    BY <1>6
  <2> QED
    BY <2>2, <2>3
<1>8. b = [k \in 0..n |-> IF k = 0 THEN init ELSE C!Narrow(b[k - 1], fs[k], truncate)]
  BY <1>7
<1>9. b[0] = init /\ \A k \in 1..n : b[k] = C!Narrow(b[k - 1], fs[k], truncate)
  <2> HIDE DEF b
  <2> QED
    BY <1>1, <1>8
<1> HIDE DEF b
<1>10. \A k \in 0..n : b[k] \in S
  <2> DEFINE Typed == {k \in 0..n : b[k] \in S}
  <2>1. 0 \in Typed
    BY <1>1, <1>2, <1>9
  <2>2. ASSUME NEW k \in 0..(n - 1), k \in Typed PROVE k + 1 \in Typed
    <3>1. k + 1 \in 1..n /\ (k + 1) - 1 = k
      BY <1>1
    <3> QED
      BY <1>3, <1>9, <2>2, <3>1
  <2> HIDE DEF Typed
  <2>3. \A k \in 0..n : k \in Typed
    BY <1>1, <2>1, <2>2, UpTo
  <2> QED
    BY <2>3 DEF Typed
<1>11. C!Narrowed(fs, truncate) = b[n]
  BY DEF C!Narrowed, b, n, init
<1>12. ASSUME fs[1].kind = "nan" PROVE ~b[n].excess /\ b[n].range = init.range
  <2> DEFINE Ended == {k \in 0..n : k > 0 => b[k].ended /\ ~b[k].excess /\ b[k].range = init.range}
  <2>1. 0 \in Ended
    BY <1>1
  <2>2. ASSUME NEW k \in 0..(n - 1), k \in Ended PROVE k + 1 \in Ended
    <3>1. k + 1 \in 1..n /\ (k + 1) - 1 = k /\ k \in 0..n
      BY <1>1
    <3>2. b[k + 1] = C!Narrow(b[k], fs[k + 1], truncate) /\ b[k] \in S
      BY <1>9, <1>10, <3>1
    <3>3. ~b[k].excess /\ b[k].range = init.range /\ (b[k].ended \/ fs[k + 1].kind = "nan")
      <4>1. CASE k = 0
        BY <1>2, <1>9, <1>12, <4>1
      <4>2. CASE k # 0
        BY <2>2, <4>2
      <4> QED
        BY <4>1, <4>2
    <3>4. b[k + 1] = [b[k] EXCEPT !.ended = TRUE]
      <4>1. NarrowStep(b[k], fs[k + 1], b[k + 1], truncate)
        BY <1>3, <3>1, <3>2
      <4> QED
        BY <3>3, <4>1 DEF NarrowStep
    <3>5. b[k + 1].ended /\ ~b[k + 1].excess /\ b[k + 1].range = init.range
      BY <3>2, <3>3, <3>4 DEF S, Narrowings
    <3> QED
      BY <1>1, <3>1, <3>5
  <2> HIDE DEF Ended
  <2>3. \A k \in 0..n : k \in Ended
    BY <1>1, <2>1, <2>2, UpTo
  <2> QED
    BY <1>1, <2>3 DEF Ended
<1>13. ASSUME \A i \in DOMAIN fs : fs[i].kind = "value", SameValues(fs)
       PROVE  NarrowRight(fs, n, b[n], truncate)
  <2> DEFINE Right == {k \in 0..n : NarrowRight(fs, k, b[k], truncate)}
  <2>1. 0 \in Right
    <3>1. init.decimals = {} /\ ~init.excess /\ ~init.ended
      BY <1>2
    <3>2. 1..0 = {} /\ ~(0 > 0)
      OBVIOUS
    <3>3. NarrowRight(fs, 0, init, truncate)
      BY <3>1, <3>2 DEF NarrowRight
    <3> QED
      BY <1>1, <1>9, <3>3
  <2>2. ASSUME NEW k \in 0..(n - 1), k \in Right PROVE k + 1 \in Right
    <3>1. k + 1 \in 1..n /\ (k + 1) - 1 = k /\ k \in 0..n
      BY <1>1
    <3>2. b[k + 1] = C!Narrow(b[k], fs[k + 1], truncate) /\ b[k] \in S
      BY <1>9, <1>10, <3>1
    <3>3. NarrowRight(fs, k + 1, b[k + 1], truncate)
      BY <1>13, <2>2, <3>2, NarrowNext DEF S, n
    <3> QED
      BY <1>1, <3>1, <3>3
  <2> HIDE DEF Right
  <2>3. \A k \in 0..n : k \in Right
    BY <1>1, <2>1, <2>2, UpTo
  <2> QED
    BY <1>1, <2>3 DEF Right
<1> QED
  BY <1>1, <1>10, <1>11, <1>12, <1>13 DEF S, n, init

\* The common values of some intervals.
LEMMA CommonIs ==
  ASSUME NEW rs \in SUBSET Ranges, NEW r \in rs, NEW s \in rs,
         \A q \in rs : q.a =< r.a /\ s.b =< q.b
  PROVE  LET c == C!Common(rs)
         IN  /\ c \in Ranges /\ c.a = r.a /\ c.b = s.b
             /\ c.inclA <=> \A q \in rs : q.a = r.a => q.inclA
             /\ c.inclB <=> \A q \in rs : q.b = s.b => q.inclB
<1> DEFINE a == CHOOSE x \in {q.a : q \in rs} : \A q \in rs : q.a <= x
           b == CHOOSE x \in {q.b : q \in rs} : \A q \in rs : x <= q.b
           p == \A q \in rs : q.a = a => q.inclA
           o == \A q \in rs : q.b = b => q.inclB
           c == C!Common(rs)
<1>1. \A q \in rs : q.a \in Int /\ q.b \in Int
  BY DEF Ranges
<1>2. a = r.a
  <2>1. \E x \in {q.a : q \in rs} : \A q \in rs : q.a <= x
    OBVIOUS
  <2>2. a \in {q.a : q \in rs} /\ \A q \in rs : q.a <= a
    BY <2>1
  <2> HIDE DEF a
  <2>3. PICK q \in rs : a = q.a
    BY <2>2
  <2> QED
    BY <1>1, <2>2, <2>3
<1>3. b = s.b
  <2>1. \E x \in {q.b : q \in rs} : \A q \in rs : x <= q.b
    OBVIOUS
  <2>2. b \in {q.b : q \in rs} /\ \A q \in rs : b <= q.b
    BY <2>1
  <2> HIDE DEF b
  <2>3. PICK q \in rs : b = q.b
    BY <2>2
  <2> QED
    BY <1>1, <2>2, <2>3
<1>4. c = [a |-> a, b |-> b, inclA |-> p, inclB |-> o]
  BY DEF C!Common, C!Interval
<1>5. p \in BOOLEAN /\ o \in BOOLEAN
  OBVIOUS
<1> HIDE DEF c, a, b
<1>6. /\ p <=> \A q \in rs : q.a = r.a => q.inclA
      /\ o <=> \A q \in rs : q.b = s.b => q.inclB
  BY <1>2, <1>3
<1> HIDE DEF p, o
<1>7. c.a = a /\ c.b = b /\ c.inclA = p /\ c.inclB = o /\ c \in Ranges
  BY <1>1, <1>2, <1>3, <1>4, <1>5 DEF Ranges
<1> QED
  BY <1>2, <1>3, <1>6, <1>7 DEF c

\* What the code finds of some facts has the bounds of what they mean, and a bound that
\* belongs to the one belongs to the other.
Bounded(s, r) ==
    /\ s \in Ranges /\ s.a = r.a /\ s.b = r.b
    /\ r.inclA => s.inclA
    /\ r.inclB => s.inclB
FoundRight(found, meaning, truncate) ==
    /\ meaning.is \in {"nothing", "inconsistent", "interval"}
    /\ found.is = meaning.is
    /\ meaning.is = "interval" => Bounded(found.range, meaning.range) /\ Proper(meaning.range, truncate)

LEMMA ValuesFound ==
  ASSUME NEW fs, FactList(fs), fs # <<>>, NEW truncate \in BOOLEAN, C!Plain(fs, truncate),
         \A i \in DOMAIN fs : fs[i].kind = "value" /\ ~C!ExcessDigits(fs[i])
  PROVE  LET s == C!Narrowed(fs, truncate)
             c == C!Common({C!RangeValue(f, truncate) : f \in C!Range(fs)})
         IN  /\ ~s.excess /\ SameValues(fs) /\ Bounded(s.range, c) /\ c \in Ranges
             /\ c.a =< c.b => Proper(c, truncate)
<1> DEFINE n == Len(fs)
           Of(i) == C!RangeValue(fs[i], truncate)
           rs == {C!RangeValue(f, truncate) : f \in C!Range(fs)}
           s == C!Narrowed(fs, truncate)
           c == C!Common(rs)
<1>1. n \in Nat /\ DOMAIN fs = 1..n /\ n > 0
  <2>1. n \in Nat /\ DOMAIN fs = 1..n
    BY CalculationFactsAre
  <2>2. n # 0
    BY EmptySeq DEF FactList
  <2> HIDE DEF n
  <2> QED
    BY <2>1, <2>2
<1>2. SameValues(fs)
  BY DEF C!Plain, SameValues, C!Range
<1>3. s \in Narrowings /\ NarrowRight(fs, n, s, truncate)
  BY <1>2, NarrowedIs
<1>4. \A i \in 1..n : Proper(Of(i), truncate)
  BY <1>1, RangesAre
<1>5. rs = {Of(i) : i \in 1..n}
  BY <1>1 DEF C!Range
<1>6. \A i, j \in 1..n : fs[i] # fs[j] => ~C!Touch(Of(i), Of(j))
  BY <1>1 DEF C!Plain, C!Range
<1>7. ~s.excess /\ Within(fs, n, s.range, truncate)
  BY <1>1, <1>3 DEF NarrowRight
<1>8. /\ \A i \in 1..n : Of(i).a =< s.range.a /\ s.range.b =< Of(i).b
      /\ \E i \in 1..n : Of(i).a = s.range.a /\ (Of(i).inclA => s.range.inclA)
      /\ \E i \in 1..n : Of(i).b = s.range.b /\ (Of(i).inclB => s.range.inclB)
  BY <1>7 DEF Within
<1>9. \A i, j \in 1..n : fs[i] = fs[j] => Of(i) = Of(j)
  OBVIOUS
<1>10. s.range \in Ranges
  BY <1>3 DEF Narrowings
<1> HIDE DEF n, Of, rs, s, c
<1>11. PICK k \in 1..n : Of(k).a = s.range.a /\ (Of(k).inclA => s.range.inclA)
  BY <1>8
<1>12. PICK l \in 1..n : Of(l).b = s.range.b /\ (Of(l).inclB => s.range.inclB)
  BY <1>8
<1>13. rs \in SUBSET Ranges /\ Of(k) \in rs /\ Of(l) \in rs
       /\ \A q \in rs : q.a =< Of(k).a /\ Of(l).b =< q.b
  <2>1. \A i \in 1..n : Of(i) \in Ranges /\ Of(i).a =< Of(k).a /\ Of(l).b =< Of(i).b
    BY <1>4, <1>8, <1>11, <1>12 DEF Proper
  <2> QED
    BY <1>5, <2>1
<1>14. /\ c \in Ranges /\ c.a = Of(k).a /\ c.b = Of(l).b
       /\ c.inclA <=> \A q \in rs : q.a = Of(k).a => q.inclA
       /\ c.inclB <=> \A q \in rs : q.b = Of(l).b => q.inclB
  <2> DEFINE x == Of(k)
             y == Of(l)
  <2>1. x \in rs /\ y \in rs /\ rs \in SUBSET Ranges /\ \A q \in rs : q.a =< x.a /\ y.b =< q.b
    BY <1>13
  <2> HIDE DEF x, y
  <2>2. /\ c \in Ranges /\ c.a = x.a /\ c.b = y.b
        /\ c.inclA <=> \A q \in rs : q.a = x.a => q.inclA
        /\ c.inclB <=> \A q \in rs : q.b = y.b => q.inclB
    BY <2>1, CommonIs DEF c
  <2> QED
    BY <2>2 DEF x, y
<1>15. /\ c.inclA <=> \A i \in 1..n : Of(i).a = c.a => Of(i).inclA
       /\ c.inclB <=> \A i \in 1..n : Of(i).b = c.b => Of(i).inclB
  BY <1>5, <1>14
<1>16. Bounded(s.range, c)
  BY <1>10, <1>11, <1>12, <1>14, <1>15 DEF Bounded
<1>17. ASSUME c.a =< c.b PROVE Proper(c, truncate)
  <2>1. ASSUME c.a = c.b PROVE c.inclA /\ c.inclB
    <3>1. ASSUME NEW i \in 1..n, NEW j \in 1..n, Of(i).a = c.a, Of(j).b = c.b
          PROVE  Of(i).inclA /\ Of(j).inclB
      <4>1. CASE fs[i] # fs[j]
        BY <1>6, <2>1, <3>1, <4>1 DEF C!Touch
      <4>2. CASE fs[i] = fs[j]
        BY <1>4, <1>9, <2>1, <3>1, <4>2 DEF Proper
      <4> QED
        BY <4>1, <4>2
    <3> QED
      BY <1>14, <1>15, <3>1
  <2>2. ~truncate => c.inclA /\ c.inclB
    BY <1>4, <1>15 DEF Proper
  <2> QED
    BY <1>14, <1>17, <2>1, <2>2 DEF Proper
<1> QED
  BY <1>2, <1>7, <1>14, <1>16, <1>17 DEF s, c, rs

\* What the code finds of facts that are plain is what they mean.
LEMMA FoundIsMeaning ==
  ASSUME NEW fs, FactList(fs), NEW truncate \in BOOLEAN, C!Plain(fs, truncate)
  PROVE  /\ FoundRight(C!ConsistentFactValueInterval(fs, truncate), C!Meaning11(fs, truncate), truncate)
         /\ C!Meaning11(fs, truncate).is = "nothing" <=> C!Reported(fs) = {}
<1> DEFINE n == Len(fs)
           s == C!Narrowed(fs, truncate)
           c == C!Common({C!RangeValue(f, truncate) : f \in C!Range(fs)})
           found == C!ConsistentFactValueInterval(fs, truncate)
           meaning == C!Meaning11(fs, truncate)
           AllNil == \A f \in C!Range(fs) : f.kind = "nil"
           Mixed == \E f, g \in C!Range(fs) : f.kind = "nil" /\ g.kind # "nil"
           NoNil == fs # <<>> /\ \A f \in C!Range(fs) : f.kind # "nil"
           Odd == \/ \E f \in C!Range(fs) : f.kind # "value" \/ C!ExcessDigits(f)
                  \/ \E f, g \in C!Range(fs) : f.decimals = g.decimals /\ f.value # g.value
                  \/ C!IsEmpty(c)
<1>1. /\ n \in Nat /\ DOMAIN fs = 1..n /\ \A i \in 1..n : fs[i].kind \in {"value", "nan", "nil"}
      /\ C!Range(fs) = {fs[i] : i \in 1..n}
      /\ fs # <<>> <=> n > 0
  <2>1. n \in Nat /\ DOMAIN fs = 1..n /\ \A i \in 1..n : fs[i].kind \in {"value", "nan", "nil"}
    BY CalculationFactsAre
  <2>2. fs # <<>> <=> n # 0
    BY EmptySeq DEF FactList
  <2>3. C!Range(fs) = {fs[i] : i \in 1..n}
    BY <2>1 DEF C!Range
  <2> HIDE DEF n
  <2> QED
    BY <2>1, <2>2, <2>3
<1>2. C!Reported(fs) = {f \in C!Range(fs) : f.kind # "nil"}
  BY DEF C!Reported
<1>3. /\ AllNil /\ ~Mixed /\ ~NoNil => found = C!Nothing
      /\ ~AllNil /\ Mixed /\ ~NoNil => found = C!Inconsistent
      /\ ~AllNil /\ ~Mixed /\ NoNil =>
           found = IF s.excess \/ C!IsEmpty(s.range) THEN C!Inconsistent ELSE C!Range11(s.range)
  BY DEF C!ConsistentFactValueInterval
<1>4. /\ C!Reported(fs) = {} => meaning = C!Nothing
      /\ C!Reported(fs) # {} => meaning = IF Odd THEN C!Inconsistent ELSE C!Range11(c)
  BY DEF C!Meaning11
<1> HIDE DEF found, meaning, s, c
<1>5. ASSUME found = C!Nothing, meaning = C!Nothing, C!Reported(fs) = {}
      PROVE  FoundRight(found, meaning, truncate) /\ (meaning.is = "nothing" <=> C!Reported(fs) = {})
  BY <1>5 DEF FoundRight, C!Nothing
<1>6. ASSUME found = C!Inconsistent, meaning = C!Inconsistent, C!Reported(fs) # {}
      PROVE  FoundRight(found, meaning, truncate) /\ (meaning.is = "nothing" <=> C!Reported(fs) = {})
  BY <1>6 DEF FoundRight, C!Inconsistent
<1>7. CASE AllNil
  <2>1. ~Mixed /\ ~NoNil /\ C!Reported(fs) = {}
    <3>1. NoNil => 1 \in 1..n
      BY <1>1
    <3> QED
      BY <1>1, <1>2, <1>7, <3>1
  <2> HIDE DEF AllNil, Mixed, NoNil, Odd
  <2> QED
    BY <1>3, <1>4, <1>5, <1>7, <2>1 DEF found, meaning
<1>8. CASE Mixed
  <2>1. ~AllNil /\ ~NoNil /\ C!Reported(fs) # {} /\ Odd
    BY <1>1, <1>2, <1>8
  <2> HIDE DEF AllNil, Mixed, NoNil, Odd
  <2> QED
    BY <1>3, <1>4, <1>6, <1>8, <2>1 DEF found, meaning
<1>9. CASE ~AllNil /\ ~Mixed
  <2>1. NoNil /\ C!Reported(fs) # {} /\ \A i \in 1..n : fs[i].kind # "nil"
    BY <1>1, <1>2, <1>9
  <2>2. found = IF s.excess \/ C!IsEmpty(s.range) THEN C!Inconsistent ELSE C!Range11(s.range)
    <3> HIDE DEF AllNil, Mixed, NoNil
    <3> QED
      BY <1>3, <1>9, <2>1
  <2>3. meaning = IF Odd THEN C!Inconsistent ELSE C!Range11(c)
    <3> HIDE DEF Odd
    <3> QED
      BY <1>4, <2>1
  <2>4. CASE fs[1].kind = "nan"
    <3>1. ~s.excess /\ s.range = C!NotNarrowed.range
      BY <1>1, <2>1, <2>4, NarrowedIs DEF s
    <3>2. C!IsEmpty(s.range)
      BY <3>1 DEF C!IsEmpty, C!NotNarrowed, C!Interval
    <3>3. Odd
      BY <1>1, <2>1, <2>4
    <3> HIDE DEF Odd
    <3> QED
      BY <1>6, <2>1, <2>2, <2>3, <3>2, <3>3 DEF found, meaning
  <2>5. CASE fs[1].kind # "nan"
    <3>1. \A i \in 1..n : fs[i].kind = "value"
      <4>1. \A i \in 2..n : fs[i].kind # "nan"
        BY DEF C!Plain
      <4>2. \A i \in 1..n : i = 1 \/ i \in 2..n
        BY <1>1
      <4> QED
        BY <1>1, <2>1, <2>5, <4>1, <4>2
    <3>2. CASE \E i \in 1..n : C!ExcessDigits(fs[i])
      <4>1. SameValues(fs)
        BY <1>1, <3>1 DEF C!Plain, SameValues, C!Range
      <4>2. NarrowRight(fs, n, s, truncate)
        BY <1>1, <2>1, <3>1, <4>1, NarrowedIs DEF s
      <4>3. s.excess
        BY <3>2, <4>2 DEF NarrowRight
      <4>4. Odd
        BY <1>1, <3>2
      <4> HIDE DEF Odd
      <4> QED
        BY <1>6, <2>1, <2>2, <2>3, <4>3, <4>4 DEF found, meaning
    <3>3. CASE ~\E i \in 1..n : C!ExcessDigits(fs[i])
      <4>1. /\ ~s.excess /\ SameValues(fs) /\ Bounded(s.range, c) /\ c \in Ranges
            /\ c.a =< c.b => Proper(c, truncate)
        BY <1>1, <2>1, <3>1, <3>3, ValuesFound DEF s, c
      <4>2. Odd <=> C!IsEmpty(c)
        BY <1>1, <3>1, <3>3, <4>1 DEF SameValues
      <4>3. c.a \in Int /\ c.b \in Int /\ s.range.a = c.a /\ s.range.b = c.b
        BY <4>1 DEF Ranges, Bounded
      <4> HIDE DEF Odd
      <4>4. CASE c.a > c.b
        <5>1. C!IsEmpty(c) /\ C!IsEmpty(s.range)
          BY <4>3, <4>4 DEF C!IsEmpty
        <5> QED
          BY <1>6, <2>1, <2>2, <2>3, <4>2, <5>1 DEF found, meaning
      <4>5. CASE c.a =< c.b
        <5>1. Proper(c, truncate)
          BY <4>1, <4>5
        <5>2. ~C!IsEmpty(c) /\ ~C!IsEmpty(s.range)
          BY <4>1, <4>3, <4>5, <5>1 DEF C!IsEmpty, Proper, Bounded
        <5>3. found = C!Range11(s.range) /\ meaning = C!Range11(c)
          BY <2>2, <2>3, <4>1, <4>2, <5>2
        <5>4. found.is = "interval" /\ meaning.is = "interval" /\ found.range = s.range /\ meaning.range = c
          BY <5>3 DEF C!Range11
        <5>5. FoundRight(found, meaning, truncate)
          BY <4>1, <5>1, <5>4 DEF FoundRight
        <5> QED
          BY <2>1, <5>4, <5>5 DEF found, meaning
      <4> QED
        BY <4>3, <4>4, <4>5
    <3> QED
      BY <3>2, <3>3
  <2> QED
    BY <2>4, <2>5
<1> QED
  BY <1>7, <1>8, <1>9

-----------------------------------------------------------------------------
(* Calculations 1.1: sums and verdicts *)

LEMMA SumIs ==
  ASSUME NEW n \in Nat, NEW ranges, \A k \in DOMAIN ranges : ranges[k] \in Ranges
  PROVE  \E f \in [0..n -> Ranges] :
           /\ f[0] = C!Zero /\ C!SumOfRanges(n, ranges) = f[n]
           /\ \A k \in 1..n : f[k] = IF k \in DOMAIN ranges THEN C!Plus(f[k - 1], ranges[k]) ELSE f[k - 1]
<1> DEFINE S == Ranges
           init == C!Zero
           next(k, s) == IF k \in DOMAIN ranges THEN C!Plus(s, ranges[k]) ELSE s
           step == [p \in (1..n) \X S |-> next(p[1], p[2])]
           b == CHOOSE f : f = [k \in 0..n |-> IF k = 0 THEN init
                                               ELSE IF k \in DOMAIN ranges THEN C!Plus(f[k - 1], ranges[k])
                                               ELSE f[k - 1]]
<1>1. init \in S
  BY DEF C!Zero, C!Interval, Ranges
<1>2. \A k \in 1..n, s \in S : next(k, s) \in S
  <2> SUFFICES ASSUME NEW s \in Ranges, NEW r \in Ranges PROVE C!Plus(s, r) \in Ranges
    OBVIOUS
  <2> QED
    BY DEF C!Plus, C!Interval, Ranges
<1>3. step \in Steps(n, S) /\ \A k \in 1..n, s \in S : step[<<k, s>>] = next(k, s)
  <2> HIDE DEF S, next
  <2> QED
    BY <1>2 DEF Steps
<1>4. PICK g : IsLoop(n, S, init, step, g)
  <2> HIDE DEF S, init, step
  <2> QED
    BY <1>1, <1>3, LoopExists
<1>5. g \in [0..n -> S] /\ g = [k \in 0..n |-> IF k = 0 THEN init ELSE step[<<k, g[k - 1]>>]]
  BY <1>4 DEF IsLoop
<1> HIDE DEF step, S, init
<1>6. g = [k \in 0..n |-> IF k = 0 THEN init ELSE next(k, g[k - 1])]
  <2> HIDE DEF next
  <2>1. \A k \in 1..n : g[k - 1] \in S
    BY <1>5
  <2>2. \A k \in 0..n : g[k] = IF k = 0 THEN init ELSE next(k, g[k - 1])
    <3> SUFFICES ASSUME NEW k \in 0..n PROVE g[k] = IF k = 0 THEN init ELSE next(k, g[k - 1])
      OBVIOUS
    <3>1. CASE k = 0
      BY <1>5, <3>1
    <3>2. CASE k # 0
      <4>1. k \in 1..n
        BY <3>2
      <4>2. g[k] = step[<<k, g[k - 1]>>]
        BY <1>5, <3>2
      <4> QED
        BY <1>3, <2>1, <3>2, <4>1, <4>2
    <3> QED
      BY <3>1, <3>2
  <2>3. g = [k \in 0..n |-> g[k]]
    BY <1>5
  <2> QED
    BY <2>2, <2>3
<1>7. b = [k \in 0..n |-> IF k = 0 THEN init ELSE next(k, b[k - 1])]
  BY <1>6
<1>8. b[0] = init /\ \A k \in 1..n : b[k] = next(k, b[k - 1])
  <2> HIDE DEF b, next
  <2> QED
    BY <1>7
<1>9. b = [k \in 0..n |-> b[k]]
  <2> HIDE DEF b, next
  <2> QED
    BY <1>7
<1>10. C!SumOfRanges(n, ranges) = b[n]
  BY DEF C!SumOfRanges, b, init
<1> HIDE DEF b, next
<1>11. \A k \in 0..n : b[k] \in S
  <2> DEFINE Typed == {k \in 0..n : b[k] \in S}
  <2>1. 0 \in Typed
    BY <1>1, <1>8
  <2>2. ASSUME NEW k \in 0..(n - 1), k \in Typed PROVE k + 1 \in Typed
    <3>1. k + 1 \in 1..n /\ (k + 1) - 1 = k
      OBVIOUS
    <3> QED
      BY <1>2, <1>8, <2>2, <3>1
  <2> HIDE DEF Typed
  <2>3. \A k \in 0..n : k \in Typed
    BY <2>1, <2>2, UpTo
  <2> QED
    BY <2>3 DEF Typed
<1>12. b \in [0..n -> Ranges]
  BY <1>9, <1>11 DEF S
<1> QED
  BY <1>8, <1>10, <1>12 DEF next, init

\* A contribution or sum of the code counts as that by the definition does: it has its bounds,
\* and if all weights are positive, of these those that belong to it.
Counts(s, r, truncate, positive) ==
    /\ Proper(s, truncate) /\ Proper(r, truncate) /\ s.a = r.a /\ s.b = r.b
    /\ positive => (r.inclA => s.inclA) /\ (r.inclB => s.inclB)

LEMMA PlusCounts ==
  ASSUME NEW truncate \in BOOLEAN, NEW positive \in BOOLEAN,
         NEW s, NEW r, Counts(s, r, truncate, positive),
         NEW t, NEW q, Counts(t, q, truncate, positive)
  PROVE  Counts(C!Plus(s, t), C!Plus(r, q), truncate, positive)
<1> DEFINE x == C!Plus(s, t)
           y == C!Plus(r, q)
<1>1. /\ s \in Ranges /\ t \in Ranges /\ r \in Ranges /\ q \in Ranges
      /\ Proper(s, truncate) /\ Proper(t, truncate) /\ Proper(r, truncate) /\ Proper(q, truncate)
      /\ s.a = r.a /\ s.b = r.b /\ t.a = q.a /\ t.b = q.b
  BY DEF Counts, Proper
<1>2. \A u, v \in Ranges : LET z == C!Plus(u, v)
                           IN  /\ z \in Ranges /\ z.a = u.a + v.a /\ z.b = u.b + v.b
                               /\ z.inclA <=> u.inclA /\ v.inclA
                               /\ z.inclB <=> u.inclB /\ v.inclB
  <2> SUFFICES ASSUME NEW u \in Ranges, NEW v \in Ranges
               PROVE  LET z == C!Plus(u, v)
                      IN  /\ z \in Ranges /\ z.a = u.a + v.a /\ z.b = u.b + v.b
                          /\ z.inclA <=> u.inclA /\ v.inclA
                          /\ z.inclB <=> u.inclB /\ v.inclB
    OBVIOUS
  <2> DEFINE z == C!Plus(u, v)
             i == u.inclA /\ v.inclA
             j == u.inclB /\ v.inclB
  <2>1. z = [a |-> u.a + v.a, b |-> u.b + v.b, inclA |-> i, inclB |-> j]
    BY DEF C!Plus, C!Interval
  <2>2. u.a + v.a \in Int /\ u.b + v.b \in Int /\ i \in BOOLEAN /\ j \in BOOLEAN
    BY DEF Ranges
  <2> HIDE DEF i, j, z
  <2>3. z \in Ranges /\ z.a = u.a + v.a /\ z.b = u.b + v.b /\ z.inclA = i /\ z.inclB = j
    BY <2>1, <2>2 DEF Ranges
  <2> QED
    BY <2>3 DEF i, j, z
<1>3. \A u, v \in Ranges : Proper(u, truncate) /\ Proper(v, truncate) => Proper(C!Plus(u, v), truncate)
  <2> SUFFICES ASSUME NEW u \in Ranges, NEW v \in Ranges, Proper(u, truncate), Proper(v, truncate)
               PROVE  Proper(C!Plus(u, v), truncate)
    OBVIOUS
  <2> DEFINE z == C!Plus(u, v)
  <2>1. /\ z \in Ranges /\ z.a = u.a + v.a /\ z.b = u.b + v.b
        /\ z.inclA <=> u.inclA /\ v.inclA
        /\ z.inclB <=> u.inclB /\ v.inclB
    BY <1>2
  <2>2. u.a \in Int /\ u.b \in Int /\ v.a \in Int /\ v.b \in Int /\ u.a =< u.b /\ v.a =< v.b
    BY DEF Ranges, Proper
  <2> HIDE DEF z
  <2>3. z.a =< z.b /\ (z.a = z.b => u.a = u.b /\ v.a = v.b)
    BY <2>1, <2>2
  <2>4. Proper(z, truncate)
    BY <2>1, <2>3 DEF Proper
  <2> QED
    BY <2>4 DEF z
<1>4. /\ x.a = y.a /\ x.b = y.b
      /\ x.inclA <=> s.inclA /\ t.inclA
      /\ x.inclB <=> s.inclB /\ t.inclB
      /\ y.inclA <=> r.inclA /\ q.inclA
      /\ y.inclB <=> r.inclB /\ q.inclB
  BY <1>1, <1>2
<1>5. Proper(x, truncate) /\ Proper(y, truncate)
  BY <1>1, <1>3
<1> HIDE DEF x, y
<1>6. Counts(x, y, truncate, positive)
  BY <1>4, <1>5 DEF Counts
<1> QED
  BY <1>6 DEF x, y

LEMMA SumCounts ==
  ASSUME NEW n \in Nat, NEW p, NEW q, DOMAIN p = DOMAIN q, NEW truncate \in BOOLEAN, NEW positive \in BOOLEAN,
         \A k \in DOMAIN p : Counts(p[k], q[k], truncate, positive)
  PROVE  Counts(C!SumOfRanges(n, p), C!SumOfRanges(n, q), truncate, positive)
<1>1. (\A k \in DOMAIN p : p[k] \in Ranges) /\ (\A k \in DOMAIN q : q[k] \in Ranges)
  BY DEF Counts, Proper
<1>2. PICK f \in [0..n -> Ranges] :
        /\ f[0] = C!Zero /\ C!SumOfRanges(n, p) = f[n]
        /\ \A k \in 1..n : f[k] = IF k \in DOMAIN p THEN C!Plus(f[k - 1], p[k]) ELSE f[k - 1]
  BY <1>1, SumIs
<1>3. PICK g \in [0..n -> Ranges] :
        /\ g[0] = C!Zero /\ C!SumOfRanges(n, q) = g[n]
        /\ \A k \in 1..n : g[k] = IF k \in DOMAIN q THEN C!Plus(g[k - 1], q[k]) ELSE g[k - 1]
  BY <1>1, SumIs
<1> DEFINE Right == {k \in 0..n : Counts(f[k], g[k], truncate, positive)}
<1>4. 0 \in Right
  <2>1. C!Zero \in Ranges /\ C!Zero.a = 0 /\ C!Zero.b = 0 /\ C!Zero.inclA /\ C!Zero.inclB
    BY DEF C!Zero, C!Interval, Ranges
  <2>2. Counts(C!Zero, C!Zero, truncate, positive)
    BY <2>1 DEF Counts, Proper
  <2> QED
    BY <1>2, <1>3, <2>2
<1>5. ASSUME NEW k \in 0..(n - 1), k \in Right PROVE k + 1 \in Right
  <2>1. k + 1 \in 1..n /\ (k + 1) - 1 = k /\ k + 1 \in 0..n
    OBVIOUS
  <2>2. CASE k + 1 \in DOMAIN p
    <3>1. f[k + 1] = C!Plus(f[k], p[k + 1]) /\ g[k + 1] = C!Plus(g[k], q[k + 1])
      BY <1>2, <1>3, <2>1, <2>2
    <3>2. Counts(f[k + 1], g[k + 1], truncate, positive)
      BY <1>5, <2>2, <3>1, PlusCounts
    <3> QED
      BY <2>1, <3>2
  <2>3. CASE k + 1 \notin DOMAIN p
    <3>1. f[k + 1] = f[k] /\ g[k + 1] = g[k]
      BY <1>2, <1>3, <2>1, <2>3
    <3> QED
      BY <1>5, <2>1, <3>1
  <2> QED
    BY <2>2, <2>3
<1> HIDE DEF Right
<1>6. \A k \in 0..n : k \in Right
  BY <1>4, <1>5, UpTo
<1> QED
  BY <1>2, <1>3, <1>6 DEF Right

\* Multiples of two bounds are in the same order or the reverse.
LEMMA MultipliedUp ==
  ASSUME NEW a \in Int, NEW b \in Int, NEW w \in Int, w > 0, a =< b
  PROVE  a * w =< b * w /\ (a * w = b * w => a = b)
<1>1. b * w = a * w + (b - a) * w
  OBVIOUS
<1>2. (b - a) * w >= b - a
  OBVIOUS
<1>3. a * w \in Int /\ b * w \in Int /\ (b - a) * w \in Int
  OBVIOUS
<1> QED
  BY <1>1, <1>2, <1>3

LEMMA MultipliedDown ==
  ASSUME NEW a \in Int, NEW b \in Int, NEW w \in Int, w < 0, a =< b
  PROVE  b * w =< a * w /\ (b * w = a * w => a = b)
<1>1. -w \in Int /\ -w > 0
  OBVIOUS
<1>2. a * (-w) =< b * (-w) /\ (a * (-w) = b * (-w) => a = b)
  BY <1>1, MultipliedUp
<1>3. a * (-w) = -(a * w) /\ b * (-w) = -(b * w) /\ a * w \in Int /\ b * w \in Int
  OBVIOUS
<1> QED
  BY <1>2, <1>3

\* The contribution of an item.
LEMMA ContributionCounts ==
  ASSUME NEW truncate \in BOOLEAN, NEW positive \in BOOLEAN, NEW w \in Int \ {0}, positive => ~(w < 0),
         NEW s, NEW r, Bounded(s, r), Proper(r, truncate)
  PROVE  Counts(C!Weighted(s, w), C!Multiplied(r, w), truncate, positive)
<1> DEFINE x == C!Weighted(s, w)
           y == C!Multiplied(r, w)
<1>1. /\ s \in Ranges /\ r \in Ranges /\ s.a \in Int /\ s.b \in Int /\ r.a \in Int /\ r.b \in Int
      /\ s.a = r.a /\ s.b = r.b /\ r.a =< r.b
      /\ r.a = r.b => r.inclA /\ r.inclB /\ s.inclA /\ s.inclB
      /\ ~truncate => r.inclA /\ r.inclB /\ s.inclA /\ s.inclB
      /\ (r.inclA => s.inclA) /\ (r.inclB => s.inclB)
  BY DEF Bounded, Proper, Ranges
<1>2. s.a * w = r.a * w /\ s.b * w = r.b * w /\ r.a * w \in Int /\ r.b * w \in Int
  BY <1>1
<1>3. CASE w > 0
  <2>1. ~(w < 0)
    BY <1>3
  <2>2. /\ x = C!Interval(r.a * w, r.b * w, s.inclA, s.inclB)
        /\ y = C!Interval(r.a * w, r.b * w, r.inclA, r.inclB)
    BY <1>2, <2>1 DEF C!Weighted, C!Multiplied
  <2>3. r.a * w =< r.b * w /\ (r.a * w = r.b * w => r.a = r.b)
    BY <1>1, <1>3, MultipliedUp
  <2> HIDE DEF x, y
  <2>4. /\ x \in Ranges /\ x.a = r.a * w /\ x.b = r.b * w /\ x.inclA = s.inclA /\ x.inclB = s.inclB
        /\ y \in Ranges /\ y.a = r.a * w /\ y.b = r.b * w /\ y.inclA = r.inclA /\ y.inclB = r.inclB
    BY <1>1, <1>2, <2>2 DEF C!Interval, Ranges
  <2>5. Proper(x, truncate)
    BY <1>1, <2>3, <2>4 DEF Proper
  <2>6. Proper(y, truncate)
    BY <1>1, <2>3, <2>4 DEF Proper
  <2>7. Counts(x, y, truncate, positive)
    BY <1>1, <2>4, <2>5, <2>6 DEF Counts
  <2> QED
    BY <2>7 DEF x, y
<1>4. CASE w < 0
  <2>1. /\ x = C!Interval(r.b * w, r.a * w, s.inclA, s.inclB)
        /\ y = C!Interval(r.b * w, r.a * w, r.inclB, r.inclA)
    BY <1>2, <1>4 DEF C!Weighted, C!Multiplied
  <2>2. r.b * w =< r.a * w /\ (r.b * w = r.a * w => r.a = r.b)
    BY <1>1, <1>4, MultipliedDown
  <2> HIDE DEF x, y
  <2>3. /\ x \in Ranges /\ x.a = r.b * w /\ x.b = r.a * w /\ x.inclA = s.inclA /\ x.inclB = s.inclB
        /\ y \in Ranges /\ y.a = r.b * w /\ y.b = r.a * w /\ y.inclA = r.inclB /\ y.inclB = r.inclA
    BY <1>1, <1>2, <2>1 DEF C!Interval, Ranges
  <2>4. Proper(x, truncate)
    BY <1>1, <2>2, <2>3 DEF Proper
  <2>5. Proper(y, truncate)
    BY <1>1, <2>2, <2>3 DEF Proper
  <2>6. Counts(x, y, truncate, positive)
    BY <1>4, <2>3, <2>4, <2>5 DEF Counts
  <2> QED
    BY <2>6 DEF x, y
<1> QED
  BY <1>3, <1>4

\* The comparison of the code is that of the definition, but where a total and a sum meet in
\* one bound.
LEMMA ComparisonIsRight ==
  ASSUME NEW truncate \in BOOLEAN, NEW positive \in BOOLEAN,
         NEW t, NEW total, Bounded(t, total), Proper(total, truncate),
         NEW s, NEW sum, Counts(s, sum, truncate, positive)
  PROVE  \/ C!IsEmpty(C!Compare11(t, s)) <=> C!IsEmpty(C!Common({total, sum}))
         \/ truncate /\ C!Meet(total, sum, ~positive)
<1> DEFINE x == C!Compare11(t, s)
           c == C!Common({total, sum})
           A == C!Larger(total.a, sum.a)
           B == C!Smaller(total.b, sum.b)
<1>1. /\ t \in Ranges /\ s \in Ranges /\ total \in Ranges /\ sum \in Ranges
      /\ t.a = total.a /\ t.b = total.b /\ s.a = sum.a /\ s.b = sum.b
      /\ total.a \in Int /\ total.b \in Int /\ sum.a \in Int /\ sum.b \in Int
      /\ total.a =< total.b /\ sum.a =< sum.b
  BY DEF Bounded, Counts, Proper, Ranges
<1>2. /\ total.inclA => t.inclA
      /\ total.inclB => t.inclB
      /\ positive => (sum.inclA => s.inclA) /\ (sum.inclB => s.inclB)
      /\ sum.a = sum.b => s.inclA /\ s.inclB /\ sum.inclA /\ sum.inclB
      /\ total.a = total.b => total.inclA /\ total.inclB
      /\ ~truncate => s.inclA /\ s.inclB /\ sum.inclA /\ sum.inclB /\ total.inclA /\ total.inclB
  BY DEF Bounded, Counts, Proper
<1>3. /\ A \in Int /\ (A = total.a \/ A = sum.a) /\ total.a =< A /\ sum.a =< A
      /\ B \in Int /\ (B = total.b \/ B = sum.b) /\ B =< total.b /\ B =< sum.b
  BY <1>1 DEF C!Larger, C!Smaller
<1>4. /\ x.a = A /\ x.b = B
      /\ x.inclA <=> t.inclA \/ s.inclA
      /\ x.inclB <=> t.inclB \/ s.inclB
  <2> DEFINE i == t.inclA \/ s.inclA
             j == t.inclB \/ s.inclB
  <2>1. x = [a |-> A, b |-> B, inclA |-> i, inclB |-> j]
    BY <1>1 DEF C!Compare11, C!Interval
  <2> HIDE DEF x, i, j, A, B
  <2>2. x.a = A /\ x.b = B /\ x.inclA = i /\ x.inclB = j
    BY <2>1
  <2> QED
    BY <2>2 DEF i, j
<1> HIDE DEF A, B, x
<1>5. /\ c.a = A /\ c.b = B
      /\ c.inclA <=> (total.a = A => total.inclA) /\ (sum.a = A => sum.inclA)
      /\ c.inclB <=> (total.b = B => total.inclB) /\ (sum.b = B => sum.inclB)
  <2>1. PICK r \in {total, sum} : r.a = A
    BY <1>3
  <2>2. PICK q \in {total, sum} : q.b = B
    BY <1>3
  <2> DEFINE rs == {total, sum}
  <2>3. rs \in SUBSET Ranges /\ r \in rs /\ q \in rs /\ \A u \in rs : u.a =< r.a /\ q.b =< u.b
    BY <1>1, <1>3, <2>1, <2>2
  <2>4. /\ c.a = r.a /\ c.b = q.b
        /\ c.inclA <=> \A u \in rs : u.a = r.a => u.inclA
        /\ c.inclB <=> \A u \in rs : u.b = q.b => u.inclB
    <3> DEFINE d == C!Common(rs)
    <3>1. c = d
      OBVIOUS
    <3> HIDE DEF rs, c
    <3>2. /\ d.a = r.a /\ d.b = q.b
          /\ d.inclA <=> \A u \in rs : u.a = r.a => u.inclA
          /\ d.inclB <=> \A u \in rs : u.b = q.b => u.inclB
      BY <2>3, CommonIs
    <3> HIDE DEF d
    <3> QED
      BY <3>1, <3>2
  <2> HIDE DEF c
  <2> QED
    BY <2>1, <2>2, <2>4
<1> HIDE DEF c
<1>6. CASE A # B
  <2>1. /\ C!IsEmpty(x) <=> A > B
        /\ C!IsEmpty(c) <=> A > B
    BY <1>4, <1>5, <1>6 DEF C!IsEmpty
  <2> QED
    BY <2>1 DEF x, c
<1>7. CASE A = B
  <2>1. /\ C!IsEmpty(x) <=> ~(x.inclA /\ x.inclB)
        /\ C!IsEmpty(c) <=> ~(c.inclA /\ c.inclB)
    BY <1>3, <1>4, <1>5, <1>7 DEF C!IsEmpty
  <2> SUFFICES ASSUME ~(truncate /\ C!Meet(total, sum, ~positive))
               PROVE  x.inclA /\ x.inclB /\ c.inclA /\ c.inclB
    BY <2>1 DEF x, c
  <2>2. truncate => /\ ~C!Touch(total, sum)
                    /\ positive \/ (total.a # sum.b /\ sum.a # total.b)
    BY DEF C!Meet
  <2>3. CASE ~truncate
    <3>1. s.inclA /\ s.inclB /\ sum.inclA /\ sum.inclB /\ total.inclA /\ total.inclB
      BY <1>2, <2>3
    <3> QED
      BY <1>4, <1>5, <3>1
  <2>4. CASE truncate
    <3>1. /\ total.a = sum.b => total.inclA /\ sum.inclB
          /\ sum.a = total.b => sum.inclA /\ total.inclB
      BY <2>2, <2>4 DEF C!Touch
    <3>2. CASE A = total.a /\ B = total.b
      <4>1. total.inclA /\ total.inclB /\ t.inclA /\ t.inclB
        BY <1>2, <1>7, <3>2
      <4>2. (sum.a = A => sum.inclA) /\ (sum.b = B => sum.inclB)
        BY <1>7, <3>1, <3>2
      <4> QED
        BY <1>4, <1>5, <4>1, <4>2
    <3>3. CASE A = sum.a /\ B = sum.b
      <4>1. sum.inclA /\ sum.inclB /\ s.inclA /\ s.inclB
        BY <1>2, <1>7, <3>3
      <4>2. (total.a = A => total.inclA) /\ (total.b = B => total.inclB)
        BY <1>7, <3>1, <3>3
      <4> QED
        BY <1>4, <1>5, <4>1, <4>2
    <3>4. CASE A = total.a /\ B = sum.b
      <4>1. total.inclA /\ sum.inclB /\ positive
        BY <1>7, <2>2, <2>4, <3>1, <3>4
      <4>2. t.inclA /\ s.inclB
        BY <1>2, <4>1
      <4>3. (sum.a = A => sum.inclA) /\ (total.b = B => total.inclB)
        BY <1>2, <1>7, <3>4
      <4> QED
        BY <1>4, <1>5, <4>1, <4>2, <4>3
    <3>5. CASE A = sum.a /\ B = total.b
      <4>1. sum.inclA /\ total.inclB /\ positive
        BY <1>7, <2>2, <2>4, <3>1, <3>5
      <4>2. s.inclA /\ t.inclB
        BY <1>2, <4>1
      <4>3. (total.a = A => total.inclA) /\ (sum.b = B => sum.inclB)
        BY <1>2, <1>7, <3>5
      <4> QED
        BY <1>4, <1>5, <4>1, <4>2, <4>3
    <3> QED
      BY <1>3, <3>2, <3>3, <3>4, <3>5
  <2> QED
    BY <2>3, <2>4
<1> QED
  BY <1>6, <1>7

\* Calculations 1.1: the verdict on facts that are plain.
LEMMA Verdict11IsRight ==
  ASSUME NEW c, Calculation(c), NEW truncate \in BOOLEAN
  PROVE  C!Verdict11Right(c, truncate)
<1> DEFINE Found(fs) == C!ConsistentFactValueInterval(fs, truncate)
           Meaning(fs) == C!Meaning11(fs, truncate)
           n == Len(c.items)
           whole == Found(c.total)
           found == [k \in DOMAIN c.items |-> Found(c.items[k])]
           added == {k \in C!Items(c) : found[k].is = "interval"}
           p == [k \in added |-> C!Weighted(found[k].range, c.weights[k])]
           sum == C!SumOfRanges(n, p)
           meant == Meaning(c.total)
           Contribution(k) == C!Multiplied(Meaning(c.items[k]).range, c.weights[k])
           reported == {k \in DOMAIN c.items : C!Reported(c.items[k]) # {}}
           q == [k \in reported |-> Contribution(k)]
           right == C!Definition11(c, truncate)
           negative == \E k \in DOMAIN c.items : c.weights[k] < 0 /\ c.items[k] # <<>>
           Blocked == whole.is = "inconsistent" \/ \E k \in DOMAIN c.items : found[k].is = "inconsistent"
           Empty == C!IsEmpty(C!Common({meant.range, C!SumOfRanges(n, q)}))
<1>1. /\ FactList(c.total) /\ \A k \in DOMAIN c.items : FactList(c.items[k])
      /\ \A k \in DOMAIN c.items : c.weights[k] \in Int \ {0}
      /\ C!Range(c.items) = {c.items[k] : k \in DOMAIN c.items}
      /\ n \in Nat
  BY ListsAre
<1> DEFINE Goal == \/ C!Validate11(c, truncate) = right
                   \/ /\ truncate /\ right \in {"consistent", "inconsistent"}
                      /\ C!Meet(meant.range, C!SumOfRanges(n, q), negative)
<1>2. C!Sum11(c, truncate) = C!SumOfRanges(n, q)
  BY DEF C!Sum11
<1>3. SUFFICES ASSUME \A fs \in {c.total} \cup C!Range(c.items) : C!Plain(fs, truncate)
               PROVE  Goal
  <2> HIDE DEF q, right, negative, meant, n
  <2> QED
    BY <1>2, <1>3 DEF C!Verdict11Right, right, negative, meant
<1>4. FoundRight(whole, meant, truncate) /\ (meant.is = "nothing" <=> C!Reported(c.total) = {})
  BY <1>1, <1>3, FoundIsMeaning
<1>5. \A k \in DOMAIN c.items :
        /\ FoundRight(found[k], Meaning(c.items[k]), truncate)
        /\ Meaning(c.items[k]).is = "nothing" <=> C!Reported(c.items[k]) = {}
  <2> SUFFICES ASSUME NEW k \in DOMAIN c.items
               PROVE  /\ FoundRight(found[k], Meaning(c.items[k]), truncate)
                      /\ Meaning(c.items[k]).is = "nothing" <=> C!Reported(c.items[k]) = {}
    OBVIOUS
  <2>1. FactList(c.items[k]) /\ C!Plain(c.items[k], truncate)
    BY <1>1, <1>3
  <2> QED
    BY <2>1, FoundIsMeaning
<1>6. C!Validate11(c, truncate) =
        IF whole.is = "nothing" \/ C!Items(c) = {} THEN "not bound"
        ELSE IF whole.is = "inconsistent" \/ \E k \in DOMAIN found : found[k].is = "inconsistent"
        THEN "blocked"
        ELSE IF added = {} THEN "not bound"
        ELSE IF C!IsEmpty(C!Compare11(whole.range, sum)) THEN "inconsistent"
        ELSE "consistent"
  BY DEF C!Validate11
<1>7. right =
        IF C!Reported(c.total) = {} \/ C!Items(c) = {} THEN "not bound"
        ELSE IF meant.is = "inconsistent"
                \/ \E k \in DOMAIN c.items : Meaning(c.items[k]).is = "inconsistent"
        THEN "blocked"
        ELSE IF \A k \in DOMAIN c.items : C!Reported(c.items[k]) = {} THEN "not bound"
        ELSE IF Empty THEN "inconsistent" ELSE "consistent"
  BY <1>2 DEF C!Definition11
<1> DEFINE Unreported == whole.is = "nothing" \/ C!Items(c) = {}
           Unlike == C!IsEmpty(C!Compare11(whole.range, sum))
<1>8. /\ Unreported <=> C!Reported(c.total) = {} \/ C!Items(c) = {}
      /\ Blocked <=> meant.is = "inconsistent"
                     \/ \E k \in DOMAIN c.items : Meaning(c.items[k]).is = "inconsistent"
      /\ DOMAIN found = DOMAIN c.items
  <2>1. DOMAIN found = DOMAIN c.items
    OBVIOUS
  <2> HIDE DEF found, meant, whole, Meaning
  <2> QED
    BY <1>4, <1>5, <2>1 DEF FoundRight
<1> HIDE DEF found, meant, whole, Meaning, sum, q, p, right
<1>9. CASE Unreported
  BY <1>6, <1>7, <1>8, <1>9
<1>10. CASE ~Unreported /\ Blocked
  <2> HIDE DEF added, reported, Empty, negative
  <2>1. C!Validate11(c, truncate) = "blocked"
    <3>1. whole.is = "inconsistent" \/ \E k \in DOMAIN found : found[k].is = "inconsistent"
      <4>1. DOMAIN found = DOMAIN c.items
        BY <1>8
      <4> QED
        BY <1>10, <4>1
    <3> QED
      BY <1>6, <1>10, <3>1
  <2>2. right = "blocked"
    BY <1>7, <1>8, <1>10
  <2> QED
    BY <2>1, <2>2
<1>11. CASE ~Unreported /\ ~Blocked
  <2>1. /\ added = reported /\ added \subseteq DOMAIN c.items
        /\ \A k \in added : Meaning(c.items[k]).is = "interval" /\ c.items[k] # <<>>
    <3>1. \A k \in DOMAIN c.items : C!Reported(c.items[k]) # {} => c.items[k] # <<>>
      BY DEF C!Reported, C!Range
    <3>2. \A k \in DOMAIN c.items : /\ found[k].is = Meaning(c.items[k]).is
                                    /\ found[k].is \in {"nothing", "inconsistent", "interval"}
                                    /\ found[k].is # "inconsistent"
      BY <1>5, <1>8, <1>11 DEF FoundRight
    <3> QED
      BY <1>5, <3>1, <3>2 DEF C!Items
  <2>2. whole.is = "interval" /\ meant.is = "interval"
    BY <1>4, <1>11 DEF FoundRight
  <2>3. /\ C!Validate11(c, truncate) = IF added = {} THEN "not bound"
                                       ELSE IF Unlike THEN "inconsistent" ELSE "consistent"
        /\ right = IF reported = {} THEN "not bound" ELSE IF Empty THEN "inconsistent" ELSE "consistent"
    <3>1. C!Validate11(c, truncate) = IF added = {} THEN "not bound"
                                      ELSE IF Unlike THEN "inconsistent" ELSE "consistent"
      <4> HIDE DEF added, Unlike
      <4> QED
        BY <1>6, <1>8, <1>11 DEF Unlike
    <3>2. reported = {} <=> \A k \in DOMAIN c.items : C!Reported(c.items[k]) = {}
      OBVIOUS
    <3> HIDE DEF added, Unlike, Empty, reported
    <3> QED
      BY <1>7, <1>8, <1>11, <3>1, <3>2
  <2>4. CASE added = {}
    BY <2>1, <2>3, <2>4
  <2>5. CASE added # {}
    <3> DEFINE positive == ~negative
    <3>1. \A k \in added : Counts(p[k], q[k], truncate, positive)
      <4> SUFFICES ASSUME NEW k \in added PROVE Counts(p[k], q[k], truncate, positive)
        OBVIOUS
      <4>1. Bounded(found[k].range, Meaning(c.items[k]).range) /\ Proper(Meaning(c.items[k]).range, truncate)
        BY <1>5, <2>1 DEF FoundRight
      <4>2. c.weights[k] \in Int \ {0} /\ (positive => ~(c.weights[k] < 0)) /\ positive \in BOOLEAN
        BY <1>1, <2>1
      <4>3. p[k] = C!Weighted(found[k].range, c.weights[k])
        BY DEF p
      <4>4. q[k] = C!Multiplied(Meaning(c.items[k]).range, c.weights[k])
        BY <2>1 DEF q
      <4> HIDE DEF negative
      <4> QED
        BY <4>1, <4>2, <4>3, <4>4, ContributionCounts
    <3>2. DOMAIN p = added /\ DOMAIN q = added
      BY <2>1 DEF p, q
    <3>3. positive \in BOOLEAN
      OBVIOUS
    <3> HIDE DEF positive, added, reported
    <3>4. Counts(sum, C!SumOfRanges(n, q), truncate, positive)
      BY <1>1, <3>1, <3>2, <3>3, SumCounts DEF sum
    <3>5. Bounded(whole.range, meant.range) /\ Proper(meant.range, truncate)
      BY <1>4, <2>2 DEF FoundRight
    <3>6. (Unlike <=> Empty) \/ (truncate /\ C!Meet(meant.range, C!SumOfRanges(n, q), ~positive))
      BY <3>3, <3>4, <3>5, ComparisonIsRight
    <3>7. C!Meet(meant.range, C!SumOfRanges(n, q), ~positive) =>
            C!Meet(meant.range, C!SumOfRanges(n, q), negative)
      BY DEF positive, C!Meet
    <3> HIDE DEF Unlike, Empty, negative, n
    <3> QED
      BY <2>1, <2>3, <2>5, <3>6, <3>7
  <2> QED
    BY <2>4, <2>5
<1> QED
  BY <1>9, <1>10, <1>11

-----------------------------------------------------------------------------
(* Calculations of any number of facts *)

CalculationsSpec == input \in CalculationSets /\ [][AddCalculationFact]_input

CalculationsType ==
    /\ input \in [about : {"calculation"}, total : Seq(CalculationFacts),
                 items : Seq(Seq(CalculationFacts)), weights : Seq(Int \ {0}), facts : Nat]
    /\ DOMAIN input.weights = DOMAIN input.items

LEMMA CalculationsInit == input \in CalculationSets => CalculationsType
<1> SUFFICES ASSUME input \in CalculationSets PROVE CalculationsType
  OBVIOUS
<1> DEFINE L == Seq(CalculationFacts)
<1>1. PICK w \in Weights : input = [about |-> "calculation", total |-> <<>>,
                                    items |-> [k \in DOMAIN w |-> <<>>], weights |-> w, facts |-> 0]
  BY DEF CalculationSets
<1>2. w \in Seq(Int \ {0}) /\ <<>> \in L
  BY CalculationAssumption
<1> HIDE DEF L
<1>3. [k \in DOMAIN w |-> <<>>] \in Seq(L)
  <2>1. DOMAIN w = 1..Len(w) /\ Len(w) \in Nat
    BY <1>2, LenProperties
  <2> QED
    BY <1>2, <2>1, SeqDef
<1>4. /\ input.about = "calculation" /\ input.facts = 0 /\ input.total = <<>>
      /\ input.items = [k \in DOMAIN w |-> <<>>] /\ input.weights = w
  BY <1>1
<1>5. DOMAIN input.items = DOMAIN input.weights
  BY <1>4
<1> DEFINE W == Seq(Int \ {0})
           LL == Seq(L)
<1>6. input \in [about : {"calculation"}, total : L, items : LL, weights : W, facts : Nat]
  <2>1. w \in W /\ [k \in DOMAIN w |-> <<>>] \in LL
    BY <1>2, <1>3
  <2> DEFINE e == [k \in DOMAIN w |-> <<>>]
  <2> HIDE DEF W, LL, e
  <2> QED
    BY <1>1, <1>2, <2>1 DEF e
<1> QED
  BY <1>5, <1>6 DEF CalculationsType, L

LEMMA CalculationsNext == CalculationsType /\ [AddCalculationFact]_input => CalculationsType'
<1> DEFINE L == Seq(CalculationFacts)
           LL == Seq(L)
           W == Seq(Int \ {0})
           Inputs == [about : {"calculation"}, total : L, items : LL, weights : W, facts : Nat]
<1> SUFFICES ASSUME CalculationsType, AddCalculationFact PROVE CalculationsType'
  BY DEF CalculationsType
<1>1. input \in Inputs /\ DOMAIN input.weights = DOMAIN input.items
  BY DEF CalculationsType
<1>2. PICK f \in CalculationFacts :
        \/ input' = [input EXCEPT !.facts = @ + 1, !.total = Append(@, f)]
        \/ \E k \in DOMAIN input.items : input' = [input EXCEPT !.facts = @ + 1, !.items[k] = Append(@, f)]
  BY DEF AddCalculationFact
<1>3. \A fs \in L : Append(fs, f) \in L
  BY AppendProperties
<1> HIDE DEF L, W
<1>4. \A fs \in LL : \A k \in DOMAIN fs :
        LET t == [fs EXCEPT ![k] = Append(fs[k], f)]
        IN  t \in LL /\ DOMAIN t = DOMAIN fs
  <2> SUFFICES ASSUME NEW fs \in LL, NEW k \in DOMAIN fs
               PROVE  LET t == [fs EXCEPT ![k] = Append(fs[k], f)]
                      IN  t \in LL /\ DOMAIN t = DOMAIN fs
    OBVIOUS
  <2>1. k \in 1..Len(fs) /\ fs[k] \in L
    BY LenProperties, ElementOfSeq
  <2>2. Append(fs[k], f) \in L
    BY <1>3, <2>1
  <2> QED
    BY <2>1, <2>2, ExceptSeq
<1> HIDE DEF LL
<1>5. /\ input.total \in L /\ input.items \in LL /\ input.facts + 1 \in Nat
  BY <1>1
<1>6. CASE input' = [input EXCEPT !.facts = @ + 1, !.total = Append(@, f)]
  <2> DEFINE t == Append(input.total, f)
  <2>1. t \in L
    BY <1>3, <1>5
  <2>2. input' = [input EXCEPT !.facts = input.facts + 1, !.total = t]
    BY <1>6
  <2> HIDE DEF t
  <2>3. input' \in Inputs /\ input'.weights = input.weights /\ input'.items = input.items
    BY <1>1, <1>5, <2>1, <2>2
  <2> QED
    BY <1>1, <2>3 DEF CalculationsType, L, LL, W
<1>7. ASSUME NEW k \in DOMAIN input.items,
             input' = [input EXCEPT !.facts = @ + 1, !.items[k] = Append(@, f)]
      PROVE  CalculationsType'
  <2> DEFINE t == [input.items EXCEPT ![k] = Append(input.items[k], f)]
  <2>1. t \in LL /\ DOMAIN t = DOMAIN input.items
    BY <1>4, <1>5
  <2>2. input' = [input EXCEPT !.facts = input.facts + 1, !.items = t]
    BY <1>7
  <2> HIDE DEF t
  <2>3. input' \in Inputs /\ input'.weights = input.weights /\ input'.items = t
    BY <1>1, <1>5, <2>1, <2>2
  <2> QED
    BY <1>1, <2>1, <2>3 DEF CalculationsType, L, LL, W
<1> QED
  BY <1>2, <1>6, <1>7

\* Whatever the facts of a total and its items, the weights and the order of the facts, the
\* verdicts of Calculations 1.0 are right, and those of 1.1 but for the two cases that
\* Verdict11Right names (ValidateXbrlCalcs.validate).
THEOREM CalculationsAreRight == CalculationsSpec => []CalculationsRight
<1>1. CalculationsType => CalculationsRight
  <2>1. CalculationsType => Calculation(input)
    BY DEF CalculationsType, Calculation, FactList
  <2> QED
    BY <2>1, Verdict10IsRight, Verdict11IsRight DEF CalculationsRight
<1> QED
  BY <1>1, CalculationsInit, CalculationsNext, PTL DEF CalculationsSpec

-----------------------------------------------------------------------------
(* The run of formulas: its timers *)

TimerStates == {"none", "waiting", "elapsed", "called", "cancelled"}
Stages == {"next", "bind", "results", "chained", "ended", "done"}

\* The set that a callback of now counts for: the one that is evaluated, or the next.
Now == IF pc = "next" THEN at + 1 ELSE at

\* What the flags, the timers and the count of sets may be.
TimersTyped ==
    /\ at \in 0..Len(TopSets) /\ pc \in Stages
    /\ timers \in [Timers -> TimerStates] /\ calledIn \in [Timers -> Nat]
    /\ setExceeded \in BOOLEAN /\ exceeded \in BOOLEAN
    /\ timedOut \in SUBSET (1..at)

\* A set that was not started has no timer; no callback is known of a timer that has not
\* called back; the flag of a set that times out is that of a timer that has called back
\* for this set; and so it was for the sets that timed out.
UnstartedUntimed == \A t \in Timers : t > at => timers[t] = "none"
UncalledUnknown == \A t \in Timers : timers[t] \in {"none", "waiting", "elapsed"} => calledIn[t] = 0
FlagHasCause == setExceeded /\ pc # "done" => \E t \in 1..at : calledIn[t] = Now

TimerInv == TimersTyped /\ UnstartedUntimed /\ UncalledUnknown /\ FlagHasCause /\ TimeoutHasCause

LEMMA TimersAre == Len(TopSets) \in Nat /\ Timers = 0..Len(TopSets)
  BY FormulaAssumption DEF Timers

LEMMA TimerInvInit == Init => TimerInv
<1> SUFFICES ASSUME Init PROVE TimerInv
  OBVIOUS
<1> USE TimersAre
<1>1. TimersTyped
  BY DEF Init, TimersTyped, TimerStates, Stages
<1>2. UnstartedUntimed /\ UncalledUnknown
  BY DEF Init, UnstartedUntimed, UncalledUnknown
<1>3. FlagHasCause /\ TimeoutHasCause
  BY DEF Init, FlagHasCause, TimeoutHasCause
<1> QED
  BY <1>1, <1>2, <1>3 DEF TimerInv

-----------------------------------------------------------------------------
(* What the steps of an evaluation do to the timers *)

\* Neither timers nor flags change, while a set is evaluated.
Evaluates ==
    /\ pc \in Stages \ {"next", "done"} /\ pc' \in Stages \ {"next", "done"}
    /\ UNCHANGED <<at, timers, setExceeded, exceeded, timedOut, calledIn>>

\* A set ends, and may time out if its flag is set.
EndsSet ==
    /\ pc \in Stages \ {"next", "done"} /\ pc' = "next"
    /\ timers' = Cancelled(at) /\ setExceeded' = FALSE
    /\ UNCHANGED <<at, exceeded, calledIn>>
    /\ timedOut' = timedOut \/ (setExceeded /\ timedOut' = timedOut \cup {at})

\* The report times out.
EndsReport ==
    /\ pc \in Stages \ {"next", "done"} /\ pc' = "done"
    /\ timers' = Cancelled(at) /\ setExceeded' = FALSE
    /\ UNCHANGED <<at, exceeded, calledIn, timedOut>>

LEMMA EvaluationSteps ==
  ASSUME Bind \/ NextResult \/ VariableEnds \/ PassOver \/ Evaluate
            \/ EvaluateChained \/ EvaluationEnds \/ Return \/ Raise
  PROVE  Evaluates \/ EndsSet \/ EndsReport
<1> USE DEF Stages, Unchanged
<1>1. CASE Bind
  BY <1>1 DEF Bind, Evaluates
<1>2. CASE NextResult
  <2>1. pc = "results"
    BY <1>2 DEF NextResult
  <2>2. CASE exceeded /\ ReportTimesOut
    BY <2>1, <2>2 DEF ReportTimesOut, LeaveSet, Finally, EndsReport
  <2>3. CASE ~exceeded /\ setExceeded /\ SetTimesOut
    BY <2>1, <2>3 DEF SetTimesOut, LeaveSet, Finally, EndsSet
  <2>4. CASE pc' = "bind" /\ Unchanged
    BY <2>1, <2>4 DEF Evaluates
  <2> QED
    BY <1>2, <2>2, <2>3, <2>4 DEF NextResult, Polled
<1>3. CASE VariableEnds
  BY <1>3 DEF VariableEnds, Evaluates
<1>4. ASSUME AllBound, ResultEnds PROVE Evaluates
  BY <1>4 DEF AllBound, ResultEnds, Evaluates
<1>5. CASE PassOver
  <2>1. pc = "bind"
    BY <1>5 DEF PassOver, AllBound
  <2>2. CASE exceeded /\ ReportTimesOut
    BY <2>1, <2>2 DEF ReportTimesOut, LeaveSet, Finally, EndsReport
  <2>3. CASE ~exceeded /\ setExceeded /\ SetTimesOut
    BY <2>1, <2>3 DEF SetTimesOut, LeaveSet, Finally, EndsSet
  <2>4. CASE ResultEnds
    BY <1>4, <1>5, <2>4 DEF PassOver
  <2> QED
    BY <1>5, <2>2, <2>3, <2>4 DEF PassOver, Polled
<1>6. CASE Evaluate
  BY <1>6 DEF Evaluate, AllBound, ReportTimesOut, LeaveSet, Finally, EndsReport, Evaluates
<1>7. CASE EvaluateChained
  BY <1>7 DEF EvaluateChained, Evaluates
<1>8. CASE EvaluationEnds
  BY <1>8 DEF EvaluationEnds, ResultEnds, Evaluates
<1>9. ASSUME pc \in {"bind", "results", "ended"}, EvaluateReturns(scope, bindings)
      PROVE  Evaluates \/ EndsSet
  BY <1>9 DEF EvaluateReturns, Finally, EndsSet, Evaluates
<1>10. CASE Return
  BY <1>9, <1>10 DEF Return
<1>11. CASE Raise
  BY <1>9, <1>11 DEF Raise
<1> QED
  BY <1>1, <1>2, <1>3, <1>5, <1>6, <1>7, <1>8, <1>10, <1>11

LEMMA EvaluatesKeeps == ASSUME TimerInv, Evaluates PROVE TimerInv'
  BY DEF TimerInv, Evaluates, TimersTyped, UnstartedUntimed, UncalledUnknown, FlagHasCause,
         TimeoutHasCause, Now, Timers

LEMMA CancelledTimers ==
  ASSUME TimerInv, NEW t \in Timers, timers' = Cancelled(t), UNCHANGED <<at, calledIn>>
  PROVE  /\ timers' \in [Timers -> TimerStates]
         /\ UnstartedUntimed' /\ UncalledUnknown'
<1>1. timers \in [Timers -> TimerStates] /\ UnstartedUntimed /\ UncalledUnknown
  BY DEF TimerInv, TimersTyped
<1>2. timers' \in [Timers -> TimerStates]
  BY <1>1 DEF Cancelled, TimerStates
<1>3. UnstartedUntimed'
  BY <1>1 DEF UnstartedUntimed, Cancelled, Timers
<1>4. UncalledUnknown'
  BY <1>1 DEF UncalledUnknown, Cancelled, Timers
<1> QED
  BY <1>2, <1>3, <1>4

LEMMA EndsSetKeeps == ASSUME TimerInv, EndsSet PROVE TimerInv'
<1>1. at \in Timers /\ TimersTyped /\ FlagHasCause /\ TimeoutHasCause
  BY TimersAre DEF TimerInv, TimersTyped
<1>2. timers' \in [Timers -> TimerStates] /\ UnstartedUntimed' /\ UncalledUnknown'
  BY <1>1, CancelledTimers DEF EndsSet
<1>3. setExceeded => \E t \in 1..at : calledIn[t] = at
  BY <1>1 DEF FlagHasCause, Now, EndsSet
<1>4. setExceeded => at \in 1..at
  BY <1>1, <1>3, TimersAre
<1>5. TimersTyped'
  BY <1>1, <1>2, <1>4 DEF TimersTyped, EndsSet, Stages, Timers
<1>6. TimeoutHasCause'
  BY <1>1, <1>3 DEF TimeoutHasCause, EndsSet
<1>7. FlagHasCause'
  BY DEF FlagHasCause, EndsSet
<1> QED
  BY <1>2, <1>5, <1>6, <1>7 DEF TimerInv

LEMMA EndsReportKeeps == ASSUME TimerInv, EndsReport PROVE TimerInv'
<1>1. at \in Timers /\ TimersTyped /\ TimeoutHasCause
  BY TimersAre DEF TimerInv, TimersTyped
<1>2. timers' \in [Timers -> TimerStates] /\ UnstartedUntimed' /\ UncalledUnknown'
  BY <1>1, CancelledTimers DEF EndsReport
<1>3. TimersTyped' /\ TimeoutHasCause' /\ FlagHasCause'
  BY <1>1, <1>2 DEF TimersTyped, TimeoutHasCause, FlagHasCause, EndsReport, Stages, Timers
<1> QED
  BY <1>2, <1>3 DEF TimerInv

-----------------------------------------------------------------------------
LEMMA TimerInvStep == TimerInv /\ [Next]_vars => TimerInv'
<1> SUFFICES ASSUME TimerInv, [Next]_vars PROVE TimerInv'
  OBVIOUS
<1> USE TimersAre
<1>0. TimersTyped /\ UnstartedUntimed /\ UncalledUnknown /\ FlagHasCause /\ TimeoutHasCause
  BY DEF TimerInv
<1>1. CASE UNCHANGED vars
  BY <1>0, <1>1 DEF vars, TimerInv, TimersTyped, UnstartedUntimed, UncalledUnknown, FlagHasCause,
                    TimeoutHasCause, Now, Timers
<1>2. ASSUME NEW t \in Timers, Elapse(t) PROVE TimerInv'
  <2>1. TimersTyped'
    BY <1>0, <1>2 DEF TimersTyped, Elapse, TimerStates, Timers
  <2>2. UnstartedUntimed'
    BY <1>0, <1>2 DEF UnstartedUntimed, TimersTyped, Elapse, Timers
  <2>3. UncalledUnknown'
    BY <1>0, <1>2 DEF UncalledUnknown, TimersTyped, Elapse, Timers
  <2>4. FlagHasCause' /\ TimeoutHasCause'
    BY <1>0, <1>2 DEF FlagHasCause, TimeoutHasCause, Now, Elapse
  <2> QED
    BY <2>1, <2>2, <2>3, <2>4 DEF TimerInv
<1>3. ASSUME NEW t \in Timers, Callback(t) PROVE TimerInv'
  <2>1. calledIn' = [calledIn EXCEPT ![t] = Now] /\ UNCHANGED <<at, pc, timedOut>>
    BY <1>3 DEF Callback, Now
  <2>2. Now \in Nat /\ Now' = Now
    BY <1>0, <2>1 DEF TimersTyped, Now
  <2>3. TimersTyped'
    BY <1>0, <1>3, <2>1, <2>2 DEF TimersTyped, Callback, TimerStates, Timers
  <2>4. UnstartedUntimed'
    BY <1>0, <1>3 DEF UnstartedUntimed, TimersTyped, Callback, Timers
  <2>5. UncalledUnknown'
    BY <1>0, <1>3, <2>1 DEF UncalledUnknown, TimersTyped, Callback, Timers
  \* The timer has not called back before.
  <2>6. calledIn[t] = 0 /\ t <= at
    BY <1>0, <1>3 DEF UncalledUnknown, UnstartedUntimed, TimersTyped, Callback, Timers
  <2>7. \A u \in Timers : calledIn[u] # 0 => calledIn'[u] = calledIn[u]
    BY <1>0, <2>1, <2>6 DEF TimersTyped
  <2>8. FlagHasCause'
    <3>1. CASE t = 0
      <4> SUFFICES ASSUME setExceeded, pc # "done" PROVE \E u \in 1..at : calledIn'[u] = Now
        BY <1>3, <2>1, <2>2, <3>1 DEF Callback, FlagHasCause
      <4>1. PICK u \in 1..at : calledIn[u] = Now
        BY <1>0 DEF FlagHasCause
      <4>2. u # t /\ u \in Timers
        BY <1>0, <3>1 DEF TimersTyped
      <4>3. calledIn'[u] = Now
        BY <1>0, <2>1, <4>1, <4>2 DEF TimersTyped
      <4> QED
        BY <4>3
    <3>2. CASE t # 0
      <4>1. t \in 1..at /\ calledIn'[t] = Now
        BY <1>0, <2>1, <2>6, <3>2 DEF TimersTyped
      <4> QED
        BY <2>1, <2>2, <4>1 DEF FlagHasCause
    <3> QED
      BY <3>1, <3>2
  <2>9. TimeoutHasCause'
    <3> SUFFICES ASSUME NEW k \in timedOut PROVE \E u \in 1..k : calledIn'[u] = k
      BY <2>1 DEF TimeoutHasCause
    <3>1. PICK u \in 1..k : calledIn[u] = k
      BY <1>0 DEF TimeoutHasCause
    <3>2. k \in 1..at /\ u \in Timers
      BY <1>0, <3>1 DEF TimersTyped
    <3>3. calledIn'[u] = k
      BY <2>7, <3>1, <3>2
    <3> QED
      BY <3>3
  <2> QED
    BY <2>3, <2>4, <2>5, <2>8, <2>9 DEF TimerInv
<1>4. CASE StartSet
  <2>1. at' = at + 1 /\ at + 1 \in Timers /\ pc = "next" /\ pc' = "bind"
    BY <1>0, <1>4 DEF StartSet, TimersTyped
  <2>2. timers[at + 1] = "none"
    BY <1>0, <2>1 DEF UnstartedUntimed, TimersTyped
  <2>3. TimersTyped'
    BY <1>0, <1>4, <2>1 DEF TimersTyped, StartSet, TimerStates, Stages, Timers
  <2>4. UnstartedUntimed'
    BY <1>0, <1>4, <2>1 DEF UnstartedUntimed, TimersTyped, StartSet, Timers
  <2>5. UncalledUnknown'
    BY <1>0, <1>4, <2>1, <2>2 DEF UncalledUnknown, TimersTyped, StartSet, Timers
  <2>6. FlagHasCause'
    BY <1>0, <1>4, <2>1 DEF FlagHasCause, TimersTyped, StartSet, Now
  <2>7. TimeoutHasCause'
    BY <1>0, <1>4 DEF TimeoutHasCause, StartSet
  <2> QED
    BY <2>3, <2>4, <2>5, <2>6, <2>7 DEF TimerInv
<1>5. CASE FinishReport
  <2>1. 0 \in Timers /\ timers' = Cancelled(0) /\ pc' = "done"
        /\ UNCHANGED <<at, setExceeded, exceeded, timedOut, calledIn>>
    BY <1>5 DEF FinishReport
  <2>2. timers' \in [Timers -> TimerStates] /\ UnstartedUntimed' /\ UncalledUnknown'
    BY <2>1, CancelledTimers
  <2>3. TimersTyped' /\ FlagHasCause' /\ TimeoutHasCause'
    BY <1>0, <2>1, <2>2 DEF TimersTyped, FlagHasCause, TimeoutHasCause, Stages, Timers
  <2> QED
    BY <2>2, <2>3 DEF TimerInv
<1>6. CASE Bind \/ NextResult \/ VariableEnds \/ PassOver \/ Evaluate
            \/ EvaluateChained \/ EvaluationEnds \/ Return \/ Raise
  BY <1>6, EvaluationSteps, EvaluatesKeeps, EndsSetKeeps, EndsReportKeeps
<1> QED
  BY <1>1, <1>2, <1>3, <1>4, <1>5, <1>6 DEF Next

\* A variable set is reported as timed out only if a timer has called back while it was
\* evaluated, or between the set before it and it: its own, or one of an earlier set.
THEOREM TimeoutsHaveCauses == Spec => []TimeoutHasCause
<1>1. TimerInv => TimeoutHasCause
  BY DEF TimerInv
<1> QED
  BY TimerInvInit, TimerInvStep, <1>1, PTL DEF Spec

-----------------------------------------------------------------------------
(* Stacks of frames.                                                         *)
(* The invariant of the scope (StackInv) has, for each open variable, what it *)
(* hides: the value that the name has for the variables that were opened      *)
(* before it and for the sets around (Stacked).  A step opens or closes one of *)
(* them, and what it restores is then again what the others give.             *)

Values == Sets \cup {None, "parameter"}
Entry == [name : Names, left : Nat, binding : Values, value : Values]
FrameType == [set : Sets, open : Seq(Entry), chained : Nat,
              over : [value : Values, binding : Values]]
Fields == {"value", "binding"}

\* The name of the result that the set chained to frame k has in scope, or None.
Result(fs, k) == Chained[fs[k].set][fs[k].chained].result

\* One of the first m open variables of frame k has the name.
HasName(fs, k, m, n) == \E i \in 1..m : fs[k].open[i].name = n

GivenBy(fs, k, n) == HasName(fs, k, Len(fs[k].open), n) \/ (k < Len(fs) /\ Result(fs, k) = n)

\* What a name has outside of frame k: from the frame before it that gave it, or else
\* what it had before.
IsOuter(fs, base, k, n, v) ==
    \/ \E j \in 1..(k-1) : /\ GivenBy(fs, j, n) /\ v = fs[j].set
                           /\ \A l \in (j+1)..(k-1) : ~GivenBy(fs, l, n)
    \/ v = base[n] /\ \A j \in 1..(k-1) : ~GivenBy(fs, j, n)

\* What a name has in frame k when its first m variables are open.
IsValue(fs, base, k, m, n, v) ==
    \/ HasName(fs, k, m, n) /\ v = fs[k].set
    \/ ~HasName(fs, k, m, n) /\ IsOuter(fs, base, k, n, v)

OpenOf(fs, k, m) == IF k = Len(fs) THEN m ELSE Len(fs[k].open)

\* The names have in env what the frames gave them, if the first m variables of the
\* innermost one count, and each frame keeps what it has hidden, in its field f.
Stacked(fs, f, env, base, m) ==
    /\ \A n \in Names : IsValue(fs, base, Len(fs), m, n, env[n])
    /\ \A k \in 1..Len(fs) : \A i \in 1..OpenOf(fs, k, m) :
          IsValue(fs, base, k, i - 1, fs[k].open[i].name, fs[k].open[i][f])
    /\ \A k \in 1..(Len(fs) - 1) :
          Result(fs, k) # None =>
             IsValue(fs, base, k, Len(fs[k].open), Result(fs, k), fs[k].over[f])

\* Frames that differ in the innermost one, after its first m variables.
SameTo(fs, gs, f, m) ==
    /\ Len(gs) = Len(fs)
    /\ \A j \in 1..(Len(fs) - 1) : gs[j] = fs[j]
    /\ gs[Len(fs)].set = fs[Len(fs)].set
    /\ \A i \in 1..m : /\ gs[Len(fs)].open[i].name = fs[Len(fs)].open[i].name
                       /\ gs[Len(fs)].open[i][f] = fs[Len(fs)].open[i][f]

LEMMA FrameAt ==
  ASSUME NEW fs \in Seq(FrameType), NEW k \in 1..Len(fs)
  PROVE  fs[k] \in FrameType /\ fs[k].open \in Seq(Entry) /\ Len(fs[k].open) \in Nat
<1>1. fs[k] \in FrameType
  BY ElementOfSeq
<1>2. fs[k].open \in Seq(Entry)
  BY <1>1 DEF FrameType
<1> QED
  BY <1>1, <1>2, LenProperties

\* A frame that does not give a name does not change what it has outside.
LEMMA OuterOfNext ==
  ASSUME NEW fs, NEW base, NEW k \in Nat, k >= 1, NEW n, NEW v, ~GivenBy(fs, k, n)
  PROVE  IsOuter(fs, base, k + 1, n, v) <=> IsOuter(fs, base, k, n, v)
<1>1. (k + 1) - 1 = k /\ \A j \in 1..k : j = k \/ j \in 1..(k-1)
  OBVIOUS
<1>2. ASSUME IsOuter(fs, base, k, n, v) PROVE IsOuter(fs, base, k + 1, n, v)
  <2>1. CASE \E j \in 1..(k-1) : /\ GivenBy(fs, j, n) /\ v = fs[j].set
                                 /\ \A l \in (j+1)..(k-1) : ~GivenBy(fs, l, n)
    <3>1. PICK j \in 1..(k-1) : /\ GivenBy(fs, j, n) /\ v = fs[j].set
                                /\ \A l \in (j+1)..(k-1) : ~GivenBy(fs, l, n)
      BY <2>1
    <3>2. j \in 1..k /\ \A l \in (j+1)..k : l = k \/ l \in (j+1)..(k-1)
      OBVIOUS
    <3> QED
      BY <1>1, <3>1, <3>2 DEF IsOuter
  <2>2. CASE v = base[n] /\ \A j \in 1..(k-1) : ~GivenBy(fs, j, n)
    BY <1>1, <2>2 DEF IsOuter
  <2> QED
    BY <1>2, <2>1, <2>2 DEF IsOuter
<1>3. ASSUME IsOuter(fs, base, k + 1, n, v) PROVE IsOuter(fs, base, k, n, v)
  <2>1. CASE \E j \in 1..k : /\ GivenBy(fs, j, n) /\ v = fs[j].set
                             /\ \A l \in (j+1)..k : ~GivenBy(fs, l, n)
    <3>1. PICK j \in 1..k : /\ GivenBy(fs, j, n) /\ v = fs[j].set
                            /\ \A l \in (j+1)..k : ~GivenBy(fs, l, n)
      BY <2>1
    <3>2. j \in 1..(k-1) /\ \A l \in (j+1)..(k-1) : l \in (j+1)..k
      BY <1>1, <3>1
    <3> QED
      BY <3>1, <3>2 DEF IsOuter
  <2>2. CASE v = base[n] /\ \A j \in 1..k : ~GivenBy(fs, j, n)
    BY <1>1, <2>2 DEF IsOuter
  <2> QED
    BY <1>1, <1>3, <2>1, <2>2 DEF IsOuter
<1> QED
  BY <1>2, <1>3

LEMMA SameOuter ==
  ASSUME NEW fs \in Seq(FrameType), NEW gs \in Seq(FrameType), NEW base, NEW n, NEW v,
         NEW k \in 1..Len(fs), k <= Len(gs), \A j \in 1..(k-1) : gs[j] = fs[j]
  PROVE  IsOuter(gs, base, k, n, v) <=> IsOuter(fs, base, k, n, v)
<1>1. Len(fs) \in Nat /\ Len(gs) \in Nat
  BY LenProperties
<1>2. \A j \in 1..(k-1) : GivenBy(gs, j, n) <=> GivenBy(fs, j, n)
  BY <1>1 DEF GivenBy, HasName, Result
<1> QED
  BY <1>1, <1>2 DEF IsOuter

LEMMA SameValue ==
  ASSUME NEW fs \in Seq(FrameType), NEW gs \in Seq(FrameType), NEW base, NEW n, NEW v, NEW f,
         fs # <<>>, NEW m \in Nat, SameTo(fs, gs, f, m),
         NEW k \in 1..Len(fs), NEW i \in Nat, k = Len(fs) => i <= m
  PROVE  IsValue(gs, base, k, i, n, v) <=> IsValue(fs, base, k, i, n, v)
<1>1. Len(fs) \in Nat /\ Len(gs) = Len(fs)
  BY LenProperties DEF SameTo
<1>2. IsOuter(gs, base, k, n, v) <=> IsOuter(fs, base, k, n, v)
  BY <1>1, SameOuter DEF SameTo
<1>3. gs[k].set = fs[k].set
  BY <1>1 DEF SameTo
<1>4. HasName(gs, k, i, n) <=> HasName(fs, k, i, n)
  BY <1>1 DEF SameTo, HasName
<1> QED
  BY <1>2, <1>3, <1>4 DEF IsValue

\* What is not open yet does not count.
LEMMA KeepStacked ==
  ASSUME NEW fs \in Seq(FrameType), NEW gs \in Seq(FrameType), NEW base, NEW env, NEW f,
         fs # <<>>, NEW m \in Nat, SameTo(fs, gs, f, m), Stacked(fs, f, env, base, m)
  PROVE  Stacked(gs, f, env, base, m)
<1>1. Len(fs) \in Nat /\ Len(gs) = Len(fs) /\ Len(fs) >= 1
  BY LenProperties, EmptySeq DEF SameTo
<1>2. ASSUME NEW n \in Names PROVE IsValue(gs, base, Len(gs), m, n, env[n])
  <2>1. IsValue(fs, base, Len(fs), m, n, env[n]) /\ Len(fs) \in 1..Len(fs) /\ m <= m
    BY <1>1 DEF Stacked
  <2> QED
    BY <1>1, <2>1, SameValue
<1>3. ASSUME NEW k \in 1..Len(gs), NEW i \in 1..OpenOf(gs, k, m)
      PROVE  IsValue(gs, base, k, i - 1, gs[k].open[i].name, gs[k].open[i][f])
  <2>1. OpenOf(gs, k, m) = OpenOf(fs, k, m) /\ i \in Nat /\ i - 1 \in Nat /\ k \in 1..Len(fs)
    <3>1. CASE k = Len(fs)
      BY <1>1, <1>3, <3>1 DEF OpenOf
    <3>2. CASE k # Len(fs)
      <4>1. gs[k] = fs[k] /\ fs[k].open \in Seq(Entry)
        BY <1>1, <1>3, <3>2, FrameAt DEF SameTo
      <4> QED
        BY <1>1, <1>3, <3>2, <4>1, LenProperties DEF OpenOf
    <3> QED
      BY <3>1, <3>2
  <2>2. gs[k].open[i].name = fs[k].open[i].name /\ gs[k].open[i][f] = fs[k].open[i][f]
    BY <1>1, <1>3, <2>1 DEF OpenOf, SameTo
  <2>3. IsValue(fs, base, k, i - 1, fs[k].open[i].name, fs[k].open[i][f])
    BY <1>3, <2>1 DEF Stacked
  <2>4. k = Len(fs) => i - 1 <= m
    BY <1>1, <1>3, <2>1 DEF OpenOf
  <2> QED
    BY <2>1, <2>2, <2>3, <2>4, SameValue
<1>4. ASSUME NEW k \in 1..(Len(gs) - 1), Result(gs, k) # None
      PROVE  IsValue(gs, base, k, Len(gs[k].open), Result(gs, k), gs[k].over[f])
  <2>1. gs[k] = fs[k] /\ k \in 1..Len(fs) /\ k # Len(fs) /\ Len(fs[k].open) \in Nat
    BY <1>1, LenProperties DEF SameTo, FrameType
  <2>2. IsValue(fs, base, k, Len(fs[k].open), Result(fs, k), fs[k].over[f])
    BY <1>1, <1>4, <2>1 DEF Stacked, Result
  <2> QED
    BY <2>1, <2>2, SameValue DEF Result
<1> QED
  BY <1>2, <1>3, <1>4 DEF Stacked

\* One more variable of the innermost frame counts, and has hidden what was there.
LEMMA GiveStacked ==
  ASSUME NEW fs \in Seq(FrameType), NEW gs \in Seq(FrameType), NEW base, NEW env, NEW f,
         NEW n \in Names, NEW V, env \in [Names -> V],
         fs # <<>>, NEW m \in Nat, SameTo(fs, gs, f, m), Stacked(fs, f, env, base, m),
         gs[Len(gs)].open[m + 1].name = n, gs[Len(gs)].open[m + 1][f] = env[n]
  PROVE  Stacked(gs, f, [env EXCEPT ![n] = gs[Len(gs)].set], base, m + 1)
<1> DEFINE new == [env EXCEPT ![n] = gs[Len(gs)].set]
<1>1. Stacked(gs, f, env, base, m)
  BY KeepStacked
<1>2. Len(gs) \in Nat /\ Len(gs) >= 1 /\ m + 1 \in Nat /\ (m + 1) - 1 = m
  BY LenProperties, EmptySeq DEF SameTo
<1>3. ASSUME NEW x \in Names PROVE IsValue(gs, base, Len(gs), m + 1, x, new[x])
  <2>1. CASE x = n
    <3>1. HasName(gs, Len(gs), m + 1, x) /\ new[x] = gs[Len(gs)].set
      BY <1>2, <2>1 DEF HasName
    <3> QED
      BY <3>1 DEF IsValue
  <2>2. CASE x # n
    <3>1. HasName(gs, Len(gs), m + 1, x) <=> HasName(gs, Len(gs), m, x)
      BY <1>2, <2>2 DEF HasName
    <3>2. new[x] = env[x] /\ IsValue(gs, base, Len(gs), m, x, env[x])
      BY <1>1, <2>2 DEF Stacked
    <3> QED
      BY <3>1, <3>2 DEF IsValue
  <2> QED
    BY <2>1, <2>2
<1>4. ASSUME NEW k \in 1..Len(gs), NEW i \in 1..OpenOf(gs, k, m + 1)
      PROVE  IsValue(gs, base, k, i - 1, gs[k].open[i].name, gs[k].open[i][f])
  <2>1. CASE k = Len(gs) /\ i = m + 1
    BY <1>1, <1>2, <2>1 DEF Stacked
  <2>2. CASE ~(k = Len(gs) /\ i = m + 1)
    <3>1. i \in 1..OpenOf(gs, k, m)
      BY <1>2, <1>4, <2>2 DEF OpenOf
    <3> QED
      BY <1>1, <3>1 DEF Stacked
  <2> QED
    BY <2>1, <2>2
<1> QED
  BY <1>1, <1>3, <1>4 DEF Stacked

\* The last variable that counts gives back what it has hidden.
LEMMA TakeStacked ==
  ASSUME NEW fs \in Seq(FrameType), NEW gs \in Seq(FrameType), NEW base, NEW env, NEW f,
         NEW V, env \in [Names -> V],
         fs # <<>>, NEW m \in Nat, Stacked(fs, f, env, base, m + 1), SameTo(fs, gs, f, m),
         NEW n \in Names, fs[Len(fs)].open[m + 1].name = n
  PROVE  Stacked(gs, f, [env EXCEPT ![n] = fs[Len(fs)].open[m + 1][f]], base, m)
<1> DEFINE new == [env EXCEPT ![n] = fs[Len(fs)].open[m + 1][f]]
<1>1. Len(fs) \in Nat /\ Len(fs) >= 1 /\ m + 1 \in Nat /\ (m + 1) - 1 = m
  BY LenProperties, EmptySeq
<1>2. ASSUME NEW x \in Names PROVE IsValue(fs, base, Len(fs), m, x, new[x])
  <2>1. CASE x = n
    <3>1. Len(fs) \in 1..Len(fs) /\ m + 1 \in 1..OpenOf(fs, Len(fs), m + 1)
      BY <1>1 DEF OpenOf
    <3>2. new[x] = fs[Len(fs)].open[m + 1][f]
      BY <2>1
    <3> QED
      BY <1>1, <2>1, <3>1, <3>2 DEF Stacked
  <2>2. CASE x # n
    <3>1. HasName(fs, Len(fs), m + 1, x) <=> HasName(fs, Len(fs), m, x)
      <4> DEFINE o == fs[Len(fs)].open
      <4>1. \A i \in 1..(m + 1) : i = m + 1 \/ i \in 1..m
        OBVIOUS
      <4>2. \A i \in 1..m : i \in 1..(m + 1)
        OBVIOUS
      <4>3. o[m + 1].name # x
        BY <2>2
      <4> HIDE DEF o
      <4>4. (\E i \in 1..(m + 1) : o[i].name = x) <=> \E i \in 1..m : o[i].name = x
        BY <4>1, <4>2, <4>3
      <4> QED
        BY <4>4 DEF HasName, o
    <3>2. new[x] = env[x] /\ IsValue(fs, base, Len(fs), m + 1, x, env[x])
      BY <2>2 DEF Stacked
    <3> QED
      BY <3>1, <3>2 DEF IsValue
  <2> QED
    BY <2>1, <2>2
<1>3. ASSUME NEW k \in 1..Len(fs), NEW i \in 1..OpenOf(fs, k, m)
      PROVE  IsValue(fs, base, k, i - 1, fs[k].open[i].name, fs[k].open[i][f])
  <2>1. i \in 1..OpenOf(fs, k, m + 1)
    BY <1>1 DEF OpenOf
  <2> QED
    BY <2>1 DEF Stacked
<1>4. Stacked(fs, f, new, base, m)
  BY <1>2, <1>3 DEF Stacked
<1> QED
  BY <1>4, KeepStacked

\* A frame for a chained set: fs with what the result hides, and a frame with nothing open.
LEMMA PushStacked ==
  ASSUME NEW fs \in Seq(FrameType), NEW gs \in Seq(FrameType), NEW base, NEW env, NEW f,
         NEW V, env \in [Names -> V], NEW new,
         fs # <<>>, NEW m \in Nat, Stacked(fs, f, env, base, m),
         Len(gs) = Len(fs) + 1, \A j \in 1..(Len(fs) - 1) : gs[j] = fs[j],
         gs[Len(fs)].set = fs[Len(fs)].set, gs[Len(fs)].open = fs[Len(fs)].open,
         m = Len(fs[Len(fs)].open),
         Result(gs, Len(fs)) # None =>
             /\ Result(gs, Len(fs)) \in Names
             /\ gs[Len(fs)].over[f] = env[Result(gs, Len(fs))]
             /\ new = [env EXCEPT ![Result(gs, Len(fs))] = fs[Len(fs)].set],
         Result(gs, Len(fs)) = None => new = env,
         None \notin Names
  PROVE  Stacked(gs, f, new, base, 0)
<1> DEFINE d == Len(fs)
<1> DEFINE r == Result(gs, d)
<1>1. d \in Nat /\ d >= 1 /\ d \in 1..d /\ Len(gs) \in Nat
  BY LenProperties, EmptySeq
<1>2. ASSUME NEW k \in 1..d, NEW n, NEW v
      PROVE  IsOuter(gs, base, k, n, v) <=> IsOuter(fs, base, k, n, v)
  BY <1>1, SameOuter
<1>3. ASSUME NEW k \in 1..d, NEW n, NEW v, NEW i \in Nat
      PROVE  IsValue(gs, base, k, i, n, v) <=> IsValue(fs, base, k, i, n, v)
  <2>1. gs[k].set = fs[k].set /\ gs[k].open = fs[k].open
    BY <1>1
  <2> QED
    BY <1>2, <2>1 DEF IsValue, HasName
<1>4. ASSUME NEW n \in Names PROVE IsValue(gs, base, d + 1, 0, n, new[n])
  <2>1. ~HasName(gs, d + 1, 0, n)
    BY DEF HasName
  <2>2. GivenBy(gs, d, n) <=> HasName(fs, d, m, n) \/ r = n
    BY <1>1 DEF GivenBy, HasName
  <2>3. CASE r = n
    <3>1. GivenBy(gs, d, n) /\ new[n] = gs[d].set
      BY <2>2, <2>3
    <3>2. IsOuter(gs, base, d + 1, n, new[n])
      BY <1>1, <3>1 DEF IsOuter
    <3> QED
      BY <2>1, <3>2 DEF IsValue
  <2>4. CASE r # n /\ HasName(fs, d, m, n)
    <3>1. GivenBy(gs, d, n) /\ new[n] = env[n]
      BY <2>2, <2>4
    <3>2. env[n] = gs[d].set
      BY <2>4 DEF Stacked, IsValue
    <3>3. IsOuter(gs, base, d + 1, n, new[n])
      BY <1>1, <3>1, <3>2 DEF IsOuter
    <3> QED
      BY <2>1, <3>3 DEF IsValue
  <2>5. CASE r # n /\ ~HasName(fs, d, m, n)
    <3>1. ~GivenBy(gs, d, n) /\ new[n] = env[n]
      BY <2>2, <2>5
    <3>2. IsOuter(gs, base, d, n, env[n])
      BY <1>1, <1>2, <2>5 DEF Stacked, IsValue
    <3>3. IsOuter(gs, base, d + 1, n, new[n])
      BY <1>1, <3>1, <3>2, OuterOfNext
    <3> QED
      BY <2>1, <3>3 DEF IsValue
  <2> QED
    BY <2>3, <2>4, <2>5
<1>5. ASSUME NEW k \in 1..(d + 1), NEW i \in 1..OpenOf(gs, k, 0)
      PROVE  IsValue(gs, base, k, i - 1, gs[k].open[i].name, gs[k].open[i][f])
  <2>1. k \in 1..d /\ i \in 1..Len(gs[k].open)
    BY <1>1, <1>5 DEF OpenOf
  <2>2. gs[k].open = fs[k].open /\ Len(fs[k].open) \in Nat
    <3>1. gs[k].open = fs[k].open
      BY <1>1, <2>1
    <3>2. Len(fs[k].open) \in Nat
      BY <2>1, FrameAt
    <3> QED
      BY <3>1, <3>2
  <2>3. i \in 1..OpenOf(fs, k, m) /\ i - 1 \in Nat
    BY <1>1, <2>1, <2>2 DEF OpenOf
  <2>4. IsValue(fs, base, k, i - 1, fs[k].open[i].name, fs[k].open[i][f])
    BY <2>1, <2>3 DEF Stacked
  <2> QED
    BY <1>3, <2>1, <2>2, <2>3, <2>4
<1>6. ASSUME NEW k \in 1..d, Result(gs, k) # None
      PROVE  IsValue(gs, base, k, Len(gs[k].open), Result(gs, k), gs[k].over[f])
  <2>1. gs[k].open = fs[k].open /\ Len(fs[k].open) \in Nat
    BY <1>1, FrameAt
  <2>2. CASE k = d
    <3>1. IsValue(fs, base, d, m, r, env[r])
      BY <1>6, <2>2 DEF Stacked
    <3> QED
      BY <1>3, <1>6, <2>1, <2>2, <3>1
  <2>3. CASE k # d
    <3>1. k \in 1..(d - 1) /\ gs[k] = fs[k]
      BY <1>1, <2>3
    <3>2. IsValue(fs, base, k, Len(fs[k].open), Result(fs, k), fs[k].over[f])
      BY <1>6, <3>1 DEF Stacked, Result
    <3> QED
      BY <1>3, <2>1, <3>1, <3>2 DEF Result
  <2> QED
    BY <2>2, <2>3
<1> QED
  BY <1>1, <1>4, <1>5, <1>6 DEF Stacked

\* The chained set ends, and what its result has hidden is there again.
LEMMA PopStacked ==
  ASSUME NEW fs \in Seq(FrameType), NEW gs \in Seq(FrameType), NEW base, NEW env, NEW f,
         NEW V, env \in [Names -> V], NEW new, Len(fs) > 1, Stacked(fs, f, env, base, 0),
         Len(gs) = Len(fs) - 1, \A j \in 1..(Len(fs) - 2) : gs[j] = fs[j],
         gs[Len(gs)].set = fs[Len(gs)].set, gs[Len(gs)].open = fs[Len(gs)].open,
         Result(fs, Len(gs)) # None =>
             /\ Result(fs, Len(gs)) \in Names
             /\ new = [env EXCEPT ![Result(fs, Len(gs))] = fs[Len(gs)].over[f]],
         Result(fs, Len(gs)) = None => new = env,
         None \notin Names
  PROVE  Stacked(gs, f, new, base, Len(gs[Len(gs)].open))
<1> DEFINE d == Len(gs)
<1> DEFINE m == Len(gs[d].open)
<1> DEFINE r == Result(fs, d)
<1>1. d \in Nat /\ d >= 1 /\ d \in 1..d /\ Len(fs) = d + 1 /\ d \in 1..(Len(fs) - 1)
  BY LenProperties
<1>2. ASSUME NEW k \in 1..d, NEW n, NEW v
      PROVE  IsOuter(gs, base, k, n, v) <=> IsOuter(fs, base, k, n, v)
  BY <1>1, SameOuter
<1>3. ASSUME NEW k \in 1..d, NEW n, NEW v, NEW i \in Nat
      PROVE  IsValue(gs, base, k, i, n, v) <=> IsValue(fs, base, k, i, n, v)
  <2>1. gs[k].set = fs[k].set /\ gs[k].open = fs[k].open
    BY <1>1
  <2> QED
    BY <1>2, <2>1 DEF IsValue, HasName
<1>4. \A k \in 1..d : gs[k].open = fs[k].open /\ Len(fs[k].open) \in Nat
  <2>1. ASSUME NEW k \in 1..d PROVE gs[k].open = fs[k].open /\ Len(fs[k].open) \in Nat
    <3>1. gs[k].open = fs[k].open
      BY <1>1
    <3>2. k \in 1..Len(fs)
      BY <1>1
    <3> QED
      BY <3>1, <3>2, FrameAt
  <2> QED
    BY <2>1
<1>5. ASSUME NEW n \in Names PROVE IsValue(gs, base, d, m, n, new[n])
  <2>1. CASE r = n
    <3>1. IsValue(fs, base, d, Len(fs[d].open), r, fs[d].over[f])
      BY <1>1, <2>1 DEF Stacked
    <3>2. new[n] = fs[d].over[f]
      BY <2>1
    <3> QED
      BY <1>1, <1>3, <1>4, <2>1, <3>1, <3>2
  <2>2. CASE r # n
    <3>1. new[n] = env[n] /\ IsOuter(fs, base, d + 1, n, env[n])
      BY <1>1, <2>2 DEF Stacked, IsValue, HasName
    <3>2. GivenBy(fs, d, n) <=> HasName(fs, d, m, n)
      BY <1>1, <1>4, <2>2 DEF GivenBy, HasName
    <3>3. CASE HasName(fs, d, m, n)
      <4>1. env[n] = fs[d].set
        BY <1>1, <3>1, <3>2, <3>3 DEF IsOuter
      <4>2. IsValue(fs, base, d, m, n, new[n])
        BY <3>1, <3>3, <4>1 DEF IsValue
      <4> QED
        BY <1>1, <1>3, <1>4, <4>2
    <3>4. CASE ~HasName(fs, d, m, n)
      <4>1. IsOuter(fs, base, d, n, env[n])
        BY <1>1, <3>1, <3>2, <3>4, OuterOfNext
      <4>2. IsValue(fs, base, d, m, n, new[n])
        BY <3>1, <3>4, <4>1 DEF IsValue
      <4> QED
        BY <1>1, <1>3, <1>4, <4>2
    <3> QED
      BY <3>3, <3>4
  <2> QED
    BY <2>1, <2>2
<1>6. ASSUME NEW k \in 1..d, NEW i \in 1..OpenOf(gs, k, m)
      PROVE  IsValue(gs, base, k, i - 1, gs[k].open[i].name, gs[k].open[i][f])
  <2>1. k \in 1..Len(fs) /\ k # Len(fs) /\ i \in 1..Len(fs[k].open) /\ i - 1 \in Nat
    BY <1>1, <1>4 DEF OpenOf
  <2>2. IsValue(fs, base, k, i - 1, fs[k].open[i].name, fs[k].open[i][f])
    BY <2>1 DEF Stacked, OpenOf
  <2> QED
    BY <1>3, <1>4, <2>1, <2>2
<1>7. ASSUME NEW k \in 1..(d - 1), Result(gs, k) # None
      PROVE  IsValue(gs, base, k, Len(gs[k].open), Result(gs, k), gs[k].over[f])
  <2>1. gs[k] = fs[k] /\ k \in 1..d /\ k \in 1..(Len(fs) - 1)
    BY <1>1
  <2>2. IsValue(fs, base, k, Len(fs[k].open), Result(fs, k), fs[k].over[f])
    BY <1>7, <2>1 DEF Stacked, Result
  <2> QED
    BY <1>3, <1>4, <2>1, <2>2 DEF Result
<1> QED
  BY <1>5, <1>6, <1>7 DEF Stacked

-----------------------------------------------------------------------------
(* The stack of the evaluation *)

Shown == IF pc = "results" THEN Len(Open) - 1 ELSE Len(Open)

StackTyped ==
    /\ frames \in Seq(FrameType)
    /\ scope \in [Names -> Values] /\ bindings \in [Names -> Values]
    /\ saved \in [Names -> Values]
    /\ raised \in [here : BOOLEAN, ever : BOOLEAN]

\* Where the evaluation is, and what is open there.
Placed ==
    /\ pc \in {"next", "done"} <=> frames = <<>>
    /\ pc = "results" => Open # <<>>
    /\ pc = "ended" => Open = <<>>
    /\ pc = "chained" => Frame.chained >= 1
    /\ \A k \in 1..(Len(frames) - 1) : frames[k].chained \in DOMAIN Chained[frames[k].set]

NothingLeft == ~raised.ever => ~raised.here /\ saved = InScope /\ (pc = "next" => scope = InScope)

StackRight ==
    frames # <<>> /\ ~raised.here =>
        /\ Stacked(frames, "value", scope, saved, Shown)
        /\ Stacked(frames, "binding", bindings, Unbound, Len(Open))

StackInv == StackTyped /\ Placed /\ NothingLeft /\ StackRight

\* The constants, and what is in scope at first.
LEMMA ConstantTypes ==
  /\ InScope \in [Names -> Values] /\ Unbound \in [Names -> Values]
  /\ None \notin Names /\ None \in Values /\ Sets \subseteq Values
  /\ \A s \in Sets : Variables[s] \in Seq(Names)
                     /\ Chained[s] \in Seq([set : Sets, result : Names \cup {None}])
  BY FormulaAssumption DEF InScope, Unbound, Values

LEMMA NewFrameType ==
  ASSUME NEW s \in Sets
  PROVE  NewFrame(s) \in FrameType /\ NewFrame(s).open = <<>> /\ Len(NewFrame(s).open) = 0
  BY ConstantTypes, EmptySeq DEF NewFrame, FrameType, Nothing

LEMMA Innermost ==
  ASSUME StackTyped, frames # <<>>
  PROVE  /\ Depth \in Nat /\ Depth >= 1 /\ Depth \in 1..Len(frames) /\ Depth = Len(frames)
         /\ Frame \in FrameType /\ Frame.set \in Sets
         /\ Open \in Seq(Entry) /\ Len(Open) \in Nat /\ Open = frames[Depth].open
<1>1. Depth \in Nat /\ Depth >= 1
  BY LenProperties, EmptySeq DEF StackTyped, Depth
<1>2. Frame \in FrameType
  BY <1>1, ElementOfSeq DEF StackTyped, Depth, Frame
<1> QED
  BY <1>1, <1>2, LenProperties DEF Depth, Open, Frame, FrameType

LEMMA ChangeFrame ==
  ASSUME NEW fs \in Seq(FrameType), fs # <<>>, NEW fr \in FrameType
  PROVE  /\ [fs EXCEPT ![Len(fs)] = fr] \in Seq(FrameType)
         /\ Len([fs EXCEPT ![Len(fs)] = fr]) = Len(fs)
         /\ [fs EXCEPT ![Len(fs)] = fr][Len(fs)] = fr
         /\ \A j \in 1..(Len(fs) - 1) : [fs EXCEPT ![Len(fs)] = fr][j] = fs[j]
<1>1. Len(fs) \in 1..Len(fs)
  BY LenProperties, EmptySeq
<1> QED
  BY <1>1, ExceptSeq, LenProperties

LEMMA StackInvInit == Init => StackInv
<1> SUFFICES ASSUME Init PROVE StackInv
  OBVIOUS
<1>1. StackTyped
  BY ConstantTypes, EmptySeq DEF Init, StackTyped
<1>2. Placed /\ NothingLeft /\ StackRight
  BY EmptySeq DEF Init, Placed, NothingLeft, StackRight
<1> QED
  BY <1>1, <1>2 DEF StackInv

LEMMA BindKeepsStack == ASSUME StackInv, Bind PROVE StackInv'
<1> DEFINE n == MyVariables[Len(Open) + 1]
<1>0. StackTyped /\ Placed /\ NothingLeft /\ StackRight
  BY DEF StackInv
<1>1. frames # <<>> /\ pc = "bind" /\ pc' = "results"
  BY <1>0 DEF Bind, Placed
<1>2. /\ Depth \in Nat /\ Depth >= 1 /\ Depth = Len(frames)
      /\ Frame \in FrameType /\ Frame.set \in Sets
      /\ Open \in Seq(Entry) /\ Len(Open) \in Nat
  BY <1>0, <1>1, Innermost
<1>3. n \in Names
  <2>1. MyVariables \in Seq(Names) /\ Len(Open) + 1 \in 1..Len(MyVariables)
    BY <1>2, ConstantTypes, LenProperties DEF Bind, MyVariables
  <2> QED
    BY <2>1, ElementOfSeq
<1>4. PICK k \in 0..MaxResults :
         frames' = [frames EXCEPT ![Depth].open =
              Append(@, [name |-> n, left |-> k, binding |-> bindings[n], value |-> None])]
  BY DEF Bind
<1> DEFINE e == [name |-> n, left |-> k, binding |-> bindings[n], value |-> None]
<1> DEFINE fr == [Frame EXCEPT !.open = Append(Open, e)]
<1>5. e \in Entry
  BY <1>0, <1>3, ConstantTypes, FormulaAssumption DEF StackTyped, Entry
<1>6. /\ Append(Open, e) \in Seq(Entry) /\ Len(Append(Open, e)) = Len(Open) + 1
      /\ Append(Open, e)[Len(Open) + 1] = e
      /\ \A i \in 1..Len(Open) : Append(Open, e)[i] = Open[i]
  BY <1>2, <1>5, AppendProperties
<1>7. fr \in FrameType /\ fr.open = Append(Open, e) /\ fr.set = Frame.set
  BY <1>2, <1>6 DEF FrameType
<1>8. frames' = [frames EXCEPT ![Len(frames)] = fr]
  BY <1>2, <1>4 DEF Frame, Open
<1>9. /\ frames' \in Seq(FrameType) /\ Len(frames') = Len(frames) /\ frames'[Len(frames)] = fr
      /\ \A j \in 1..(Len(frames) - 1) : frames'[j] = frames[j]
  BY <1>0, <1>1, <1>7, <1>8, ChangeFrame DEF StackTyped
<1>10. Depth' = Depth /\ Frame' = fr /\ Open' = Append(Open, e) /\ frames' # <<>>
  BY <1>1, <1>2, <1>7, <1>9, EmptySeq DEF Depth, Frame, Open
<1>11. bindings' = [bindings EXCEPT ![n] = Frame.set] /\ UNCHANGED <<scope, saved, raised>>
  BY DEF Bind, Unchanged
<1>12. StackTyped'
  BY <1>0, <1>2, <1>9, <1>11, ConstantTypes DEF StackTyped
<1>13. Placed'
  BY <1>0, <1>1, <1>2, <1>6, <1>9, <1>10, EmptySeq DEF Placed
<1>14. NothingLeft'
  BY <1>0, <1>1, <1>11 DEF NothingLeft, InScope
<1>15. StackRight'
  <2> SUFFICES ASSUME ~raised.here
               PROVE  /\ Stacked(frames', "value", scope, saved, Shown')
                      /\ Stacked(frames', "binding", bindings', Unbound, Len(Open'))
    BY <1>11 DEF StackRight, Unbound
  <2>1. Shown = Len(Open) /\ Shown' = Len(Open) /\ Len(Open') = Len(Open) + 1
    BY <1>1, <1>2, <1>6, <1>10 DEF Shown
  <2>2. Stacked(frames, "value", scope, saved, Len(Open)) /\ Stacked(frames, "binding", bindings, Unbound, Len(Open))
    BY <1>0, <1>1, <2>1 DEF StackRight
  <2>3. SameTo(frames, frames', "value", Len(Open)) /\ SameTo(frames, frames', "binding", Len(Open))
    BY <1>2, <1>6, <1>7, <1>9 DEF SameTo, Frame, Open
  <2>4. Stacked(frames', "value", scope, saved, Len(Open))
    BY <1>0, <1>1, <1>2, <1>9, <2>2, <2>3, KeepStacked DEF StackTyped
  <2>5. /\ frames'[Len(frames')].open[Len(Open) + 1].name = n
        /\ frames'[Len(frames')].open[Len(Open) + 1]["binding"] = bindings[n]
        /\ frames'[Len(frames')].set = Frame.set
    BY <1>6, <1>7, <1>9
  <2>6. Stacked(frames', "binding", [bindings EXCEPT ![n] = Frame.set], Unbound, Len(Open) + 1)
    BY <1>0, <1>1, <1>2, <1>3, <1>9, <2>2, <2>3, <2>5, GiveStacked DEF StackTyped
  <2> QED
    BY <1>11, <2>1, <2>4, <2>6
<1> QED
  BY <1>12, <1>13, <1>14, <1>15 DEF StackInv

\* The next result of the last open variable.
GivesResult ==
    LET i == Len(Open)
        n == Open[i].name
    IN  /\ frames' = [frames EXCEPT ![Depth].open[i] = Over(@)]
        /\ scope' = [scope EXCEPT ![n] = Frame.set]
        /\ pc' = "bind"
        /\ UNCHANGED <<bindings, raised>> /\ Unchanged

LEMMA OverType ==
  ASSUME NEW e \in Entry, e.left > 0, scope[e.name] \in Values
  PROVE  /\ Over(e) \in Entry /\ Over(e).name = e.name
         /\ Over(e).value = scope[e.name] /\ Over(e).binding = e.binding
<1>1. e.left - 1 \in Nat
  BY DEF Entry
<1> HIDE DEF Values
<1> QED
  BY <1>1 DEF Over, Entry

LEMMA NextResultKeepsStack ==
  ASSUME StackInv, pc = "results", Open[Len(Open)].left > 0, GivesResult PROVE StackInv'
<1> DEFINE i == Len(Open)
<1> DEFINE n == Open[i].name
<1> DEFINE e == Over(Open[i])
<1> DEFINE open == [Open EXCEPT ![i] = e]
<1> DEFINE fr == [Frame EXCEPT !.open = open]
<1>0. StackTyped /\ Placed /\ NothingLeft /\ StackRight
  BY DEF StackInv
<1>1. frames # <<>> /\ pc = "results" /\ pc' = "bind" /\ Open # <<>>
  BY <1>0 DEF GivesResult, Placed
<1>2. /\ Depth \in Nat /\ Depth >= 1 /\ Depth = Len(frames)
      /\ Frame \in FrameType /\ Frame.set \in Sets
      /\ Open \in Seq(Entry) /\ i \in Nat /\ i >= 1 /\ i \in 1..Len(Open)
  BY <1>0, <1>1, Innermost, EmptySeq, LenProperties
<1>3. Open[i] \in Entry
  BY <1>2, ElementOfSeq
<1>4. n \in Names /\ scope[n] \in Values
  BY <1>0, <1>3 DEF StackTyped, Entry
<1>5. e \in Entry /\ e.name = n /\ e.value = scope[n] /\ e.binding = Open[i].binding
  BY <1>3, <1>4, OverType
<1>6. /\ open \in Seq(Entry) /\ Len(open) = i /\ open[i] = e
      /\ \A j \in 1..(i - 1) : open[j] = Open[j]
  <2> HIDE DEF e
  <2>1. i = Len(Open)
    OBVIOUS
  <2> HIDE DEF i
  <2> QED
    BY <1>2, <1>5, <2>1, ExceptSeq, LenProperties
<1>7. fr \in FrameType /\ fr.open = open /\ fr.set = Frame.set
  BY <1>2, <1>6 DEF FrameType
<1>8. frames' = [frames EXCEPT ![Len(frames)] = fr]
  BY <1>2 DEF GivesResult, Frame, Open
<1>9. /\ frames' \in Seq(FrameType) /\ Len(frames') = Len(frames) /\ frames'[Len(frames)] = fr
      /\ \A j \in 1..(Len(frames) - 1) : frames'[j] = frames[j]
  BY <1>0, <1>1, <1>7, <1>8, ChangeFrame DEF StackTyped
<1>10. Depth' = Depth /\ Frame' = fr /\ Open' = open /\ frames' # <<>>
  BY <1>1, <1>2, <1>7, <1>9, EmptySeq DEF Depth, Frame, Open
<1>11. scope' = [scope EXCEPT ![n] = Frame.set] /\ UNCHANGED <<bindings, saved, raised>>
  BY DEF GivesResult, Unchanged
<1>12. StackTyped'
  BY <1>0, <1>2, <1>9, <1>11, ConstantTypes DEF StackTyped
<1>13. Placed'
  BY <1>0, <1>1, <1>9, <1>10 DEF Placed
<1>14. NothingLeft'
  BY <1>0, <1>1, <1>11 DEF NothingLeft, InScope
<1>15. StackRight'
  <2> SUFFICES ASSUME ~raised.here
               PROVE  /\ Stacked(frames', "value", scope', saved, Shown')
                      /\ Stacked(frames', "binding", bindings, Unbound, Len(Open'))
    BY <1>11 DEF StackRight, Unbound
  <2>1. Shown = i - 1 /\ i - 1 \in Nat /\ (i - 1) + 1 = i /\ Shown' = i /\ Len(Open') = i
    BY <1>1, <1>2, <1>6, <1>10 DEF Shown
  <2>2. Stacked(frames, "value", scope, saved, i - 1) /\ Stacked(frames, "binding", bindings, Unbound, i)
    BY <1>0, <1>1, <2>1 DEF StackRight
  <2>3. SameTo(frames, frames', "value", i - 1) /\ SameTo(frames, frames', "binding", i)
    <3>1. \A j \in 1..(i - 1) : frames'[Len(frames)].open[j] = frames[Len(frames)].open[j]
      BY <1>2, <1>6, <1>7, <1>9 DEF Frame, Open
    <3>2. /\ frames'[Len(frames)].open[i].name = frames[Len(frames)].open[i].name
          /\ frames'[Len(frames)].open[i].binding = frames[Len(frames)].open[i].binding
      BY <1>2, <1>5, <1>6, <1>7, <1>9 DEF Frame, Open
    <3>3. \A j \in 1..i : j = i \/ j \in 1..(i - 1)
      BY <1>2
    <3>4. frames'[Len(frames)].set = frames[Len(frames)].set
      BY <1>2, <1>7, <1>9 DEF Frame
    <3> QED
      BY <1>9, <3>1, <3>2, <3>3, <3>4 DEF SameTo
  <2>4. Stacked(frames', "binding", bindings, Unbound, i)
    BY <1>0, <1>1, <1>2, <1>9, <2>2, <2>3, KeepStacked DEF StackTyped
  <2>5. /\ frames'[Len(frames')].open[(i - 1) + 1].name = n
        /\ frames'[Len(frames')].open[(i - 1) + 1]["value"] = scope[n]
        /\ frames'[Len(frames')].set = Frame.set
    BY <1>5, <1>6, <1>7, <1>9, <2>1
  <2>6. Stacked(frames', "value", [scope EXCEPT ![n] = Frame.set], saved, (i - 1) + 1)
    BY <1>0, <1>1, <1>4, <1>9, <2>1, <2>2, <2>3, <2>5, GiveStacked DEF StackTyped
  <2> QED
    BY <1>11, <2>1, <2>4, <2>6
<1> QED
  BY <1>12, <1>13, <1>14, <1>15 DEF StackInv

LEMMA SameToItself == ASSUME NEW fs, NEW f, NEW m PROVE SameTo(fs, fs, f, m)
  BY DEF SameTo

\* The last open variable.
LEMMA LastOpen ==
  ASSUME StackTyped, frames # <<>>, Open # <<>>
  PROVE  /\ Len(Open) \in Nat /\ Len(Open) >= 1 /\ Len(Open) \in 1..Len(Open)
         /\ Len(Open) - 1 \in Nat /\ (Len(Open) - 1) + 1 = Len(Open)
         /\ Open[Len(Open)].name \in Names /\ Open[Len(Open)].value \in Values
         /\ Open[Len(Open)].binding \in Values
<1>1. Open \in Seq(Entry)
  BY Innermost
<1>2. Len(Open) \in Nat /\ Len(Open) >= 1
  BY <1>1, LenProperties, EmptySeq
<1>3. Open[Len(Open)] \in Entry
  BY <1>1, <1>2, ElementOfSeq
<1> QED
  BY <1>2, <1>3 DEF Entry

LEMMA ResultEndsKeepsStack ==
  ASSUME StackInv, pc \in {"bind", "chained"}, ResultEnds PROVE StackInv'
<1>0. StackTyped /\ Placed /\ NothingLeft /\ StackRight
  BY DEF StackInv
<1>1. frames # <<>> /\ UNCHANGED <<frames, saved, bindings, raised>>
  BY <1>0 DEF ResultEnds, Unchanged, Placed
<1>2. /\ Depth \in Nat /\ Depth >= 1 /\ Depth = Len(frames)
      /\ Open \in Seq(Entry) /\ Len(Open) \in Nat /\ Open = frames[Len(frames)].open
  BY <1>0, <1>1, Innermost
<1>3. Open' = Open /\ Depth' = Depth /\ Frame' = Frame
  BY <1>1 DEF Open, Depth, Frame
<1>4. CASE Open = <<>>
  <2>1. scope' = scope /\ pc' = "ended"
    BY <1>4 DEF ResultEnds, ScopeAfter
  <2>2. Shown = Len(Open) /\ Shown' = Len(Open)
    BY <1>3, <2>1 DEF Shown
  <2> QED
    BY <1>0, <1>1, <1>3, <1>4, <2>1, <2>2
       DEF StackInv, StackTyped, Placed, NothingLeft, StackRight, InScope, Unbound
<1>5. CASE Open # <<>>
  <2> DEFINE n == Open[Len(Open)].name
  <2> DEFINE v == Open[Len(Open)].value
  <2>1. scope' = [scope EXCEPT ![n] = v] /\ pc' = "results"
    BY <1>5 DEF ResultEnds, ScopeAfter
  <2>2. Shown = Len(Open) /\ Shown' = Len(Open) - 1
    BY <1>3, <2>1 DEF Shown
  <2>3. n \in Names /\ v \in Values /\ Len(Open) - 1 \in Nat /\ (Len(Open) - 1) + 1 = Len(Open)
    BY <1>0, <1>1, <1>5, LastOpen
  <2>4. StackTyped'
    BY <1>0, <1>1, <2>1, <2>3 DEF StackTyped
  <2>5. Placed' /\ NothingLeft'
    BY <1>0, <1>1, <1>3, <1>5, <2>1 DEF Placed, NothingLeft, InScope
  <2>6. ASSUME ~raised.here PROVE Stacked(frames, "value", scope', saved, Len(Open) - 1)
    <3>1. Stacked(frames, "value", scope, saved, (Len(Open) - 1) + 1)
      BY <1>0, <1>1, <2>2, <2>3, <2>6 DEF StackRight
    <3>2. frames[Len(frames)].open[(Len(Open) - 1) + 1].name = n
          /\ frames[Len(frames)].open[(Len(Open) - 1) + 1]["value"] = v
      BY <1>2, <2>3
    <3>3. Stacked(frames, "value",
                  [scope EXCEPT ![n] = frames[Len(frames)].open[(Len(Open) - 1) + 1]["value"]],
                  saved, Len(Open) - 1)
      BY <1>0, <1>1, <2>3, <3>1, <3>2, SameToItself, TakeStacked DEF StackTyped
    <3> QED
      BY <2>1, <3>2, <3>3
  <2>7. StackRight'
    BY <1>0, <1>1, <1>3, <2>2, <2>6 DEF StackRight, Unbound
  <2> QED
    BY <2>4, <2>5, <2>7 DEF StackInv
<1> QED
  BY <1>4, <1>5

LEMMA VariableEndsKeepsStack == ASSUME StackInv, VariableEnds PROVE StackInv'
<1> DEFINE i == Len(Open)
<1> DEFINE before == SubSeq(Open, 1, i - 1)
<1> DEFINE fr == [Frame EXCEPT !.open = before]
<1>0. StackTyped /\ Placed /\ NothingLeft /\ StackRight
  BY DEF StackInv
<1>1. frames # <<>> /\ pc = "results" /\ Open # <<>> /\ UNCHANGED <<saved, raised>>
  BY <1>0 DEF VariableEnds, Unchanged, Placed
<1>2. /\ Depth \in Nat /\ Depth >= 1 /\ Depth = Len(frames)
      /\ Frame \in FrameType /\ Frame.set \in Sets
      /\ Open \in Seq(Entry) /\ Open = frames[Len(frames)].open
  BY <1>0, <1>1, Innermost
<1>3. i \in Nat /\ i >= 1 /\ i - 1 \in Nat /\ (i - 1) + 1 = i /\ i - 1 \in 0..i
      /\ Open[i].name \in Names /\ Open[i].binding \in Values
  BY <1>0, <1>1, LastOpen
<1>4. /\ before \in Seq(Entry) /\ Len(before) = i - 1
      /\ \A j \in 1..(i - 1) : before[j] = Open[j]
  <2>1. 1 \in 1..(i + 1) /\ i - 1 \in 0..Len(Open)
    BY <1>3
  <2> QED
    BY <1>2, <1>3, <2>1, SubSeqProperties
<1>5. fr \in FrameType /\ fr.open = before /\ fr.set = Frame.set
  BY <1>2, <1>4 DEF FrameType
<1>6. frames' = [frames EXCEPT ![Len(frames)] = fr]
  BY <1>2 DEF VariableEnds, Frame, Open
<1>7. /\ frames' \in Seq(FrameType) /\ Len(frames') = Len(frames) /\ frames'[Len(frames)] = fr
      /\ \A j \in 1..(Len(frames) - 1) : frames'[j] = frames[j]
  <2> HIDE DEF fr
  <2> QED
    BY <1>0, <1>1, <1>5, <1>6, ChangeFrame DEF StackTyped
<1>8. Depth' = Depth /\ Frame' = fr /\ Open' = before /\ frames' # <<>>
  BY <1>1, <1>2, <1>5, <1>7, EmptySeq DEF Depth, Frame, Open
<1>9. bindings' = [bindings EXCEPT ![Open[i].name] = Open[i].binding]
      /\ scope' = ScopeAfter(before)
      /\ pc' = IF before = <<>> THEN "ended" ELSE "results"
  BY DEF VariableEnds
<1>10. SameTo(frames, frames', "value", i - 1) /\ SameTo(frames, frames', "binding", i - 1)
  BY <1>2, <1>4, <1>5, <1>7 DEF SameTo, Frame
<1>11. ASSUME ~raised.here
       PROVE  Stacked(frames, "value", scope, saved, i - 1)
              /\ Stacked(frames, "binding", bindings, Unbound, i)
  BY <1>0, <1>1, <1>11 DEF StackRight, Shown
<1>12. ASSUME ~raised.here PROVE Stacked(frames', "binding", bindings', Unbound, i - 1)
  <2>1. /\ frames[Len(frames)].open[(i - 1) + 1].name = Open[i].name
        /\ frames[Len(frames)].open[(i - 1) + 1]["binding"] = Open[i].binding
    BY <1>2, <1>3
  <2>2. Stacked(frames, "binding", bindings, Unbound, (i - 1) + 1)
    BY <1>3, <1>11, <1>12
  <2>3. Stacked(frames', "binding",
                [bindings EXCEPT ![Open[i].name] = frames[Len(frames)].open[(i - 1) + 1]["binding"]],
                Unbound, i - 1)
    BY <1>0, <1>1, <1>3, <1>7, <1>10, <2>1, <2>2, TakeStacked DEF StackTyped
  <2> QED
    BY <1>9, <2>1, <2>3
<1>13. CASE before = <<>>
  <2>1. scope' = scope /\ pc' = "ended" /\ i - 1 = 0
    BY <1>4, <1>9, <1>13, EmptySeq DEF ScopeAfter
  <2>2. StackTyped'
    BY <1>0, <1>1, <1>3, <1>7, <1>9, <2>1 DEF StackTyped
  <2>3. Placed' /\ NothingLeft'
    BY <1>0, <1>1, <1>7, <1>8, <1>13, <2>1 DEF Placed, NothingLeft, InScope
  <2>4. ASSUME ~raised.here PROVE Stacked(frames', "value", scope', saved, i - 1)
    BY <1>0, <1>1, <1>3, <1>7, <1>10, <1>11, <2>1, <2>4, KeepStacked DEF StackTyped
  <2>5. StackRight'
    BY <1>1, <1>4, <1>8, <1>12, <2>1, <2>4 DEF StackRight, Shown, Unbound
  <2> QED
    BY <2>2, <2>3, <2>5 DEF StackInv
<1>14. CASE before # <<>>
  <2> DEFINE b == before[i - 1]
  <2>1. scope' = [scope EXCEPT ![b.name] = b.value] /\ pc' = "results"
    BY <1>4, <1>9, <1>14 DEF ScopeAfter
  <2>2. i - 1 >= 1 /\ i - 2 \in Nat /\ (i - 2) + 1 = i - 1
    BY <1>3, <1>4, <1>14, EmptySeq
  <2>3. b \in Entry /\ b = Open[i - 1]
    BY <1>3, <1>4, <2>2, ElementOfSeq
  <2>4. b.name \in Names /\ b.value \in Values
    BY <2>3 DEF Entry
  <2>5. StackTyped'
    BY <1>0, <1>1, <1>3, <1>7, <1>9, <2>1, <2>4 DEF StackTyped
  <2>6. Placed' /\ NothingLeft'
    BY <1>0, <1>1, <1>7, <1>8, <1>14, <2>1 DEF Placed, NothingLeft, InScope
  <2>7. ASSUME ~raised.here PROVE Stacked(frames', "value", scope', saved, i - 2)
    <3>1. /\ frames[Len(frames)].open[(i - 2) + 1].name = b.name
          /\ frames[Len(frames)].open[(i - 2) + 1]["value"] = b.value
      BY <1>2, <2>2, <2>3
    <3>2. Stacked(frames, "value", scope, saved, (i - 2) + 1)
      BY <1>11, <2>2, <2>7
    <3>3. SameTo(frames, frames', "value", i - 2)
      BY <1>3, <1>10 DEF SameTo
    <3>4. Stacked(frames', "value",
                  [scope EXCEPT ![b.name] = frames[Len(frames)].open[(i - 2) + 1]["value"]],
                  saved, i - 2)
      BY <1>0, <1>1, <1>7, <2>2, <2>4, <3>1, <3>2, <3>3, TakeStacked DEF StackTyped
    <3> QED
      BY <2>1, <3>1, <3>4
  <2>8. Shown' = i - 2 /\ Len(Open') = i - 1
    BY <1>3, <1>4, <1>8, <2>1 DEF Shown
  <2>9. StackRight'
    BY <1>1, <1>12, <2>7, <2>8 DEF StackRight, Unbound
  <2> QED
    BY <2>5, <2>6, <2>9 DEF StackInv
<1> QED
  BY <1>13, <1>14

\* The expression has been evaluated.
ToChained ==
    /\ frames' = [frames EXCEPT ![Depth].chained = 1]
    /\ pc' = "chained"
    /\ UNCHANGED <<scope, bindings, raised>> /\ Unchanged

LEMMA EvaluateKeepsStack == ASSUME StackInv, pc = "bind", ToChained PROVE StackInv'
<1> DEFINE fr == [Frame EXCEPT !.chained = 1]
<1>0. StackTyped /\ Placed /\ NothingLeft /\ StackRight
  BY DEF StackInv
<1>1. frames # <<>> /\ pc' = "chained" /\ UNCHANGED <<scope, bindings, saved, raised>>
  BY <1>0 DEF ToChained, Unchanged, Placed
<1>2. /\ Depth \in Nat /\ Depth >= 1 /\ Depth = Len(frames) /\ Frame \in FrameType
      /\ Open \in Seq(Entry) /\ Len(Open) \in Nat /\ Open = frames[Len(frames)].open
  BY <1>0, <1>1, Innermost
<1>3. fr \in FrameType /\ fr.open = Open /\ fr.set = Frame.set /\ fr.chained = 1
  BY <1>2 DEF FrameType, Open
<1>4. frames' = [frames EXCEPT ![Len(frames)] = fr]
  BY <1>2 DEF ToChained, Frame
<1>5. /\ frames' \in Seq(FrameType) /\ Len(frames') = Len(frames) /\ frames'[Len(frames)] = fr
      /\ \A j \in 1..(Len(frames) - 1) : frames'[j] = frames[j]
  <2> HIDE DEF fr
  <2> QED
    BY <1>0, <1>1, <1>3, <1>4, ChangeFrame DEF StackTyped
<1>6. Depth' = Depth /\ Frame' = fr /\ Open' = Open /\ frames' # <<>>
  BY <1>1, <1>2, <1>3, <1>5, EmptySeq DEF Depth, Frame, Open
<1>7. SameTo(frames, frames', "value", Len(Open)) /\ SameTo(frames, frames', "binding", Len(Open))
  BY <1>2, <1>3, <1>5 DEF SameTo, Frame
<1>8. StackTyped'
  BY <1>0, <1>1, <1>5 DEF StackTyped
<1>9. Placed' /\ NothingLeft'
  <2> HIDE DEF fr
  <2>1. frames'[Depth].chained = 1 /\ Frame'.chained = 1
    BY <1>2, <1>3, <1>5, <1>6
  <2>2. Placed'
    BY <1>0, <1>1, <1>5, <1>6, <2>1 DEF Placed
  <2>3. NothingLeft'
    BY <1>0, <1>1 DEF NothingLeft, InScope
  <2> QED
    BY <2>2, <2>3
<1>10. ASSUME ~raised.here
       PROVE  Stacked(frames', "value", scope, saved, Len(Open))
              /\ Stacked(frames', "binding", bindings, Unbound, Len(Open))
  <2>1. Stacked(frames, "value", scope, saved, Len(Open))
        /\ Stacked(frames, "binding", bindings, Unbound, Len(Open))
    BY <1>0, <1>1, <1>10 DEF StackRight, Shown
  <2> QED
    BY <1>0, <1>1, <1>2, <1>5, <1>7, <2>1, KeepStacked DEF StackTyped
<1>11. StackRight'
  BY <1>1, <1>6, <1>10 DEF StackRight, Shown, Unbound
<1> QED
  BY <1>8, <1>9, <1>11 DEF StackInv

LEMMA ChainedKeepsStack == ASSUME StackInv, EvaluateChained PROVE StackInv'
<1> DEFINE c == Chained[Frame.set][Frame.chained]
<1> DEFINE over == IF c.result = None THEN Nothing
                   ELSE [value |-> scope[c.result], binding |-> bindings[c.result]]
<1> DEFINE fr == [Frame EXCEPT !.over = over]
<1> DEFINE fs == [frames EXCEPT ![Len(frames)] = fr]
<1> DEFINE new == NewFrame(c.set)
<1>0. StackTyped /\ Placed /\ NothingLeft /\ StackRight
  BY DEF StackInv
<1>1. frames # <<>> /\ pc = "chained" /\ pc' = "bind" /\ UNCHANGED <<saved, raised>>
  BY <1>0 DEF EvaluateChained, Unchanged, Placed
<1>2. /\ Depth \in Nat /\ Depth >= 1 /\ Depth = Len(frames) /\ Depth \in 1..Len(frames)
      /\ Frame \in FrameType /\ Frame.set \in Sets /\ Frame = frames[Len(frames)]
      /\ Open \in Seq(Entry) /\ Len(Open) \in Nat /\ Open = frames[Len(frames)].open
  BY <1>0, <1>1, Innermost DEF Frame
<1>3. Frame.chained \in 1..Len(Chained[Frame.set]) /\ Frame.chained \in DOMAIN Chained[Frame.set]
      /\ c \in [set : Sets, result : Names \cup {None}]
  <2>1. Chained[Frame.set] \in Seq([set : Sets, result : Names \cup {None}]) /\ Frame.chained \in Nat
    BY <1>2, ConstantTypes DEF FrameType
  <2>2. Frame.chained \in 1..Len(Chained[Frame.set])
    BY <1>0, <1>1, <2>1, LenProperties DEF EvaluateChained, Placed
  <2> QED
    BY <2>1, <2>2, ElementOfSeq, LenProperties
<1>4. c.set \in Sets /\ c.result \in Names \cup {None} /\ None \notin Names
  BY <1>3, ConstantTypes
<1>5. over \in [value : Values, binding : Values]
  BY <1>0, <1>4, ConstantTypes DEF StackTyped, Nothing
<1>6. /\ fr \in FrameType /\ fr.open = Open /\ fr.set = Frame.set
      /\ fr.chained = Frame.chained /\ fr.over = over
  <2> HIDE DEF over, Values
  <2> QED
    BY <1>2, <1>5 DEF FrameType, Open
<1>7. frames' = Append(fs, new)
  BY <1>2 DEF EvaluateChained, Frame
<1>8. /\ fs \in Seq(FrameType) /\ Len(fs) = Len(frames) /\ fs[Len(frames)] = fr
      /\ \A j \in 1..(Len(frames) - 1) : fs[j] = frames[j]
  <2> HIDE DEF fr
  <2> QED
    BY <1>0, <1>1, <1>6, ChangeFrame DEF StackTyped
<1>9. new \in FrameType /\ new.open = <<>> /\ Len(new.open) = 0
  BY <1>4, NewFrameType
<1>10. /\ frames' \in Seq(FrameType) /\ Len(frames') = Len(frames) + 1
       /\ frames'[Len(frames) + 1] = new /\ frames'[Len(frames)] = fr
       /\ \A j \in 1..(Len(frames) - 1) : frames'[j] = frames[j]
  <2> HIDE DEF fs, new, fr
  <2>1. frames' \in Seq(FrameType) /\ Len(frames') = Len(fs) + 1 /\ frames'[Len(fs) + 1] = new
        /\ \A j \in 1..Len(fs) : frames'[j] = fs[j]
    BY <1>7, <1>8, <1>9, AppendProperties
  <2> QED
    BY <1>2, <1>8, <2>1
<1> HIDE DEF fs, fr, over, new, c
<1>11. Depth' = Len(frames) + 1 /\ Frame' = new /\ Open' = <<>> /\ Len(Open') = 0 /\ frames' # <<>>
  BY <1>2, <1>9, <1>10, EmptySeq DEF Depth, Frame, Open
<1>12. IF c.result = None THEN UNCHANGED <<scope, bindings>>
       ELSE /\ scope' = [scope EXCEPT ![c.result] = Frame.set]
            /\ bindings' = [bindings EXCEPT ![c.result] = Frame.set]
  BY DEF EvaluateChained, c
<1>13. StackTyped'
  BY <1>0, <1>1, <1>2, <1>4, <1>10, <1>12, ConstantTypes DEF StackTyped
<1>14. Placed'
  <2>1. ASSUME NEW k \in 1..(Len(frames') - 1)
        PROVE  frames'[k].chained \in DOMAIN Chained[frames'[k].set]
    <3>1. CASE k = Len(frames)
      BY <1>3, <1>6, <1>10, <3>1
    <3>2. CASE k # Len(frames)
      <4>1. k \in 1..(Len(frames) - 1)
        BY <1>2, <1>10, <3>2
      <4> QED
        BY <1>0, <1>10, <4>1 DEF Placed
    <3> QED
      BY <3>1, <3>2
  <2> QED
    BY <1>1, <1>11, <2>1 DEF Placed
<1>15. NothingLeft'
  <2> SUFFICES ASSUME ~raised.ever PROVE ~raised.here /\ saved = InScope
    BY <1>1 DEF NothingLeft, InScope
  <2> QED
    BY <1>0 DEF NothingLeft
<1>16. Result(frames', Len(frames)) = c.result
  BY <1>2, <1>6, <1>10 DEF Result, c
<1>17. ASSUME NEW f \in Fields, NEW env \in [Names -> Values], NEW env2, NEW base,
              Stacked(frames, f, env, base, Len(Open)),
              c.result # None => over[f] = env[c.result] /\ env2 = [env EXCEPT ![c.result] = Frame.set],
              c.result = None => env2 = env
       PROVE  Stacked(frames', f, env2, base, 0)
  <2>1. frames \in Seq(FrameType) /\ Len(Open) = Len(frames[Len(frames)].open)
    BY <1>0, <1>2 DEF StackTyped
  <2>2. /\ frames'[Len(frames)].set = frames[Len(frames)].set
        /\ frames'[Len(frames)].open = frames[Len(frames)].open
        /\ frames'[Len(frames)].over = over
    BY <1>2, <1>6, <1>10
  <2>3. c.result # None => /\ c.result \in Names /\ frames'[Len(frames)].over[f] = env[c.result]
                           /\ env2 = [env EXCEPT ![c.result] = frames[Len(frames)].set]
    BY <1>2, <1>4, <1>17, <2>2
  <2>4. \A j \in 1..(Len(frames) - 1) : frames'[j] = frames[j]
    BY <1>10
  <2>5. Result(frames', Len(frames)) # None =>
           /\ Result(frames', Len(frames)) \in Names
           /\ frames'[Len(frames)].over[f] = env[Result(frames', Len(frames))]
           /\ env2 = [env EXCEPT ![Result(frames', Len(frames))] = frames[Len(frames)].set]
    BY <1>16, <2>3
  <2>6. Result(frames', Len(frames)) = None => env2 = env
    BY <1>16, <1>17
  <2> QED
    BY <1>1, <1>2, <1>4, <1>10, <1>17, <2>1, <2>2, <2>4, <2>5, <2>6, PushStacked
<1>18. StackRight'
  <2> SUFFICES ASSUME ~raised.here
               PROVE  /\ Stacked(frames', "value", scope', saved, 0)
                      /\ Stacked(frames', "binding", bindings', Unbound, 0)
    BY <1>1, <1>11 DEF StackRight, Shown, Unbound
  <2>1. /\ Stacked(frames, "value", scope, saved, Len(Open))
        /\ Stacked(frames, "binding", bindings, Unbound, Len(Open))
    BY <1>0, <1>1 DEF StackRight, Shown
  <2>2. c.result # None => over["value"] = scope[c.result] /\ over["binding"] = bindings[c.result]
    BY DEF over
  <2>3. scope \in [Names -> Values] /\ bindings \in [Names -> Values]
    BY <1>0 DEF StackTyped
  <2>4. Stacked(frames', "value", scope', saved, 0)
    BY <1>12, <1>17, <2>1, <2>2, <2>3 DEF Fields
  <2>5. Stacked(frames', "binding", bindings', Unbound, 0)
    BY <1>12, <1>17, <2>1, <2>2, <2>3 DEF Fields
  <2> QED
    BY <2>4, <2>5
<1> QED
  BY <1>13, <1>14, <1>15, <1>18 DEF StackInv

\* evaluate returns for a chained set: the frames without its own.
Popped == frames' = [SubSeq(frames, 1, Depth - 1) EXCEPT ![Depth - 1].chained = @ + 1]

LEMMA PoppedFrames ==
  ASSUME StackTyped, Depth > 1, Popped
  PROVE  /\ frames' \in Seq(FrameType) /\ Len(frames') = Len(frames) - 1 /\ Len(frames) \in Nat
         /\ frames[Depth - 1] \in FrameType
         /\ frames'[Depth - 1] = [frames[Depth - 1] EXCEPT !.chained = @ + 1]
         /\ frames'[Depth - 1] \in FrameType
         /\ frames'[Depth - 1].set = frames[Depth - 1].set
         /\ frames'[Depth - 1].open = frames[Depth - 1].open
         /\ frames'[Depth - 1].chained = frames[Depth - 1].chained + 1
         /\ frames[Depth - 1].chained \in Nat
         /\ \A j \in 1..(Len(frames) - 2) : frames'[j] = frames[j]
<1> DEFINE fs == SubSeq(frames, 1, Depth - 1)
<1> DEFINE fr == [frames[Depth - 1] EXCEPT !.chained = @ + 1]
<1>1. Depth = Len(frames) /\ Len(frames) \in Nat /\ Depth - 1 \in 1..Len(frames) /\ Depth - 1 \in 0..Len(frames)
  BY LenProperties DEF StackTyped, Depth
<1>2. fs \in Seq(FrameType) /\ Len(fs) = Depth - 1 /\ \A j \in 1..(Depth - 1) : fs[j] = frames[j]
  <2>1. 1 \in 1..(Len(frames) + 1)
    BY <1>1
  <2> QED
    BY <1>1, <2>1, SubSeqProperties DEF StackTyped
<1>3. frames[Depth - 1] \in FrameType
  BY <1>1, ElementOfSeq DEF StackTyped
<1>4. /\ fr \in FrameType /\ fr.set = frames[Depth - 1].set /\ fr.open = frames[Depth - 1].open
      /\ fr.chained = frames[Depth - 1].chained + 1 /\ frames[Depth - 1].chained \in Nat
  BY <1>3 DEF FrameType
<1>5. frames' = [fs EXCEPT ![Len(fs)] = fr] /\ fs # <<>>
  <2>1. frames' = [fs EXCEPT ![Depth - 1].chained = @ + 1]
    BY DEF Popped
  <2> HIDE DEF fs
  <2>2. frames' = [fs EXCEPT ![Depth - 1] = [fs[Depth - 1] EXCEPT !.chained = @ + 1]]
    BY <2>1
  <2>3. fs[Depth - 1] = frames[Depth - 1]
    BY <1>1, <1>2
  <2>4. frames' = [fs EXCEPT ![Depth - 1] = fr]
    BY <2>2, <2>3
  <2> QED
    BY <1>1, <1>2, <2>4, EmptySeq
<1>6. /\ frames' \in Seq(FrameType) /\ Len(frames') = Len(fs) /\ frames'[Len(fs)] = fr
      /\ \A j \in 1..(Len(fs) - 1) : frames'[j] = fs[j]
  <2> HIDE DEF fr, fs
  <2> QED
    BY <1>2, <1>4, <1>5, ChangeFrame
<1> HIDE DEF fs
<1>7. \A j \in 1..(Len(frames) - 2) : frames'[j] = frames[j]
  BY <1>1, <1>2, <1>6
<1> QED
  BY <1>1, <1>2, <1>3, <1>4, <1>6, <1>7

\* evaluate ends, whether it was the outermost one or not.
LEMMA ReturnTyped ==
  ASSUME StackTyped, Placed, frames # <<>>, EvaluateReturns(scope, bindings),
         raised' \in [here : BOOLEAN, ever : BOOLEAN]
  PROVE  /\ StackTyped' /\ Placed' /\ UNCHANGED saved
         /\ Depth = 1 => pc' = "next" /\ scope' = scope /\ frames' = <<>>
         /\ Depth > 1 => pc' = "chained" /\ Popped /\ frames' # <<>>
                         /\ Depth' = Depth - 1 /\ Open' = frames[Depth - 1].open
<1>1. Depth \in Nat /\ Depth >= 1 /\ Depth = Len(frames)
  BY Innermost
<1>2. CASE Depth = 1
  <2>1. pc' = "next" /\ scope' = scope /\ bindings' = Unbound /\ frames' = <<>> /\ saved' = saved
    BY <1>2 DEF EvaluateReturns
  <2>2. StackTyped'
    BY <2>1, ConstantTypes, EmptySeq DEF StackTyped
  <2>3. Placed'
    BY <2>1, EmptySeq DEF Placed
  <2> QED
    BY <1>2, <2>1, <2>2, <2>3
<1>3. CASE Depth > 1
  <2> DEFINE outer == frames[Depth - 1]
  <2> DEFINE n == Chained[outer.set][outer.chained].result
  <2>1. Popped /\ pc' = "chained" /\ saved' = saved
    BY <1>1, <1>3 DEF EvaluateReturns, Popped, Unchanged
  <2>2. /\ scope' = IF n = None THEN scope ELSE [scope EXCEPT ![n] = outer.over.value]
        /\ bindings' = IF n = None THEN bindings ELSE [bindings EXCEPT ![n] = outer.over.binding]
    BY <1>1, <1>3 DEF EvaluateReturns
  <2>3. /\ frames' \in Seq(FrameType) /\ Len(frames') = Len(frames) - 1
        /\ outer \in FrameType
        /\ frames'[Depth - 1].set = outer.set /\ frames'[Depth - 1].open = outer.open
        /\ frames'[Depth - 1].chained = outer.chained + 1 /\ outer.chained \in Nat
        /\ \A j \in 1..(Len(frames) - 2) : frames'[j] = frames[j]
    BY <1>3, <2>1, PoppedFrames
  <2>4. outer.over.value \in Values /\ outer.over.binding \in Values
    BY <2>3 DEF FrameType
  <2>5. frames' # <<>> /\ Depth' = Depth - 1 /\ Frame' = frames'[Depth - 1] /\ Open' = outer.open
    BY <1>1, <1>3, <2>3, EmptySeq DEF Depth, Frame, Open
  <2>6. StackTyped'
    <3>1. scope' \in [Names -> Values] /\ bindings' \in [Names -> Values]
      <4> HIDE DEF Values, n, outer
      <4> QED
        BY <2>2, <2>4 DEF StackTyped
    <3> QED
      BY <2>1, <2>3, <3>1 DEF StackTyped
  <2>7. Placed'
    <3>1. Frame'.chained >= 1
      BY <2>3, <2>5
    <3>2. \A k \in 1..(Len(frames') - 1) : frames'[k].chained \in DOMAIN Chained[frames'[k].set]
      BY <1>1, <1>3, <2>3 DEF Placed
    <3> QED
      BY <2>1, <2>5, <3>1, <3>2 DEF Placed
  <2> QED
    BY <1>3, <2>1, <2>5, <2>6, <2>7
<1> QED
  BY <1>1, <1>2, <1>3

LEMMA RaiseKeepsStack == ASSUME StackInv, Raise PROVE StackInv'
<1>1. frames # <<>> /\ StackTyped /\ Placed /\ raised' = [here |-> TRUE, ever |-> TRUE]
  BY DEF StackInv, Raise, Placed
<1>2. StackTyped' /\ Placed'
  BY <1>1, ReturnTyped DEF Raise
<1>3. NothingLeft' /\ StackRight'
  BY <1>1 DEF NothingLeft, StackRight
<1> QED
  BY <1>2, <1>3 DEF StackInv

LEMMA ReturnKeepsStack == ASSUME StackInv, Return PROVE StackInv'
<1>0. StackTyped /\ Placed /\ NothingLeft /\ StackRight
  BY DEF StackInv
<1>1. pc = "ended" /\ frames # <<>> /\ Open = <<>> /\ UNCHANGED raised /\ EvaluateReturns(scope, bindings)
  BY <1>0 DEF Return, Placed
<1>2. /\ StackTyped' /\ Placed' /\ UNCHANGED saved
      /\ Depth = 1 => pc' = "next" /\ scope' = scope /\ frames' = <<>>
      /\ Depth > 1 => pc' = "chained" /\ Popped /\ frames' # <<>>
                      /\ Depth' = Depth - 1 /\ Open' = frames[Depth - 1].open
  BY <1>0, <1>1, ReturnTyped DEF StackTyped
<1>3. Depth \in Nat /\ Depth >= 1 /\ Depth = Len(frames) /\ Len(Open) = 0 /\ Shown = 0
  BY <1>0, <1>1, Innermost, EmptySeq DEF Shown
<1>4. CASE Depth = 1
  <2>1. NothingLeft'
    <3> SUFFICES ASSUME ~raised.ever
                 PROVE  ~raised.here /\ saved = InScope /\ scope = InScope
      BY <1>1, <1>2, <1>4 DEF NothingLeft, InScope
    <3>1. ~raised.here /\ saved = InScope
      BY <1>0 DEF NothingLeft
    <3>2. Stacked(frames, "value", scope, saved, 0)
      BY <1>0, <1>1, <1>3, <3>1 DEF StackRight
    <3>3. \A n \in Names : scope[n] = saved[n]
      <4> SUFFICES ASSUME NEW n \in Names PROVE scope[n] = saved[n]
        OBVIOUS
      <4>1. IsValue(frames, saved, 1, 0, n, scope[n])
        BY <1>3, <1>4, <3>2 DEF Stacked
      <4>2. ~HasName(frames, 1, 0, n) /\ 1..(1-1) = {}
        BY DEF HasName
      <4>3. IsOuter(frames, saved, 1, n, scope[n])
        BY <4>1, <4>2 DEF IsValue
      <4> QED
        BY <4>2, <4>3 DEF IsOuter
    <3>4. scope = saved
      BY <1>0, <3>3 DEF StackTyped
    <3> QED
      BY <3>1, <3>4
  <2>2. StackRight'
    BY <1>2, <1>4 DEF StackRight
  <2> QED
    BY <1>2, <2>1, <2>2 DEF StackInv
<1>5. CASE Depth > 1
  <2> DEFINE outer == frames[Depth - 1]
  <2> DEFINE r == Result(frames, Depth - 1)
  <2>1. /\ scope' = IF r = None THEN scope ELSE [scope EXCEPT ![r] = outer.over.value]
        /\ bindings' = IF r = None THEN bindings ELSE [bindings EXCEPT ![r] = outer.over.binding]
    BY <1>1, <1>3, <1>5 DEF EvaluateReturns, Result
  <2>2. /\ frames' \in Seq(FrameType) /\ Len(frames') = Len(frames) - 1
        /\ outer \in FrameType
        /\ frames'[Depth - 1].set = outer.set /\ frames'[Depth - 1].open = outer.open
        /\ \A j \in 1..(Len(frames) - 2) : frames'[j] = frames[j]
    BY <1>0, <1>2, <1>5, PoppedFrames
  <2>3. r \in Names \cup {None} /\ None \notin Names
    <3>1. Depth - 1 \in 1..(Len(frames) - 1)
      BY <1>3, <1>5
    <3>2. outer.chained \in DOMAIN Chained[outer.set]
      BY <1>0, <3>1 DEF Placed
    <3>3. Chained[outer.set] \in Seq([set : Sets, result : Names \cup {None}])
      BY <2>2, ConstantTypes DEF FrameType
    <3>4. Chained[outer.set][outer.chained] \in [set : Sets, result : Names \cup {None}]
      BY <3>2, <3>3, ElementOfSeq, LenProperties
    <3> QED
      BY <3>4, ConstantTypes DEF Result
  <2>4. ASSUME NEW f \in Fields, NEW env \in [Names -> Values], NEW new, NEW base,
               Stacked(frames, f, env, base, 0),
               r # None => new = [env EXCEPT ![r] = outer.over[f]], r = None => new = env
        PROVE  Stacked(frames', f, new, base, Len(Open'))
    <3>1. frames \in Seq(FrameType) /\ Len(frames') = Depth - 1
      BY <1>0, <1>3, <2>2 DEF StackTyped
    <3>2. /\ Result(frames, Len(frames')) # None =>
               /\ Result(frames, Len(frames')) \in Names
               /\ new = [env EXCEPT ![Result(frames, Len(frames'))] = frames[Len(frames')].over[f]]
          /\ Result(frames, Len(frames')) = None => new = env
      BY <2>3, <2>4, <3>1
    <3>3. Stacked(frames', f, new, base, Len(frames'[Len(frames')].open))
      <4> HIDE DEF r, outer
      <4>1. /\ frames'[Len(frames')].set = frames[Len(frames')].set
            /\ frames'[Len(frames')].open = frames[Len(frames')].open
        BY <2>2, <3>1 DEF outer
      <4>2. Len(frames) > 1 /\ Len(frames') = Len(frames) - 1
        BY <1>3, <1>5, <2>2
      <4> QED
        BY <2>2, <2>3, <2>4, <3>1, <3>2, <4>1, <4>2, PopStacked
    <3>4. Len(frames'[Len(frames')].open) = Len(Open')
      BY <1>2, <1>5, <2>2, <3>1
    <3> QED
      BY <3>3, <3>4
  <2>5. StackRight'
    <3> SUFFICES ASSUME ~raised.here
                 PROVE  /\ Stacked(frames', "value", scope', saved, Len(Open'))
                        /\ Stacked(frames', "binding", bindings', Unbound, Len(Open'))
      BY <1>1, <1>2, <1>5 DEF StackRight, Shown, Unbound
    <3>1. /\ Stacked(frames, "value", scope, saved, 0)
          /\ Stacked(frames, "binding", bindings, Unbound, 0)
      BY <1>0, <1>1, <1>3 DEF StackRight
    <3>2. scope \in [Names -> Values] /\ bindings \in [Names -> Values]
      BY <1>0 DEF StackTyped
    <3> HIDE DEF r, outer
    <3>3. Stacked(frames', "value", scope', saved, Len(Open'))
      BY <2>1, <2>4, <3>1, <3>2 DEF Fields
    <3>4. Stacked(frames', "binding", bindings', Unbound, Len(Open'))
      BY <2>1, <2>4, <3>1, <3>2 DEF Fields
    <3> QED
      BY <3>3, <3>4
  <2>6. NothingLeft'
    BY <1>0, <1>1, <1>2, <1>5 DEF NothingLeft, InScope
  <2> QED
    BY <1>2, <2>5, <2>6 DEF StackInv
<1> QED
  BY <1>3, <1>4, <1>5

-----------------------------------------------------------------------------
(* The steps of the report *)

LEMMA StartKeepsStack == ASSUME StackInv, TimerInv, StartSet PROVE StackInv'
<1> DEFINE new == NewFrame(TopSets[at + 1])
<1>0. StackTyped /\ Placed /\ NothingLeft
  BY DEF StackInv
<1>1. pc = "next" /\ pc' = "bind" /\ frames' = <<new>> /\ saved' = scope /\ scope' = scope
      /\ bindings' = Unbound /\ raised' = [raised EXCEPT !.here = FALSE]
  BY DEF StartSet
<1>2. TopSets[at + 1] \in Sets
  <2>1. at + 1 \in 1..Len(TopSets)
    BY TimersAre DEF StartSet, TimerInv, TimersTyped
  <2> QED
    BY <2>1, FormulaAssumption, ElementOfSeq
<1>3. new \in FrameType /\ new.open = <<>> /\ Len(new.open) = 0
  BY <1>2, NewFrameType
<1> HIDE DEF new
<1>4. /\ frames' \in Seq(FrameType) /\ Len(frames') = 1 /\ frames'[1] = new /\ frames' # <<>>
      /\ Depth' = 1 /\ Open' = <<>> /\ Len(Open') = 0 /\ Frame' = new
  BY <1>1, <1>3 DEF Depth, Frame, Open
<1>5. StackTyped'
  BY <1>0, <1>1, <1>4, ConstantTypes DEF StackTyped
<1>6. Placed'
  BY <1>1, <1>4 DEF Placed
<1>7. NothingLeft'
  BY <1>0, <1>1 DEF NothingLeft, StackTyped, InScope
<1>8. ASSUME NEW f, NEW env, NEW base, base = env PROVE Stacked(frames', f, env, base, 0)
  BY <1>4, <1>8 DEF Stacked, IsValue, IsOuter, HasName, OpenOf
<1>9. StackRight'
  BY <1>1, <1>4, <1>8 DEF StackRight, Shown, Unbound
<1> QED
  BY <1>5, <1>6, <1>7, <1>9 DEF StackInv

LEMMA NothingOpenKeepsStack ==
  ASSUME StackInv, pc' \in {"next", "done"}, frames' = <<>>, UNCHANGED <<saved, raised>>,
         scope' \in {scope, saved}, bindings' \in {bindings, Unbound},
         pc' = "next" => scope' = saved
  PROVE  StackInv'
<1>0. StackTyped /\ NothingLeft
  BY DEF StackInv
<1>1. StackTyped'
  BY <1>0, ConstantTypes, EmptySeq DEF StackTyped
<1>2. Placed' /\ StackRight'
  BY EmptySeq DEF Placed, StackRight
<1>3. NothingLeft'
  BY <1>0 DEF NothingLeft, InScope
<1> QED
  BY <1>1, <1>2, <1>3 DEF StackInv

LEMMA TimeoutKeepsStack == ASSUME StackInv, SetTimesOut \/ ReportTimesOut PROVE StackInv'
<1>1. CASE SetTimesOut
  BY <1>1, NothingOpenKeepsStack DEF SetTimesOut, LeaveSet
<1>2. CASE ReportTimesOut
  BY <1>2, NothingOpenKeepsStack DEF ReportTimesOut, LeaveSet
<1> QED
  BY <1>1, <1>2

LEMMA SameStack ==
  ASSUME StackInv, UNCHANGED <<pc, frames, scope, bindings, saved, raised>> PROVE StackInv'
<1>1. StackTyped' /\ Placed' /\ NothingLeft'
  BY DEF StackInv, StackTyped, Placed, NothingLeft, Open, Frame, Depth, InScope
<1>2. Shown' = Shown /\ Open' = Open /\ Unbound' = Unbound
  BY DEF Shown, Open, Frame, Depth, Unbound
<1>3. StackRight'
  BY <1>2 DEF StackInv, StackRight
<1> QED
  BY <1>1, <1>3 DEF StackInv

LEMMA StackInvStep == StackInv /\ TimerInv /\ [Next]_vars => StackInv'
<1> SUFFICES ASSUME StackInv, TimerInv, [Next]_vars PROVE StackInv'
  OBVIOUS
<1>1. CASE UNCHANGED vars
  BY <1>1, SameStack DEF vars
<1>2. CASE \E t \in Timers : Elapse(t) \/ Callback(t)
  BY <1>2, SameStack DEF Elapse, Callback
<1>3. CASE StartSet
  BY <1>3, StartKeepsStack
<1>4. CASE FinishReport
  <2>1. frames = <<>> /\ pc' = "done" /\ UNCHANGED <<frames, saved, raised, scope, bindings>>
    BY <1>4 DEF FinishReport, StackInv, Placed
  <2> QED
    BY <2>1, NothingOpenKeepsStack
<1>5. CASE NextResult
  <2>1. pc = "results" /\ Open[Len(Open)].left > 0 /\ Polled(GivesResult)
    BY <1>5 DEF NextResult, GivesResult
  <2> QED
    BY <2>1, TimeoutKeepsStack, NextResultKeepsStack DEF Polled
<1>6. CASE PassOver
  <2>1. pc = "bind"
    BY <1>6 DEF PassOver, AllBound
  <2> QED
    BY <1>6, <2>1, TimeoutKeepsStack, ResultEndsKeepsStack DEF PassOver, Polled
<1>7. CASE Evaluate
  <2>1. pc = "bind" /\ (ReportTimesOut \/ ToChained)
    BY <1>7 DEF Evaluate, AllBound, ToChained
  <2> QED
    BY <2>1, TimeoutKeepsStack, EvaluateKeepsStack
<1>8. CASE EvaluationEnds
  BY <1>8, ResultEndsKeepsStack DEF EvaluationEnds
<1>9. CASE Bind \/ VariableEnds \/ EvaluateChained \/ Return \/ Raise
  BY <1>9, BindKeepsStack, VariableEndsKeepsStack, ChainedKeepsStack, ReturnKeepsStack,
     RaiseKeepsStack
<1> QED
  BY <1>1, <1>2, <1>3, <1>4, <1>5, <1>6, <1>7, <1>8, <1>9 DEF Next

-----------------------------------------------------------------------------
(* What the expressions see *)

LEMMA GiverIs ==
  ASSUME NEW n, NEW k \in Givers(n), \A j \in Givers(n) : j <= k
  PROVE  Giver(n) = frames[k].set
<1> DEFINE Last(x) == x \in Givers(n) /\ \A j \in Givers(n) : j <= x
<1>1. Last(k)
  OBVIOUS
<1>2. \A x : Last(x) => x = k
  BY DEF Givers
<1> QED
  BY <1>1, <1>2 DEF Giver

LEMMA ValueOfGiver ==
  ASSUME NEW n, NEW v, NEW base, frames # <<>>, Len(frames) \in Nat,
         IsValue(frames, base, Len(frames), Len(frames[Len(frames)].open), n, v)
  PROVE  IF Givers(n) # {} THEN v = Giver(n) ELSE v = base[n]
<1> DEFINE d == Len(frames)
<1>1. \A k \in 1..d : Gives(k, n) <=> GivenBy(frames, k, n)
  BY DEF Gives, GivenBy, HasName, Result
<1>2. Givers(n) = {k \in 1..d : GivenBy(frames, k, n)}
  BY <1>1 DEF Givers
<1>3. CASE HasName(frames, d, Len(frames[d].open), n) /\ v = frames[d].set /\ d >= 1
  <2>1. d \in Givers(n) /\ \A j \in Givers(n) : j <= d
    BY <1>2, <1>3 DEF GivenBy
  <2> QED
    BY <1>3, <2>1, GiverIs
<1>4. CASE ~HasName(frames, d, Len(frames[d].open), n) /\ IsOuter(frames, base, d, n, v)
  <2>1. d \notin Givers(n)
    BY <1>2, <1>4 DEF GivenBy
  <2>2. CASE \E j \in 1..(d-1) : /\ GivenBy(frames, j, n) /\ v = frames[j].set
                                 /\ \A l \in (j+1)..(d-1) : ~GivenBy(frames, l, n)
    <3>1. PICK j \in 1..(d-1) : /\ GivenBy(frames, j, n) /\ v = frames[j].set
                                /\ \A l \in (j+1)..(d-1) : ~GivenBy(frames, l, n)
      BY <2>2
    <3>2. j \in Givers(n)
      BY <1>2, <3>1
    <3>3. \A l \in Givers(n) : l <= j
      BY <1>2, <2>1, <3>1
    <3> QED
      BY <3>1, <3>2, <3>3, GiverIs
  <2>3. CASE v = base[n] /\ \A j \in 1..(d-1) : ~GivenBy(frames, j, n)
    <3>1. Givers(n) = {}
      BY <1>2, <2>1, <2>3
    <3> QED
      BY <2>3, <3>1
  <2> QED
    BY <1>4, <2>2, <2>3 DEF IsOuter
<1>5. d >= 1
  BY <1>3, <1>4, EmptySeq
<1> QED
  BY <1>3, <1>4, <1>5 DEF IsValue

LEMMA ScopeFromStack == StackInv => ScopeRight
<1> SUFFICES ASSUME StackInv, pc \in {"bind", "next"}, NEW n \in Names
             PROVE  IF Givers(n) # {}
                    THEN raised.here \/ (scope[n] = Giver(n) /\ bindings[n] = Giver(n))
                    ELSE /\ raised.ever \/ scope[n] = InScope[n]
                         /\ raised.here \/ pc = "next" \/ bindings[n] = None
  BY DEF ScopeRight
<1>0. StackTyped /\ Placed /\ NothingLeft /\ StackRight
  BY DEF StackInv
<1>1. CASE pc = "next"
  <2>1. Givers(n) = {}
    BY <1>0, <1>1, EmptySeq DEF Placed, Givers
  <2>2. raised.ever \/ scope[n] = InScope[n]
    BY <1>0, <1>1 DEF NothingLeft
  <2> QED
    BY <1>1, <2>1, <2>2
<1>2. CASE pc = "bind" /\ raised.here
  <2>1. raised.ever
    BY <1>0, <1>2 DEF NothingLeft
  <2> QED
    BY <1>2, <2>1
<1>3. CASE pc = "bind" /\ ~raised.here
  <2>1. frames # <<>> /\ Shown = Len(Open)
    BY <1>0, <1>3 DEF Placed, Shown
  <2>2. Len(frames) \in Nat /\ Len(frames) >= 1 /\ Open = frames[Len(frames)].open
    BY <1>0, <2>1, Innermost
  <2>3. /\ IsValue(frames, saved, Len(frames), Len(frames[Len(frames)].open), n, scope[n])
        /\ IsValue(frames, Unbound, Len(frames), Len(frames[Len(frames)].open), n, bindings[n])
    BY <1>0, <1>3, <2>1, <2>2 DEF StackRight, Stacked
  <2>4. /\ IF Givers(n) # {} THEN scope[n] = Giver(n) ELSE scope[n] = saved[n]
        /\ IF Givers(n) # {} THEN bindings[n] = Giver(n) ELSE bindings[n] = Unbound[n]
    BY <2>1, <2>2, <2>3, ValueOfGiver
  <2>5. Unbound[n] = None /\ (raised.ever \/ saved[n] = InScope[n])
    BY <1>0 DEF NothingLeft, Unbound
  <2> QED
    BY <2>4, <2>5
<1> QED
  BY <1>1, <1>2, <1>3

\* An expression sees the values of its own variables, of the variables and results of the
\* sets around it, and else the parameters, however the variables are named alike and
\* whatever sets timed out before; what an XPathException leaves behind is left out.
THEOREM ScopeIsRight == Spec => []ScopeRight
<1>1. Init => StackInv /\ TimerInv
  BY StackInvInit, TimerInvInit
<1>2. (StackInv /\ TimerInv) /\ [Next]_vars => (StackInv /\ TimerInv)'
  BY StackInvStep, TimerInvStep
<1> QED
  BY <1>1, <1>2, ScopeFromStack, PTL DEF Spec
=============================================================================
