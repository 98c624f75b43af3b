----------------------------- MODULE Calculations -----------------------------
(***************************************************************************)
(* The checks of calculation relationships (arelle/ValidateXbrlCalcs.py): one *)
(* total and its contributing items in one link role, with the facts of each   *)
(* in one context and unit.  Calculations 1.0 rounds and adds single facts,    *)
(* Calculations 1.1 adds the intervals that the facts of a concept stand for.  *)
(*                                                                         *)
(* Left out: facts in tuples, which facts share a context and unit, decimals   *)
(* inferred from a precision, the mode that infers precisions, and the checks  *)
(* of essence-alias and requires-element relationships.                      *)
(***************************************************************************)
EXTENDS Integers, SequencesExt

CONSTANTS
    Infinite, \* decimals of an exact value, greater than any other
    Unit      \* other decimals -> what one unit of the last digit is worth, an even number

\* A calculation is [total |-> facts, items |-> for each item its facts, weights |-> for
\* each item].
IsFact(f) ==
    /\ f.kind \in {"value", "nan", "nil"} /\ f.value \in Int
    /\ f.decimals \in DOMAIN Unit \cup {Infinite}

------------------------------------------------------------------------------
\* Rounded values and intervals

\* decimalRound, ROUND_HALF_EVEN
RoundTo(v, u) ==
    LET q == v \div u
        rest == 2 * (v % u)
    IN  u * (IF rest > u \/ (rest = u /\ q % 2 = 1) THEN q + 1 ELSE q)

\* roundFact inferring decimals; roundValue
Round(v, decimals) == IF decimals = Infinite THEN v ELSE RoundTo(v, Unit[decimals])

\* insignificantDigits
ExcessDigits(f) == f.decimals # Infinite /\ f.value % Unit[f.decimals] # 0

\* Bounds, and whether they belong to the interval.
Interval(a, b, inclA, inclB) == [a |-> a, b |-> b, inclA |-> inclA, inclB |-> inclB]

\* rangeValue, rounded to nearest or truncated
RangeValue(f, truncate) ==
    LET v == f.value
        u == Unit[f.decimals]
    IN  CASE f.decimals = Infinite    -> Interval(v, v, TRUE, TRUE)
          [] f.decimals # Infinite /\ ~truncate -> Interval(v - u \div 2, v + u \div 2, TRUE, TRUE)
          [] f.decimals # Infinite /\ truncate /\ v > 0 -> Interval(v, v + u, TRUE, FALSE)
          [] f.decimals # Infinite /\ truncate /\ v < 0 -> Interval(v - u, v, FALSE, TRUE)
          [] f.decimals # Infinite /\ truncate /\ v = 0 -> Interval(v - u, v + u, FALSE, FALSE)

IsEmpty(r) == (r.a = r.b /\ ~(r.inclA /\ r.inclB)) \/ r.a > r.b

------------------------------------------------------------------------------
\* Calculations 1.1

\* The loop of consistentFactValueInterval: NaN ends it; of facts with the same
\* decimals the first counts (that another one differs is noted and forgotten); a
\* bound that is replaced leaves behind that it belonged to the interval.
Narrow(s, f, truncate) ==
    LET r == RangeValue(f, truncate)
        lower == s.decimals = {} \/ r.a >= s.range.a
        upper == s.decimals = {} \/ r.b <= s.range.b
    IN  CASE s.ended \/ f.kind = "nan" -> [s EXCEPT !.ended = TRUE]
          [] ~s.ended /\ f.kind = "value" /\ ExcessDigits(f) -> [s EXCEPT !.excess = TRUE]
          [] ~s.ended /\ f.kind = "value" /\ ~ExcessDigits(f) ->
               IF f.decimals \in s.decimals THEN s
               ELSE [s EXCEPT
                       !.decimals = @ \cup {f.decimals},
                       !.range = Interval(IF lower THEN r.a ELSE @.a, IF upper THEN r.b ELSE @.b,
                                          @.inclA \/ (lower /\ r.inclA),
                                          @.inclB \/ (upper /\ r.inclB))]
NotNarrowed == [decimals |-> {}, range |-> Interval(0, 0, FALSE, FALSE), excess |-> FALSE,
                ended |-> FALSE]

\* What the facts of a concept come to: nothing, an interval, or no consistent value.
Nothing == [is |-> "nothing"]
Inconsistent == [is |-> "inconsistent"]
Range11(r) == [is |-> "interval", range |-> r]

Narrowed(fs, truncate) ==
    LET s[n \in 0..Len(fs)] == IF n = 0 THEN NotNarrowed ELSE Narrow(s[n - 1], fs[n], truncate)
    IN  s[Len(fs)]

ConsistentFactValueInterval(fs, truncate) ==
    LET s == Narrowed(fs, truncate)
    IN  CASE \A f \in Range(fs) : f.kind = "nil" -> Nothing
          [] \E f, g \in Range(fs) : f.kind = "nil" /\ g.kind # "nil" -> Inconsistent
          [] fs # <<>> /\ \A f \in Range(fs) : f.kind # "nil" ->
               IF s.excess \/ IsEmpty(s.range) THEN Inconsistent ELSE Range11(s.range)

\* Mutant of Weighted: the bounds of a negative item are not exchanged.
WeightedInPlace(r, w) == Interval(r.a * w, r.b * w, r.inclA, r.inclB)

\* A contribution; exchanged bounds keep the other one's place in the interval.
Weighted(r, w) ==
    IF w < 0 THEN Interval(r.b * w, r.a * w, r.inclA, r.inclB)
    ELSE Interval(r.a * w, r.b * w, r.inclA, r.inclB)

Plus(r, s) == Interval(r.a + s.a, r.b + s.b, r.inclA /\ s.inclA, r.inclB /\ s.inclB)
Zero == Interval(0, 0, TRUE, TRUE)

\* The sum of the intervals of those of n items that have one.
SumOfRanges(n, ranges) ==
    LET sum[k \in 0..n] == IF k = 0 THEN Zero
                           ELSE IF k \in DOMAIN ranges THEN Plus(sum[k - 1], ranges[k])
                           ELSE sum[k - 1]
    IN  sum[n]

Larger(x, y) == IF x > y THEN x ELSE y
Smaller(x, y) == IF x < y THEN x ELSE y

\* The comparison of a total with its items, if there are facts of both: a bound of
\* either that belongs to its interval counts for both.
Compare11(total, items) ==
    Interval(Larger(total.a, items.a), Smaller(total.b, items.b),
             total.inclA \/ items.inclA, total.inclB \/ items.inclB)

\* The items that have facts.
Items(c) == {k \in DOMAIN c.items : c.items[k] # <<>>}

Validate11(c, truncate) ==
    LET Found(fs) == ConsistentFactValueInterval(fs, truncate)
        total == Found(c.total)
        found == [k \in DOMAIN c.items |-> Found(c.items[k])]
        added == {k \in Items(c) : found[k].is = "interval"}
        sum == SumOfRanges(Len(c.items), [k \in added |-> Weighted(found[k].range, c.weights[k])])
    IN  IF total.is = "nothing" \/ Items(c) = {} THEN "not bound"
        ELSE IF total.is = "inconsistent" \/ \E k \in DOMAIN found : found[k].is = "inconsistent"
        THEN "blocked"
        ELSE IF added = {} THEN "not bound"
        ELSE IF IsEmpty(Compare11(total.range, sum)) THEN "inconsistent"
        ELSE "consistent"

------------------------------------------------------------------------------
\* Calculations 1.0

\* Two facts are consistent duplicates if they are the same with the fewer decimals.
SameRounded(f, g) ==
    LET d == Smaller(f.decimals, g.decimals)
    IN  f.kind = "value" /\ g.kind = "value" /\ Round(f.value, d) = Round(g.value, d)

\* bindFacts, the i-th fact of a concept: with de-duplication the more precise one of
\* two consistent duplicates is kept; others are duplicates, as all are without.
BindFact(fs, s, i, deDuplicate) ==
    CASE fs[i].kind = "nil" -> s
      [] fs[i].kind # "nil" /\ s.kept = 0 -> [s EXCEPT !.kept = i]
      [] OTHER ->
           IF deDuplicate /\ SameRounded(fs[i], fs[s.kept])
           THEN IF fs[i].decimals > fs[s.kept].decimals
                THEN [s EXCEPT !.kept = i, !.consistent = @ \cup {s.kept}]
                ELSE [s EXCEPT !.consistent = @ \cup {i}]
           ELSE [s EXCEPT !.duplicated = @ \cup {i, s.kept}]

NotBound == [kept |-> 0, duplicated |-> {}, consistent |-> {}]

BindFacts(fs, deDuplicate) ==
    LET s[n \in 0..Len(fs)] == IF n = 0 THEN NotBound ELSE BindFact(fs, s[n - 1], n, deDuplicate)
    IN  s[Len(fs)]

\* What the facts of a concept come to: duplicates, or the one fact that is kept.
Facts10(fs, deDuplicate) ==
    LET s == BindFacts(fs, deDuplicate)
    IN  CASE s.duplicated # {} -> Inconsistent
          [] s.duplicated = {} /\ s.kept = 0 -> Nothing
          [] s.duplicated = {} /\ s.kept # 0 -> [is |-> "fact", fact |-> fs[s.kept]]

\* The sum of the numbers of those of n items that have one.
SumOfNumbers(n, numbers) ==
    LET sum[k \in 0..n] == IF k = 0 THEN 0
                           ELSE IF k \in DOMAIN numbers THEN sum[k - 1] + numbers[k]
                           ELSE sum[k - 1]
    IN  sum[n]

\* A total is compared with the sum of the rounded items in its own decimals, unless
\* there are duplicates; without de-duplication a total is not also reported as nil.
\* A comparison with NaN fails.
Validate10(c, deDuplicate) ==
    LET total == Facts10(c.total, deDuplicate)
        found == [k \in DOMAIN c.items |-> Facts10(c.items[k], deDuplicate)]
        added == {k \in Items(c) : found[k].is = "fact"}
        RoundFact(f) == Round(f.value, f.decimals)
        sum == SumOfNumbers(Len(c.items), [k \in added |-> RoundFact(found[k].fact) * c.weights[k]])
        NaN == \E f \in {total.fact} \cup {found[k].fact : k \in added} : f.kind = "nan"
    IN  IF \/ total.is # "fact" \/ added = {} \/ (Len(c.total) > 1 /\ ~deDuplicate)
           \/ \E k \in DOMAIN found : found[k].is = "inconsistent"
        THEN "not bound"
        ELSE IF NaN \/ Round(sum, total.fact.decimals) # RoundFact(total.fact) THEN "inconsistent"
        ELSE "consistent"

------------------------------------------------------------------------------
\* Calculations 1.1 by the definition: a value that a fact may stand for, all facts of
\* a concept at once, and sums of such values.

Reported(fs) == {f \in Range(fs) : f.kind # "nil"}

\* The values that are in all of some intervals, and multiples of those in an interval.
Common(rs) ==
    LET a == CHOOSE x \in {r.a : r \in rs} : \A r \in rs : r.a <= x
        b == CHOOSE x \in {r.b : r \in rs} : \A r \in rs : x <= r.b
    IN  Interval(a, b, \A r \in rs : r.a = a => r.inclA, \A r \in rs : r.b = b => r.inclB)
Multiplied(r, w) ==
    IF w < 0 THEN Interval(r.b * w, r.a * w, r.inclB, r.inclA)
    ELSE Interval(r.a * w, r.b * w, r.inclA, r.inclB)

Meaning11(fs, truncate) ==
    LET rs == {RangeValue(f, truncate) : f \in Range(fs)}
    IN  CASE Reported(fs) = {} -> Nothing
          [] Reported(fs) # {} ->
               IF \/ \E f \in Range(fs) : f.kind # "value" \/ ExcessDigits(f)
                  \/ \E f, g \in Range(fs) : f.decimals = g.decimals /\ f.value # g.value
                  \/ IsEmpty(Common(rs))
               THEN Inconsistent ELSE Range11(Common(rs))

Sum11(c, truncate) ==
    LET Contribution(k) == Multiplied(Meaning11(c.items[k], truncate).range, c.weights[k])
        added == {k \in DOMAIN c.items : Reported(c.items[k]) # {}}
    IN  SumOfRanges(Len(c.items), [k \in added |-> Contribution(k)])

Definition11(c, truncate) ==
    LET total == Meaning11(c.total, truncate)
    IN  IF Reported(c.total) = {} \/ Items(c) = {} THEN "not bound"
        ELSE IF total.is = "inconsistent"
                \/ \E k \in DOMAIN c.items : Meaning11(c.items[k], truncate).is = "inconsistent"
        THEN "blocked"
        ELSE IF \A k \in DOMAIN c.items : Reported(c.items[k]) = {} THEN "not bound"
        ELSE IF IsEmpty(Common({total.range, Sum11(c, truncate)})) THEN "inconsistent"
        ELSE "consistent"

\* Intervals that touch in a bound that does not belong to both.
Touch(r, s) == \/ r.a = s.b /\ ~(r.inclA /\ s.inclB)
               \/ s.a = r.b /\ ~(s.inclA /\ r.inclB)

\* The facts of a concept that the code takes for what they are: NaN is not after
\* others, values of the same decimals are the same, intervals do not just touch.
Plain(fs, truncate) ==
    /\ \A i \in 2..Len(fs) : fs[i].kind # "nan"
    /\ \A f, g \in {h \in Range(fs) : h.kind = "value"} :
         /\ f.decimals = g.decimals => f.value = g.value
         /\ f # g => ~Touch(RangeValue(f, truncate), RangeValue(g, truncate))

\* A total and a sum that meet in one bound only: it may not belong to both, or be that of
\* a negative contribution, of which the code has forgotten whether it belongs to it.
Meet(r, s, negative) == Touch(r, s) \/ (negative /\ (r.a = s.b \/ s.a = r.b))

\* Calculations 1.1: the verdict is right, except for sets that are not plain, and with
\* truncation where the total and the sum meet in one bound only.
Verdict11Right(c, truncate) ==
    LET right == Definition11(c, truncate)
        negative == \E k \in DOMAIN c.items : c.weights[k] < 0 /\ c.items[k] # <<>>
    IN  \/ Validate11(c, truncate) = right
        \/ \E fs \in {c.total} \cup Range(c.items) : ~Plain(fs, truncate)
        \/ /\ truncate /\ right \in {"consistent", "inconsistent"}
           /\ Meet(Meaning11(c.total, truncate).range, Sum11(c, truncate), negative)

------------------------------------------------------------------------------
\* Calculations 1.0 with de-duplication by the definition: the most precise fact of each
\* concept.

MostPrecise(fs) ==
    CHOOSE f \in Reported(fs) : \A g \in Reported(fs) : g.decimals <= f.decimals

Definition10(c) ==
    LET RoundFact(f) == Round(f.value, f.decimals)
        total == MostPrecise(c.total)
        added == {k \in DOMAIN c.items : Reported(c.items[k]) # {}}
        sum == SumOfNumbers(Len(c.items),
                            [k \in added |-> RoundFact(MostPrecise(c.items[k])) * c.weights[k]])
        NaN == \E fs \in {c.total} \cup Range(c.items) : \E f \in Reported(fs) : f.kind = "nan"
    IN  IF Reported(c.total) = {} \/ added = {} THEN "not bound"
        ELSE IF NaN \/ Round(sum, total.decimals) # RoundFact(total)
        THEN "inconsistent" ELSE "consistent"

\* The facts of a concept that are not nil, by position, and whether each agrees with
\* another one, or with all others.  Rounding twice is not rounding once: to agree is
\* not transitive.
Values(fs) == {i \in DOMAIN fs : fs[i].kind # "nil"}
Agree(fs) ==
    \A i \in Values(fs) :
        Values(fs) # {i} => \E j \in Values(fs) \ {i} : SameRounded(fs[i], fs[j])
AllAgree(fs) == \A i, j \in Values(fs) : i # j => SameRounded(fs[i], fs[j])
Single(fs) == \A i, j \in Values(fs) : i = j

\* Calculations 1.0: with de-duplication a verdict is that of the most precise facts, no
\* fact disagrees with all others, and there is a verdict if all agree, whatever their
\* order; without de-duplication there is one if there are no duplicates.
Verdict10Right(c) ==
    LET FactSets == {c.total} \cup Range(c.items)
        deDuplicated == Validate10(c, TRUE)
    IN  /\ deDuplicated # "not bound" =>
             deDuplicated = Definition10(c) /\ \A fs \in FactSets : Agree(fs)
        /\ (\A fs \in FactSets : AllAgree(fs)) => deDuplicated = Definition10(c)
        /\ Validate10(c, FALSE) =
             IF (\A fs \in FactSets : Single(fs)) /\ Len(c.total) = 1 THEN Definition10(c) ELSE "not bound"
=============================================================================
