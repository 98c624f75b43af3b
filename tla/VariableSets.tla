----------------------------- MODULE VariableSets -----------------------------
(***************************************************************************)
(* How the fact variables of a formula or assertion are bound                 *)
(* (arelle/formula/FormulaEvaluator.py): variable after variable takes the     *)
(* facts that its filters leave, that match in the uncovered aspects the facts *)
(* bound so far, alone or as a sequence, and then its fallback value; an       *)
(* evaluation that says no more than an earlier one is passed over.            *)
(*                                                                         *)
(* A variable has one filter, for a concept, which covers that aspect, and     *)
(* may cover others.  Left out: general variables and parameters, filters that *)
(* refer to other variables, tuples, several instances, preconditions, and the *)
(* caches of filtered facts and of comparisons.                              *)
(***************************************************************************)
EXTENDS Integers, SequencesExt

CONSTANTS
    Dims,     \* dimensions
    None      \* no member of a dimension; no fact

\* A fact is [concept, period, dims : Dims -> a member or None].  A variable set is
\* [facts |-> of the instance, vars |-> variables in order, default |-> Dims -> a member
\* or None, implicit |-> whether it filters implicitly]; a variable is
\* [concept, covered, fallback, sequence, matches].  A fact is known by its place.

\* aspectModels; dimensions are aspects of their own
Model == {"concept", "period"}
Aspects == Model \cup Dims

\* context.dimAspects: dimensions that are reported or have a default
DimAspects(vs, f) == {d \in Dims : vs.facts[f].dims[d] # None \/ vs.default[d] # None}

\* context.dimValue, and the value of any other aspect
Value(vs, f, a) ==
    IF a \in Dims
    THEN IF vs.facts[f].dims[a] # None THEN vs.facts[f].dims[a] ELSE vs.default[a]
    ELSE vs.facts[f][a]

\* aspectsMatch: no fact matches nothing
AspectsMatch(vs, f, g, as) ==
    f = g \/ \A a \in as : f # None /\ Value(vs, f, a) = Value(vs, g, a)

------------------------------------------------------------------------------
\* Binding of a fact variable

\* The facts that the filters leave, and the aspects that the variable then has.
Filtered(vs, v) ==
    SelectSeq([f \in DOMAIN vs.facts |-> f], LAMBDA f : vs.facts[f].concept = v.concept)
Defined(vs, v) == Model \cup UNION {DimAspects(vs, f) : f \in Range(Filtered(vs, v))}
Covered(v) == v.covered \cup {"concept"}

\* implicitFilter: every aspect that is not covered is compared with the fact that is
\* remembered for it; an aspect that no variable has had yet matches nothing.
ImplicitFilter(vs, v, uncovered) ==
    LET Remembered(a) == IF a \in DOMAIN uncovered THEN uncovered[a] ELSE None
        aspects == {a \in (Defined(vs, v) \cup DOMAIN uncovered) \ Covered(v) :
                        a \in DOMAIN uncovered => uncovered[a] # None}
    IN  SelectSeq(Filtered(vs, v),
                  LAMBDA f : \A a \in aspects : AspectsMatch(vs, Remembered(a), f, {a}))

\* A binding is [var, bound |-> the facts, or None if it has fallen back].
Fallen(b) == b.bound = None

\* A third or later variable that has facts does without its fallback if the variables
\* before it have aspects as many as its own, or fewer of the same.
NoFallbackNeeded(vs, v, facts, bindings) ==
    /\ facts # <<>>
    /\ Len(bindings) > 1
    /\ \A b \in Range(bindings) :
          LET n == Cardinality(Defined(vs, b.var))
          IN  \/ n = Cardinality(Defined(vs, v))
              \/ n < Cardinality(Defined(vs, v)) /\ Defined(vs, b.var) \subseteq Defined(vs, v)

\* bindFactVariable: the facts, and whether there is a fallback.
BindFactVariable(vs, v, bindings, uncovered) ==
    LET filters == vs.implicit /\ \E b \in Range(bindings) : ~Fallen(b)
        facts == IF filters THEN ImplicitFilter(vs, v, uncovered) ELSE Filtered(vs, v)
    IN  [facts |-> facts,
         fallback |-> v.fallback /\ ~(filters /\ NoFallbackNeeded(vs, v, facts, bindings))]

\* factsPartitions, and the groups of matchesSubPartitions: a fact joins the first group
\* whose first fact it matches.
Partitions(vs, facts, as) ==
    FoldLeft(LAMBDA ps, f :
                 LET k == SelectInSeq(ps, LAMBDA p : AspectsMatch(vs, f, p[1], as))
                 IN  IF k = 0 THEN Append(ps, <<f>>) ELSE [ps EXCEPT ![k] = Append(@, f)],
             <<>>, facts)

\* itertools.product
Product(ss) ==
    FoldLeft(LAMBDA ts, s : FlattenSeq([i \in DOMAIN ts |-> [j \in DOMAIN s |-> Append(ts[i], s[j])]]),
             << <<>> >>, ss)

\* evaluationResults: sequences of facts, or facts one by one.
Results(vs, v, facts) ==
    LET SubPartitions(p) == IF v.matches THEN <<p>> ELSE Product(Partitions(vs, p, Defined(vs, v)))
        ps == Partitions(vs, facts, Defined(vs, v) \ Covered(v))
    IN  IF v.sequence THEN FlattenSeq([i \in DOMAIN ps |-> SubPartitions(ps[i])])
        ELSE [i \in DOMAIN facts |-> <<facts[i]>>]

\* Mutant of Remember: an aspect that a variable has covered stays so for all others.
RememberFirst(vs, v, bound, uncovered) ==
    [a \in DOMAIN uncovered \cup Defined(vs, v) \cup Covered(v) |->
        IF a \in DOMAIN uncovered THEN uncovered[a]
        ELSE IF a \in Covered(v) THEN None ELSE bound[1]]

\* The fact of each aspect that the next variables must match: the first one that has
\* the aspect and does not cover it.
Remember(vs, v, bound, uncovered) ==
    LET own == Defined(vs, v) \cup Covered(v)
    IN  [a \in DOMAIN uncovered \cup own |->
            IF a \in own /\ (a \notin DOMAIN uncovered \/ uncovered[a] = None)
            THEN IF a \in Covered(v) THEN None ELSE bound[1]
            ELSE uncovered[a]]

------------------------------------------------------------------------------
\* Evaluations

\* evaluationIsUnnecessary: by the index of earlier evaluations, the ones that have the
\* facts of those variables whose facts are known from earlier evaluations.
EvaluationIsUnnecessary(e, others) ==
    LET bound == {i \in DOMAIN e : e[i] # None}
        With(i) == {k \in DOMAIN others : others[k][i] = e[i]}
        known == {i \in bound : With(i) # {}}
        matching == {k \in DOMAIN others : \A i \in known : k \in With(i)}
    IN  /\ others # <<>>
        /\ \/ bound = {}
           \/ known = bound /\ \E k \in matching : \A i \in bound : others[k][i] = e[i]

\* evaluateVariableBindings
EvaluateVariableBindings(bindings, evaluations) ==
    LET e == [i \in DOMAIN bindings |-> bindings[i].bound]
    IN  IF bindings # <<>> /\ \A b \in Range(bindings) : Fallen(b) THEN evaluations
        ELSE IF EvaluationIsUnnecessary(e, evaluations) THEN evaluations
        ELSE Append(evaluations, e)

\* evaluateVar and bindVariables: the evaluations after those of the variables that
\* follow the ones that are bound.
RECURSIVE EvaluateVar(_, _, _, _)
EvaluateVar(vs, bindings, uncovered, evaluations) ==
    IF Len(bindings) = Len(vs.vars) THEN EvaluateVariableBindings(bindings, evaluations)
    ELSE LET v == vs.vars[Len(bindings) + 1]
             vb == BindFactVariable(vs, v, bindings, uncovered)
             Go(bound, es) ==
                 EvaluateVar(vs, Append(bindings, [var |-> v, bound |-> bound]),
                             IF bound = None THEN uncovered ELSE Remember(vs, v, bound, uncovered),
                             es)
             results == Results(vs, v, vb.facts) \o (IF vb.fallback THEN <<None>> ELSE <<>>)
         IN  FoldLeft(LAMBDA es, bound : Go(bound, es), evaluations, results)

Evaluations(vs) == EvaluateVar(vs, <<>>, << >>, <<>>)

------------------------------------------------------------------------------
\* What evaluations are, whatever the order of variables and facts

Bound(e) == {i \in DOMAIN e : e[i] # None}

\* A dimension that another variable covers is forgotten between a variable that does
\* not have it and a later one that has.
Forgotten(vs, i, j) ==
    {d \in Dims : d \notin Defined(vs, vs.vars[i]) /\ \E k \in 1..j : d \in Covered(vs.vars[k])}

\* Facts of two variables match in all aspects that neither covers, the facts of a
\* sequence in all that the variable does not cover.
Matching(vs, e) ==
    \A i, j \in Bound(e) :
        i = j \/ (vs.implicit /\ i < j) =>
            \A f \in Range(e[i]), g \in Range(e[j]) :
                AspectsMatch(vs, f, g, Aspects \ (Covered(vs.vars[i]) \cup Covered(vs.vars[j])
                                                  \cup Forgotten(vs, i, j)))

\* A sequence has no two facts that match in every aspect, unless it may.
NoMatches(vs, e) ==
    \A i \in Bound(e) :
        vs.vars[i].sequence /\ ~vs.vars[i].matches =>
            \A f, g \in Range(e[i]) : f # g => ~AspectsMatch(vs, f, g, Aspects)

\* An evaluation that has all facts of another one.
Within(d, e) == \A i \in Bound(d) : e[i] = d[i]

\* All bindings of single facts that match, with a fallback where no fact would do.
Candidates(vs) ==
    LET Ways(v) == {<<f>> : f \in Range(Filtered(vs, v))} \cup (IF v.fallback THEN {None} ELSE {})
        All == UNION {Ways(vs.vars[i]) : i \in DOMAIN vs.vars}
    IN  {e \in [DOMAIN vs.vars -> All] :
            /\ \A i \in DOMAIN e : e[i] \in Ways(vs.vars[i])
            /\ Bound(e) # {}
            /\ Matching(vs, e)}
Best(es) == {e \in es : \A d \in es : Within(e, d) => d = e}

\* A dimension that a variable has, does not cover, and no variable before it is sure to
\* have or cover.
Unmatched(vs) ==
    \E j \in DOMAIN vs.vars \ {1} :
        \E d \in Defined(vs, vs.vars[j]) \ Covered(vs.vars[j]) :
            \A i \in 1..(j - 1) :
                vs.vars[i].fallback \/ d \notin Defined(vs, vs.vars[i]) \cup Covered(vs.vars[i])

\* The evaluations are sound, none is within another one, and they are all there are
\* of single facts.
EvaluationsRight(vs) ==
    LET es == Evaluations(vs)
        single == \A i \in DOMAIN vs.vars : ~vs.vars[i].sequence
    IN  /\ \A e \in Range(es) : Matching(vs, e) /\ NoMatches(vs, e)
        /\ \A i, j \in DOMAIN es : Within(es[i], es[j]) => i = j
        /\ single /\ ~(vs.implicit /\ Unmatched(vs))
             => Range(es) = Best(Candidates(vs))
=============================================================================
