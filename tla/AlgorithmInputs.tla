---------------------------- MODULE AlgorithmInputs ----------------------------
(***************************************************************************)
(* Inputs of the algorithms about duplicate facts, arcs and calculations: an   *)
(* input grows by one fact or arc at a time, and the properties compare what  *)
(* the code answers with what the definitions say.                           *)
(***************************************************************************)
EXTENDS Integers, Sequences

CONSTANTS
    NoDecimals, HalfWidth,               \* of DuplicateFacts
    Ends, Customs, NoRel, UsingKey,      \* of Relationships
    Infinite, Unit,                      \* of Calculations
    NumericFacts, OtherFacts,            \* facts of a set of duplicates
    ArcEnds, Priorities,                 \* of an arc: the ends of its relationships
    CalculationFacts, Weights,           \* of a calculation: the weights of its items
    MaxFacts, MaxArcs, MaxCalculationFacts \* bounds: of an input

VARIABLE input

D == INSTANCE DuplicateFacts
R == INSTANCE Relationships
C == INSTANCE Calculations

Rels == [arc : 1..MaxArcs, ends : Ends, custom : Customs, priority : Priorities,
         prohibited : BOOLEAN]

ASSUME FactsAssumption ==
    /\ DOMAIN HalfWidth \subseteq Int /\ NoDecimals \notin DOMAIN HalfWidth
    /\ \A n \in DOMAIN HalfWidth : HalfWidth[n] \in Nat
    /\ \A f \in NumericFacts : D!IsFact(f, TRUE)
    /\ \A f \in OtherFacts : D!IsFact(f, FALSE)

ASSUME ArcsAssumption ==
    /\ MaxArcs \in Nat /\ Priorities \subseteq Int
    /\ \A ends \in ArcEnds : ends \in Seq(Ends)
    /\ NoRel # UsingKey /\ NoRel \notin Rels /\ UsingKey \notin Rels

\* Weights are whole numbers; that one is not zero is validated (ValidateXbrl, zeroWeight).
ASSUME CalculationAssumption ==
    /\ DOMAIN Unit \subseteq Int /\ Infinite \in Int
    /\ \A n \in DOMAIN Unit : n < Infinite /\ Unit[n] \in Nat \ {0} /\ Unit[n] % 2 = 0
    /\ \A f \in CalculationFacts : C!IsFact(f)
    /\ \A w \in Weights : w \in Seq(Int \ {0})

-----------------------------------------------------------------------------
FactSets == [about : {"facts"}, numeric : BOOLEAN, facts : {<<>>}]

AddFact ==
    /\ input.about = "facts"
    /\ Len(input.facts) < MaxFacts
    /\ \E f \in IF input.numeric THEN NumericFacts ELSE OtherFacts :
          input' = [input EXCEPT !.facts = Append(@, f)]

\* A warning is given when the set has duplicates of the type that was asked for
\* (DuplicateFactSet.areAnyConsistent and the others), and what remains of a set that is
\* deduplicated is what the user guide says (getDeduplicatedFacts).
DuplicatesRight ==
    input.about = "facts" =>
        /\ Len(input.facts) > 1 => D!WarningsRight(input)
        /\ input.facts # <<>> => D!DeduplicationRight(input)

-----------------------------------------------------------------------------
ArcSets == [about : {"arcs"}, rels : {<<>>}, arcs : {0}, again : {FALSE}]

\* An arc has a relationship for each pair of locators with its labels.
AddArc ==
    /\ input.about = "arcs" /\ ~input.again
    /\ input.arcs < MaxArcs
    /\ \E ends \in ArcEnds, custom \in Customs, priority \in Priorities, prohibited \in BOOLEAN :
          input' = [input EXCEPT
              !.arcs = @ + 1,
              !.rels = @ \o R!RelationshipsOf(input.arcs + 1, ends, custom, priority, prohibited)]

\* The link is under several roles of the base set: its arcs are collected again.
CollectAgain ==
    /\ input.about = "arcs" /\ ~input.again
    /\ input.arcs > 0
    /\ input' = [input EXCEPT !.rels = @ \o @, !.again = TRUE]

\* The relationship set has the effective relationships (ModelRelationshipSet), and
\* the report of arcs without effect agrees with it (ineffectiveArcs).
RelationshipsRight ==
    input.about = "arcs" => R!NetworkRight(input.rels) /\ R!ReportAgrees(input.rels)

-----------------------------------------------------------------------------
CalculationSets ==
    {[about |-> "calculation", total |-> <<>>, items |-> [k \in DOMAIN w |-> <<>>],
      weights |-> w, facts |-> 0] : w \in Weights}

AddCalculationFact ==
    /\ input.about = "calculation"
    /\ input.facts < MaxCalculationFacts
    /\ \E f \in CalculationFacts :
          \/ input' = [input EXCEPT !.facts = @ + 1, !.total = Append(@, f)]
          \/ \E k \in DOMAIN input.items :
                input' = [input EXCEPT !.facts = @ + 1, !.items[k] = Append(@, f)]

\* The verdicts on a total, of Calculations 1.0 and of 1.1 with values rounded to nearest
\* and truncated (ValidateXbrlCalcs.validate).
CalculationsRight ==
    input.about = "calculation" =>
        /\ C!Verdict10Right(input)
        /\ \A truncate \in BOOLEAN : C!Verdict11Right(input, truncate)
=============================================================================
