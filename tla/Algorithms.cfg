SPECIFICATION AlgorithmsSpec
CONSTANTS
    NoDecimals = NoDecimals
    NoRel = NoRel
    UsingKey = UsingKey
    HalfWidth <- MCHalfWidth
    NumericFacts <- MCNumericFacts
    OtherFacts <- MCOtherFacts
    Ends = {"e", "f"}
    Customs = {"x", "y"}
    ArcEnds <- MCArcEnds
    Priorities = {0, 1, 2}
    Infinite = 99
    Unit <- MCUnit
    CalculationFacts <- MCCalculationFacts
    Weights <- MCWeights
    NoConcept = NoConcept
    NoFact = NoFact
    MaxFacts = 3
    MaxArcs = 3
    MaxChildren = 4
    MaxCalculationFacts = 4
    MaxMemberArcs = 3
    MaxVariablesAndFacts = 6
    Names = {"p", "x", "y", "r"}
    Sets = {"s1", "s2", "c1", "c2"}
    TopSets <- MCTopSets
    Variables <- MCVariables
    Chained <- MCChained
    Parameters = {"p"}
    MaxResults = 2
    None = None
INVARIANTS
    DuplicatesRight
    RelationshipsRight
    ParticlesRight
    CalculationsRight
    DimensionsRight
    EvaluationsRight
    ScopeRight
    TimeoutHasCause
\* The inputs are bounded.
CHECK_DEADLOCK FALSE
