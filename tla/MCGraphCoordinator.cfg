SPECIFICATION FairSpec
CONSTANTS
    NumOps = 6
    Plans <- MCPlans
    Slots = 2
    CanFail = TRUE
INVARIANTS
    FirstFailureWins
    NoPreemption
    TraceInOrder
    NothingSurvives
    EffectsInOrder
    ProvisionalIsPrivate
PROPERTY
    RunEnds
