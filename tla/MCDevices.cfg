SPECIFICATION FairSpec
CONSTANTS
    Users <- MCUsers
    Plans <- MCPlans
    Capacity = 1
    MaxCalls <- MCMaxCalls
    MaxLosses = 1
INVARIANTS
    Settled
    EffectsKnown
PROPERTY OperationsEnd
