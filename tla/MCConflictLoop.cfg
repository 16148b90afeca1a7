SPECIFICATION Spec
CONSTANTS
    Inputs <- MCInputs
    Domain <- MCDomain
INVARIANTS
    TypeOK
    OwnersAreTheAccepted
    OwnersHoldAll
    AllDecided
    RejectedDoNotMatter
    YoungestDoesNotMatter
PROPERTY
    PromiseKept
CHECK_DEADLOCK FALSE
