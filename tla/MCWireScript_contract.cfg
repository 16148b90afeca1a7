SPECIFICATION Spec
CONSTANTS
    Scripts = {s1, s2}
    Corefiles <- Plain
    Deployments <- AllOrNothing
    UserLines <- Log
    Tuning = {s2}
    PoliteUsers = TRUE
    MaxStarts = 2
    MaxEdits = 1
INVARIANTS
    TypeOK
    ContractWhenDone
    WiredOnce
PROPERTIES
    Idempotent
    RestUntouched
CHECK_DEADLOCK FALSE
