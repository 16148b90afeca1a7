SPECIFICATION Spec
CONSTANTS
    Scripts = {s1, s2}
    Corefiles <- OnlyInBlock
    Deployments <- Stray
    UserLines <- Log
    Tuning = {}
    PoliteUsers = TRUE
    MaxStarts = 1
    MaxEdits = 1
INVARIANTS
    ContractWhenDone
CHECK_DEADLOCK FALSE
