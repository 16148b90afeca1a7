SPECIFICATION Spec
CONSTANTS
    Scripts = {s1, s2}
    Corefiles <- Plain
    Deployments <- AllOrNothing
    UserLines <- Log
    Tuning = {}
    PoliteUsers = FALSE
    MaxStarts = 1
    MaxEdits = 1
PROPERTIES
    RestUntouched
CHECK_DEADLOCK FALSE
