SPECIFICATION Spec
CONSTANTS
    Names = {1}
    Times = {1}
    Specs <- Contested
    Unrenderable = {}
    CorefileTexts <- WiredOnly
    EntryTexts <- NoEntries
    ClusterDomain <- MCDomain
    Absent = Absent
    NoKey = NoKey
    Garbage = Garbage
    NoStatus = NoStatus
    NoRequest = NoRequest
    NamesReused = FALSE
    Relists = {}
    MaxEdits = 1
    MaxFaults = 1
INVARIANTS
    StatusAtRest
CHECK_DEADLOCK FALSE
