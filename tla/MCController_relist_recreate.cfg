SPECIFICATION Spec
CONSTANTS
    Names = {1}
    Times = {1}
    Specs <- Overlapping
    Unrenderable = {}
    CorefileTexts <- WiredOnly
    EntryTexts <- NoEntries
    ClusterDomain <- MCDomain
    Absent = Absent
    NoKey = NoKey
    Garbage = Garbage
    NoStatus = NoStatus
    NoRequest = NoRequest
    NamesReused = TRUE
    Relists = {"ZoneRoute"}
    MaxEdits = 2
    MaxFaults = 0
INVARIANTS
    OnlyAcceptedRoutesAppear
CHECK_DEADLOCK FALSE
