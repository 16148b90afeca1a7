SPECIFICATION Spec
CONSTANTS
    Names = {1}
    Times = {1}
    Specs <- WithResolvers
    Unrenderable <- Refused
    CorefileTexts <- WiredOnly
    EntryTexts <- NoEntries
    ClusterDomain <- MCDomain
    Absent = Absent
    NoKey = NoKey
    Garbage = Garbage
    NoStatus = NoStatus
    NoRequest = NoRequest
    NamesReused = FALSE
    Relists = {}
    MaxEdits = 1
    MaxFaults = 0
INVARIANTS
    HandEditsOverwritten
CHECK_DEADLOCK FALSE
