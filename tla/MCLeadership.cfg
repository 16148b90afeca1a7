SPECIFICATION BothSpec
CONSTANTS
    Names = {1}
    Times = {1}
    Specs <- WithReserved
    Unrenderable = {}
    CorefileTexts <- WiredOnly
    EntryTexts <- NoEntries
    ClusterDomain <- MCDomain
    Absent = Absent
    NoKey = NoKey
    Garbage = Garbage
    NoStatus = NoStatus
    NoRequest = NoRequest
    NamesReused = TRUE
    Relists = {}
    MaxEdits = 2
    MaxFaults = 1
INVARIANTS
    StatusDescribesSpec
    PublishedWasWritten
    FragmentAtRest
PROPERTIES
    PublishesAcrossHandOver
CHECK_DEADLOCK FALSE
