SPECIFICATION Spec
CONSTANTS
    Names = {1, 2}
    Times = {1}
    Specs <- Overlapping
    Unrenderable = {}
    CorefileTexts <- WiredOnly
    EntryTexts <- NoEntries
    ClusterDomain <- MCDomain
    Absent = Absent
    NoKey = NoKey
    Garbage = Garbage
    NoStatus = NoStatus
    NoRequest = NoRequest
    NamesReused = TRUE
    Relists = {"ZoneRoute", "ConfigMap"}
    MaxEdits = 1
    MaxFaults = 1
INVARIANTS
    TypeOK
    FragmentSound
    PublishedWasWritten
PROPERTIES
    PublishesAsPromised
CHECK_DEADLOCK FALSE
