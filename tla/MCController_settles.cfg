SPECIFICATION FairSpec
CONSTANTS
    Names = {1, 2}
    Times = {1}
    Specs <- WithResolvers
    Unrenderable <- Refused
    CorefileTexts <- Corefiles
    EntryTexts <- Entries
    ClusterDomain <- MCDomain
    Absent = Absent
    NoKey = NoKey
    Garbage = Garbage
    NoStatus = NoStatus
    NoRequest = NoRequest
    NamesReused = FALSE
    Relists = {"ZoneRoute"}
    MaxEdits = 1
    MaxFaults = 1
INVARIANTS
    FragmentAtRest
    StatusAtRestUnlessMissed
PROPERTIES
    ControllerKeepsToItsOwn
    FragmentSettles
CHECK_DEADLOCK FALSE
