CONSTANTS
    MaxLines = 5
    Inputs <- NoOtherFiles
    ServerKeys <- MCServerKeys
    ManagedKey <- MCManagedKey
SPECIFICATION Spec
INVARIANT NothingHidden
CHECK_DEADLOCK FALSE
