CONSTANTS
    MaxLines = 5
    Inputs <- MCInputs
    ServerKeys <- MCServerKeys
    ManagedKey <- MCManagedKey
SPECIFICATION Spec
INVARIANTS
    TypeOK
    InspectedAsStated
    FirstSourceBlamed
    NothingHiddenBehindPlainSnippets
CHECK_DEADLOCK FALSE
