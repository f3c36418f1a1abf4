SPECIFICATION FairConfigSpec
CONSTANTS
    api = api
    studio = studio
    other = other
    p = p
    unknown = unknown
    None = None
    Calls <- MCCalls
    StudioThreads <- MCStudioThreads
    ApiThreads <- MCApiThreads
    Aliases <- MCAliases
    Profiles <- MCProfiles
    EnvKey = TRUE
    TurnLimits <- MCTurnLimits
    MaxEdits = 1
INVARIANTS
    ConfigTypeOK
    SchemaBeforeUse
    OneInitialiser
    ReplySnapshotIsLastCall
    AliasNotReplaced
PROPERTIES
    TurnsEnd
