SPECIFICATION ReplaySpec
CONSTANTS
    None = None
    Unknown = Unknown
    Keep = Keep
    Flag = {f, g}
    Body = {1, 2, 9}
    Foreign = {9}
    Hint <- MCHint
    LinkId <- MCLinkId
    Origin = {}
    KeepBothLink <- MCKeepBothLink
    Handle = {10, 11, 12}
    ServerHandle = {10}
    Seeded = {10}
    Provisional = {}
    Fork <- MCFork
    Mutable = TRUE
    Uidplus = {TRUE}
    PushChunk = 1
    WriteChunk = 1
    Options <- ConflictOptions
    UserOps = {"Edit", "SetFlags", "Remove"}
    RemoteOps = {"SetFlags", "Edit", "Remove"}
    Faults = {"crash"}
    Editable <- Live
    Authored = {101}
    Summaries = {None}
    MaxUser = 2
    MaxRemote = 2
    MaxFault = 1
SYMMETRY FlagSymmetry
INVARIANTS RetryKeepsKey OnePushPerHandle CleanMirrorsFlags PreconditionFresh
PROPERTIES IntentKept PointersHeld
