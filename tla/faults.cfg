SPECIFICATION Spec
CONSTANTS
    None = None
    Unknown = Unknown
    Keep = Keep
    Flag = {}
    Body = {1, 2, 9}
    Foreign = {9}
    Hint <- MCHint
    LinkId <- MCLinkId
    Origin = {}
    KeepBothLink <- MCKeepBothLink
    Handle <- TwoHandles
    ServerHandle = {10, 20}
    Seeded = {10}
    Provisional = {91}
    Fork <- MCFork
    Mutable = TRUE
    Uidplus = {TRUE}
    PushChunk = 1
    WriteChunk = 2
    Options <- ManualOptions
    UserOps = {"Edit", "Remove", "Add"}
    RemoteOps = {"Seed", "Edit", "Remove"}
    Faults = {"crash", "refuse", "silence"}
    Editable <- Live
    Authored = {101}
    Summaries = {None}
    MaxUser = 2
    MaxRemote = 2
    MaxFault = 1
INVARIANTS TypeOK SpineComplete PreconditionFresh BasePairsBody ReplayBounded
    CleanOwesNothing
PROPERTIES DeliversOrKeeps
