SPECIFICATION Spec
CONSTANTS
    None = None
    Unknown = Unknown
    Keep = Keep
    Flag = {"f"}
    Body = {1, 2, 9}
    Foreign = {9}
    Hint <- MCHint
    LinkId <- MCLinkId
    Origin = {}
    KeepBothLink <- MCKeepBothLink
    Handle <- TwoHandles
    ServerHandle = {10, 20}
    Seeded = {10}
    Provisional = {91}
    Fork <- MCFork
    Mutable = TRUE
    Uidplus = {TRUE}
    PushChunk = 1
    WriteChunk = 2
    Options <- DefaultOptions
    UserOps = {"Edit"}
    RemoteOps = {"SetFlags", "Edit"}
    Faults = {}
    Editable <- Live
    Authored = {101}
    Summaries = {None}
    MaxUser = 2
    MaxRemote = 2
    MaxFault = 1
PROPERTIES DeliversOrKeeps
