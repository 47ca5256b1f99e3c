SPECIFICATION Spec
CONSTANTS
    None = None
    Unknown = Unknown
    Keep = Keep
    Flag = {}
    Body = {1, 2, 9}
    Foreign = {9}
    Hint <- MCHint
    LinkId <- MCLinkId
    Origin = {"elsewhere"}
    KeepBothLink <- MCKeepBothLink
    Handle = {10, 20, 91}
    ServerHandle = {10, 20}
    Seeded = {10}
    Provisional = {91}
    Fork <- MCFork
    Mutable = TRUE
    Uidplus = {TRUE}
    PushChunk = 1
    WriteChunk = 2
    Options <- RefusingOptions
    UserOps = {"Edit", "Move", "Copy", "Remove"}
    RemoteOps = {"Edit"}
    Faults = {"crash", "silence"}
    Editable <- Live
    Authored = {101}
    Summaries = {None}
    MaxUser = 3
    MaxRemote = 1
    MaxFault = 1
INVARIANTS MoveCarriesEdit SpineComplete
