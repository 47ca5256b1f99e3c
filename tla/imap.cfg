SPECIFICATION Spec
CONSTANTS
    None = None
    Unknown = Unknown
    Keep = Keep
    Flag = {"f"}
    Body = {1, 9}
    Foreign = {9}
    Hint <- MCHint
    LinkId <- MCLinkId
    Origin = {"elsewhere"}
    KeepBothLink <- MCKeepBothLink
    Handle = {10, 20, 91}
    ServerHandle = {10, 20}
    Seeded = {10}
    Provisional = {91}
    Fork <- MCFork
    Mutable = FALSE
    Uidplus = {TRUE, FALSE}
    PushChunk = 1
    WriteChunk = 2
    Options <- DefaultOptions
    UserOps = {"SetFlags", "Remove", "Add", "Copy"}
    RemoteOps = {"Seed", "SetFlags", "Remove"}
    Faults = {"crash"}
    Editable <- Live
    Authored = {101}
    Summaries = {None}
    MaxUser = 2
    MaxRemote = 2
    MaxFault = 1
INVARIANTS SpineComplete CleanMirrorsFlags CleanOwesNothing
