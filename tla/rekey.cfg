SPECIFICATION ReplicaSpec
CONSTANTS
    None = None
    Unknown = Unknown
    Keep = Keep
    Flag = {"f"}
    Body = {1, 9}
    Foreign = {9}
    Hint <- TwoItems
    LinkId <- MCLinkId
    Origin = {}
    KeepBothLink <- MCKeepBothLink
    Handle = {10, 20, 30}
    ServerHandle = {10, 20, 30}
    Seeded = {10, 20}
    Provisional = {}
    Fork <- MCFork
    Mutable = TRUE
    Uidplus = {TRUE}
    PushChunk = 1
    WriteChunk = 3
    Options <- ManualOptions
    UserOps = {"Edit", "SetFlags", "Remove"}
    RemoteOps = {"SetFlags", "Remove"}
    Faults = {"crash"}
    Editable <- Live
    Authored = {100}
    Summaries = {"summary"}
    MaxUser = 2
    MaxRemote = 1
    MaxFault = 1
    Mint <- MCMint
    Elsewhere = {}
    Batches = {{10, 20, 30}}
    ReuseEdited = FALSE
    MaxRenumber = 1
    Tiers = {"Full"}
INVARIANTS RekeyTypeOK RebuiltSpineComplete
PROPERTIES RekeyKeepsEdits CarriesIntent
