SPECIFICATION ReplicaFairSpec
CONSTANTS
    None = None
    Unknown = Unknown
    Keep = Keep
    Flag = {}
    Body = {1, 2, 8, 9}
    Foreign = {8, 9}
    Hint <- TwoItems
    LinkId <- MCLinkId
    Origin = {}
    KeepBothLink <- MCKeepBothLink
    Handle = {10, 20, 30, 91}
    ServerHandle = {10, 20, 30}
    Seeded = {10}
    Provisional = {91}
    Fork <- MCFork
    Mutable = TRUE
    Uidplus = {TRUE}
    PushChunk = 1
    WriteChunk = 2
    Options <- ManualOptions
    UserOps = {"Edit", "Remove", "Add"}
    RemoteOps = {"Edit", "Remove"}
    Faults = {"crash", "silence"}
    Editable <- Live
    Authored = {101}
    Summaries = {"summary"}
    MaxUser = 1
    MaxRemote = 2
    MaxFault = 1
    Mint <- MCMint
    Elsewhere = {}
    Batches = {{10, 20, 30}}
    ReuseEdited = FALSE
    MaxRenumber = 0
    Tiers = {"Full", "Meta"}
INVARIANTS VersionsPaired
PROPERTIES Settles Mirrors UpgradeKeepsEdits
