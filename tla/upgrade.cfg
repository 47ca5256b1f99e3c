SPECIFICATION ReplicaSpec
CONSTANTS
    None = None
    Unknown = Unknown
    Keep = Keep
    Flag = {}
    Body = {1, 9}
    Foreign = {9}
    Hint <- TwoCopies
    LinkId <- MCLinkId
    Origin = {}
    KeepBothLink <- MCKeepBothLink
    Handle = {10, 20, 30, 91}
    ServerHandle = {10, 20, 30}
    Seeded = {10, 20}
    Provisional = {91}
    Fork <- MCFork
    Mutable = FALSE
    Uidplus = {TRUE}
    PushChunk = 1
    WriteChunk = 3
    Options <- ManualOptions
    UserOps = {"Add", "Remove"}
    RemoteOps = {"Seed", "Remove"}
    Faults = {"crash"}
    Editable <- Live
    Authored = {100}
    Summaries = {"summary"}
    MaxUser = 2
    MaxRemote = 2
    MaxFault = 1
    Mint <- MCMint
    Elsewhere = {100}
    Batches = {{20}, {10, 20}}
    ReuseEdited = FALSE
    MaxRenumber = 0
    Tiers = {"Full", "Meta"}
INVARIANTS UpgradeTypeOK LinksUnique CleanOwesNothing
PROPERTIES MintsInHandleOrder
