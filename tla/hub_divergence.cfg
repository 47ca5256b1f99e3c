SPECIFICATION Spec
CONSTANTS
    None = None
    Unknown = Unknown
    Keep = Keep
    Flag = {"f"}
    Body = {1, 2, 3, 9}
    LinkId <- MCLinkId
    Origin = {}
    KeepBothLink <- MCKeepBothLink
    Mint <- MCMint
    Source = {"a", "b"}
    Handle <- MCHandle
    ServerHandle = {10,20}
    HubHandle <- MCHubHandle
    Provisional = 91
    Seeded <- MCSeeded
    SeedLink = 1
    Authored = 2
    SeedBody = 9
    Options <- MCOptions
    Policy = "Manual"
    Uidplus <- Reporting
    UserOps = {"Edit", "SetFlags", "Remove", "Add"}
    RemoteOps = {"Edit", "SetFlags", "Remove"}
    MaxUser = 2
    MaxRemote = 2
    MaxFault = 0
    MaxTotal = 3
PROPERTIES DivergenceKept
CHECK_DEADLOCK FALSE
