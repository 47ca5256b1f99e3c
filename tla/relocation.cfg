SPECIFICATION Spec
CONSTANTS
    None = None
    Unknown = Unknown
    Keep = Keep
    Flag = {}
    Body = {1, 2, 3, 9}
    LinkId <- MCLinkId
    Origin <- MCOrigin
    KeepBothLink <- MCKeepBothLink
    Mint <- MCMint
    Collection = {"inbox", "archive"}
    Handle <- MCHandle
    ServerHandle = {1, 11, 12, 111, 112, 121, 122}
    Copied <- MCCopied
    Moved <- MCMoved
    Placeholder = {901, 902}
    Seeded <- MCSeeded
    SeedLink = 7
    SeedBody = 9
    Options <- MCOptions
    UserOps = {"Edit", "Remove", "Move"}
    RemoteOps = {"Edit", "Remove"}
    MaxMove = 2
    MaxUser = 1
    MaxRemote = 1
    MaxFault = 1
INVARIANTS TypeOK DeliveredOnce NeverLost MovesSettle
CHECK_DEADLOCK FALSE
