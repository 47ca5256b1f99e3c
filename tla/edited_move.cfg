SPECIFICATION Spec
CONSTANTS
    None = None
    Unknown = Unknown
    Keep = Keep
    Flag = {}
    Body = {1, 2, 3, 9}
    LinkId <- MCLinkId
    Origin <- MCOrigin
    KeepBothLink <- MCKeepBothLink
    Mint <- MCMint
    Collection = {"inbox", "archive"}
    Handle <- MCHandle
    ServerHandle = {1, 11, 12, 111, 112, 121, 122}
    Copied <- MCCopied
    Moved <- MCMoved
    Placeholder = {901, 902}
    Seeded <- MCSeeded
    SeedLink = 7
    SeedBody = 9
    Options <- MCOptions
    UserOps = {"Edit", "Remove", "Move"}
    RemoteOps = {"Edit", "Remove"}
    MaxMove = 1
    MaxUser = 1
    MaxRemote = 0
    MaxFault = 0
INVARIANTS MovedEditArrives
CHECK_DEADLOCK FALSE
