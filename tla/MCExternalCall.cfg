SPECIFICATION FairSpec
CONSTANTS
    Names = {"site", "metadata-host"}
    Addresses = {"public", "private", "metadata"}
    DeniedNames = {"metadata-host"}
    DeniedAddresses = {"metadata"}
    RestrictedAddresses = {"private"}
    Urls <- MCUrls
    Policies <- MCPolicies
    MaxBody = 1
    RemotePaths <- MCRemotePaths
    NoPath = NoPath
    RealPath <- MCRealPath
    Profiles <- MCProfiles
    MaxOutput = 2
    MaxProduced = 3
    Contents = {c1, c2}
INVARIANTS
    EffectsAreAudited
    SuccessIsTrue
    RefusalChangesNothing
    RequestsPermitted
    RemoteContained
PROPERTIES
    EveryCallAnswered
CHECK_DEADLOCK FALSE
