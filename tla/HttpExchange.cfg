SPECIFICATION FairSpec
CONSTANTS
    c1 = c1
    c2 = c2
    dfsp = dfsp
    proxy = proxy
    Hub = Hub
    Calls = {c1, c2}
    Inputs <- SomeInputs
    MaxSockets = 1
    MaxAttempts = 3
    PeerApi = "fspiop"
    AcceptVersions <- PeerAccepts
    ContentVersions <- PeerContents
    ResourceVersions <- Overridden
    Parties = {Hub, dfsp, proxy}
    Malformed = Malformed
    NoResource = NoResource
    Absent = Absent
INVARIANTS
    AcceptedByPeer
    ListedVersionAccepted
    OutgoingHeaders
    OutcomeFromServer
    SpanFinished
PROPERTIES
    CallsSettle
CHECK_DEADLOCK FALSE
