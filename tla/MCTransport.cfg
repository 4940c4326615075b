CONSTANTS
    Key = Key
    Salt = Salt
    OtherSalt = OtherSalt
    p1 = p1
    p2 = p2

SPECIFICATION Spec
INVARIANTS
    TypeOK
    ResponseCloseMeansComplete
    RequestEndMeansComplete
    FirstPayloadKept
    FramingMatchesHeader
    ObfsServerTypeOK
    RejectedGoesToFallbackIntact
    UpstreamGetsPayloadIntact
    UplinkIntact
    DownlinkIntact
    AEADTypeOK
    NonceNeverReused
PROPERTIES
    ProcessTerminates
    CleanStreamDelivered
    RefinesAuthenticatedPipe
\* Each part's Process or session ends, and the model stops there.
CHECK_DEADLOCK FALSE
