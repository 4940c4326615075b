SPECIFICATION Spec
CONSTANTS
    Probers = {p1, p2}
    Outbounds = {o1, o2}
    Results = {r1, r2}
    NoHolder = NoHolder
    c1 = c1
    c2 = c2
INVARIANTS
    TypeOK
    RelayMatchesRequest
    DialTypeOK
    LoneLoopTriesEveryServer
    OneEntryPerOutbound
    LookupAnswerReturned
    RawUplinkIntact
    RelayTypeOK
    ResponseCloseMeansComplete
PROPERTIES
    DialLoopEnds
    EveryUpdateReturns
    QueryReturns
    ClientCloseReachesServer
    ProcessReturns
    SocksProcessReturns
\* SOCKS Process and its relay, the dial loops, QueryIP, Blackhole Process
\* and the probers' calls all end, and the model stops there.
CHECK_DEADLOCK FALSE
