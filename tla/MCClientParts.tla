---------------------------- MODULE MCClientParts ----------------------------
(***************************************************************************)
(* Seven parts checked in one run: the SOCKS client's request alone       *)
(* (`socks`) and its whole Process, request then relay (`relay`), both of  *)
(* SocksClient; the outbound dial loop                                     *)
(* (DialRetry), the observatory's                                          *)
(* status list (Observatory), the local DNS query (LocalDNS), the raw gRPC *)
(* tunnel (GrpcRawConn) and the blackhole outbound (Blackhole).  A         *)
(* behaviour runs one part, chosen by `part`; the others stay in a fixed   *)
(* initial state.  Variables two modules share a name with are renamed:    *)
(* DialRetry's pc is dialPc, Observatory's pc is obsPc, Blackhole's sent   *)
(* and ctxDone are bhSent and bhCtxDone (SocksClient renames its relay's  *)
(* clashing variables itself).                                             *)
(***************************************************************************)
EXTENDS Naturals

CONSTANTS Probers, Outbounds, Results, NoHolder, c1, c2

VARIABLES
    part,
    \* SocksRequest
    entry, version, uot, hasIPv4Lookup, targetValid, network, family,
    packetAddr, request, udpRequest, sent, branch, pc, result,
    \* DialRetry
    up, nextIndex, dialPc, picked, attempts, tried, interfered,
    \* Observatory
    status, holder, obsPc, arg, loc, calls,
    \* LocalDNS
    enabled, answer, ctxDone, ips, err, gpc, cpc, lookupFirst, ret,
    \* GrpcRawConn
    sender, codec, panicked, hdrMode, setHeaderOk, srv, cIdx, accepted, c2s, sendClosed, cClosed,
    sDone, sRead, delivered, sWrite,
    \* Blackhole
    keep, resp, phase, written, interrupted, bhSent, discarded, closed,
    copyDone, bhCtxDone,
    \* SocksClient's relay
    relBranch, clientSent, clientEOF, taken, srvSent, srvEnd, relDelivered,
    outClosed, connBroken, reqPc, respPc, relResult, timeout, quiet, relCtxDone,
    relayOn

\* Two MultiBuffers: one with an empty buffer between two bytes, one byte.
TwoMBs == << <<<<1>>, <<>>, <<2>>>>, <<<<3>>>> >>

\* Two chunks each way, and an idle budget longer than both half-close
\* budgets so that narrowing is visible.
K == INSTANCE SocksClient WITH MaxChunks <- 2, IdleTimeout <- 3,
                               DownlinkOnly <- 1, UplinkOnly <- 2
\* Two loops share the picker of three servers; none or the last is up.
R == INSTANCE DialRetry WITH pc <- dialPc, Conns <- {c1, c2}, NumServers <- 3,
                             ReachableChoices <- {{}, {3}}, MaxAttempts <- 5
O == INSTANCE Observatory WITH pc <- obsPc, MaxCalls <- 2
D == INSTANCE LocalDNS WITH EnabledChoices <- BOOLEAN
G == INSTANCE GrpcRawConn WITH UpMBs <- TwoMBs
B == INSTANCE Blackhole WITH sent <- bhSent, ctxDone <- bhCtxDone,
                             MaxChunks <- 2

socksVars == <<entry, version, uot, hasIPv4Lookup, targetValid, network,
               family, packetAddr, request, udpRequest, sent, branch, pc, result,
               relBranch, clientSent, clientEOF, taken, srvSent, srvEnd,
               relDelivered, outClosed, connBroken, reqPc, respPc, relResult,
               timeout, quiet, relCtxDone, relayOn>>
dialVars  == <<up, nextIndex, dialPc, picked, attempts, tried, interfered>>
obsVars   == <<status, holder, obsPc, arg, loc, calls>>
dnsVars   == <<enabled, answer, ctxDone, ips, err, gpc, cpc, lookupFirst, ret>>
grpcVars  == <<sender, codec, panicked, hdrMode, setHeaderOk, srv, cIdx,
               accepted, c2s, sendClosed, cClosed, sDone, sRead, delivered,
               sWrite>>
bhVars    == <<keep, resp, phase, written, interrupted, bhSent, discarded,
               closed, copyDone, bhCtxDone>>
allVars   == <<part, socksVars, dialVars, obsVars, dnsVars, grpcVars, bhVars>>

Parts == {"socks", "relay", "dial", "obs", "dns", "grpc", "bh"}

Init ==
    /\ part \in Parts
    /\ K!Init /\ R!Init /\ O!Init /\ D!Init /\ G!Init /\ B!Init
    /\ part \notin {"socks", "relay"}
          => K!Req!cfgVars = <<"Process", "SOCKS5", FALSE, FALSE,
                               FALSE, "tcp", "ipv4", FALSE>>
    \* The whole Process of a SOCKS5 client with a valid target, the version
    \* that reaches all four relays; `socks` covers every configuration.
    /\ part = "relay" => <<entry, version, hasIPv4Lookup, targetValid>>
                            = <<"Process", "SOCKS5", FALSE, TRUE>>
    /\ part # "dial"  => up = {}
    /\ part # "dns"   => <<enabled, answer>> = <<TRUE, "addrs">>
    /\ part # "grpc"  => <<sender, codec, hdrMode, setHeaderOk>>
                            = <<"peer", "raw", "none", FALSE>>
    /\ part # "bh"    => <<keep, resp>> = <<FALSE, "none">>

Next ==
    \/ part = "socks" /\ K!RequestStep
       /\ UNCHANGED <<part, dialVars, obsVars, dnsVars, grpcVars, bhVars>>
    \/ part = "relay" /\ K!Next
       /\ UNCHANGED <<part, dialVars, obsVars, dnsVars, grpcVars, bhVars>>
    \/ part = "dial" /\ R!Next
       /\ UNCHANGED <<part, socksVars, obsVars, dnsVars, grpcVars, bhVars>>
    \/ part = "obs" /\ O!Next
       /\ UNCHANGED <<part, socksVars, dialVars, dnsVars, grpcVars, bhVars>>
    \/ part = "dns" /\ D!Next
       /\ UNCHANGED <<part, socksVars, dialVars, obsVars, grpcVars, bhVars>>
    \/ part = "grpc" /\ G!Next
       /\ UNCHANGED <<part, socksVars, dialVars, obsVars, dnsVars, bhVars>>
    \/ part = "bh" /\ B!Next
       /\ UNCHANGED <<part, socksVars, dialVars, obsVars, dnsVars, grpcVars>>

\* Each module's Fairness, restricted to the part a behaviour runs: the
\* actions of a part not chosen may be enabled but are never taken.
Fairness ==
    /\ \A c \in {c1, c2} : WF_dialVars(part = "dial" /\ R!Loop(c))
    /\ \A p \in Probers :
          /\ WF_obsVars(part = "obs" /\ (O!Find(p) \/ O!Write(p) \/ O!Unlock(p)))
          /\ SF_obsVars(part = "obs" /\ O!Lock(p))
    /\ WF_dnsVars(part = "dns" /\ (D!LookupIps \/ D!LookupErr))
    /\ WF_dnsVars(part = "dns" /\ (D!RunReturn \/ D!CheckErr \/ D!Return))
    /\ WF_grpcVars(part = "grpc" /\ G!Dispatch)
    /\ WF_grpcVars(part = "grpc" /\ G!ServerRead)
    /\ WF_bhVars(part = "bh" /\ (B!WriteResponse \/ B!Sleep \/ B!Interrupt \/ B!RunReturn))
    /\ WF_bhVars(part = "bh" /\ B!Copy)
    /\ WF_bhVars(part = "bh" /\ B!Deadline)
    /\ WF_socksVars(part = "relay" /\ K!RequestStep)
    /\ WF_socksVars(part = "relay" /\ K!StartRelay)
    /\ WF_socksVars(part = "relay" /\ K!RelayRequest)
    /\ WF_socksVars(part = "relay" /\ K!RelayResponse)
    /\ WF_socksVars(part = "relay" /\ K!RelayRun)
    /\ WF_socksVars(part = "relay" /\ K!RelayTimer)

Spec == Init /\ [][Next]_allVars /\ Fairness

-----------------------------------------------------------------------------

\* The properties of the parts, stated in their modules.  A liveness
\* property whose premise a part not chosen meets in its fixed state is
\* about the behaviours that run that part (`part` never changes).
TypeOK == K!Req!TypeOK
RelayMatchesRequest == K!Req!RelayMatchesRequest
DialTypeOK == R!TypeOK
LoneLoopTriesEveryServer == R!LoneLoopTriesEveryServer
DialLoopEnds == R!DialLoopEnds
OneEntryPerOutbound == O!OneEntryPerOutbound
EveryUpdateReturns == part = "obs" => O!EveryUpdateReturns
LookupAnswerReturned == D!LookupAnswerReturned
QueryReturns == part = "dns" => D!QueryReturns
RawUplinkIntact == G!UplinkIntact
NoPanicOnSend == G!NoPanicOnSend
ClientCloseReachesServer == part = "grpc" => G!ClientCloseReachesServer
ProcessReturns == part = "bh" => B!ProcessReturns
RelayTypeOK == K!Rel!TypeOK
ResponseCloseMeansComplete == K!Rel!ResponseCloseMeansComplete
SocksProcessReturns == part = "relay" => K!ProcessReturns
=============================================================================
