----------------------------- MODULE MCTransport -----------------------------
(***************************************************************************)
(* The secure transport session's parts checked in one run: the VMess     *)
(* outbound's relay (VMessOutbound) and request setup (VMessRequest), the  *)
(* simple-obfs inbound (ObfsServer)                                        *)
(* and outbound (ObfsClient), and the Shadowsocks 2022 AEAD stream and     *)
(* datagrams (AEADStream).  A behaviour runs one part, chosen by `part`;   *)
(* the others stay in a fixed initial state.  Renamed variables: the obfs  *)
(* server's mode, pc and result are srvMode, srvPc and srvResult; the      *)
(* VMess outbound's result and delivered are vmResult and vmDelivered;    *)
(* VMessRequest's pc, result, reqPc and respPc are vrPc, vrResult, vrReqPc *)
(* and vrRespPc.                                                           *)
(***************************************************************************)
EXTENDS Naturals

CONSTANTS Key, Salt, OtherSalt, p1, p2

VARIABLES
    part,
    \* VMessOutbound
    security, noTermSignal, clientSent, clientEOF, taken, firstPayload,
    hdrSent, srvGot, srvEndSeen, srvHdr, srvSent, srvEnd, vmDelivered,
    outClosed, connBroken, reqPc, respPc, vmResult, timeout, quiet, ctxDone,
    \* ObfsServer
    srvMode, kind, hasFallback, pos, used, cacheOn, upLink, upGot, fbLink,
    fbGot, fbPayload, rejected, accepted, reply, failed, peerClosed, srvPc,
    srvResult,
    \* ObfsClient
    mode, dialOk, firstRead, respKind, pc, upTaken, bufw, wire, up, down,
    brBuf, connPos, downGot, result,
    \* AEADStream
    wAuthOf, rAuthOf, ctr, sent, sealed, chan, rPhase, delivered, attacks,
    psent, pnet, pdelivered,
    \* VMessRequest
    targetValid, network, taddr, tport, hEnc, command, header, packetEncoding,
    wFrame, rFrame, vrReqPc, vrRespPc, vrPc, vrResult

\* Every security type the request options tell apart.
MCSecurities == {"AES128_GCM", "NONE", "ZERO"}

\* Two reads of the link, the first longer than one TLS record.
TwoReads == << <<1, 2, 3>>, <<4>> >>

\* Two tunnel bytes, so bufio can read ahead one of them or both.
TwoTunnelBytes == <<5, 6>>

\* Two chunks each way, and an idle budget longer than both half-close
\* budgets so that narrowing is visible.
V == INSTANCE VMessOutbound WITH result <- vmResult, delivered <- vmDelivered,
        Securities <- MCSecurities, EnablePadding <- FALSE, MaxChunks <- 2,
        IdleTimeout <- 3, DownlinkOnly <- 1, UplinkOnly <- 2
S == INSTANCE ObfsServer WITH mode <- srvMode, pc <- srvPc, result <- srvResult
C == INSTANCE ObfsClient WITH Up <- TwoReads, DownData <- TwoTunnelBytes,
                              MaxTLSDataLen <- 2
\* Two chunk contents, two chunks (four frames), room for one extra frame
\* in flight, two attacker steps.
A == INSTANCE AEADStream WITH Payloads <- {p1, p2}, MaxChunks <- 2,
                              MaxFrames <- 5, MaxAttacks <- 2

Q == INSTANCE VMessRequest WITH pc <- vrPc, result <- vrResult,
                                reqPc <- vrReqPc, respPc <- vrRespPc

vmVars  == <<security, noTermSignal, clientSent, clientEOF, taken,
             firstPayload, hdrSent, srvGot, srvEndSeen, srvHdr, srvSent,
             srvEnd, vmDelivered, outClosed, connBroken, reqPc, respPc,
             vmResult, timeout, quiet, ctxDone>>
srvVars == <<srvMode, kind, hasFallback, pos, used, cacheOn, upLink, upGot,
             fbLink, fbGot, fbPayload, rejected, accepted, reply, failed,
             peerClosed, srvPc, srvResult>>
cliVars == <<mode, dialOk, firstRead, respKind, pc, upTaken, bufw, wire, up,
             down, brBuf, connPos, downGot, result>>
aeadVars == <<wAuthOf, rAuthOf, ctr, sent, sealed, chan, rPhase, delivered,
              attacks, psent, pnet, pdelivered>>
vrVars  == <<targetValid, network, taddr, tport, hEnc, command, header,
             packetEncoding, wFrame, rFrame, vrReqPc, vrRespPc, vrPc, vrResult>>
allVars == <<part, vmVars, srvVars, cliVars, aeadVars, vrVars>>

Parts == {"vmess", "vreq", "server", "client", "aead"}

Init ==
    /\ part \in Parts
    /\ V!Init /\ S!Init /\ C!Init /\ A!Init /\ Q!Init
    /\ part # "vmess"  => <<security, noTermSignal>> = <<"NONE", FALSE>>
    /\ part # "server" => <<srvMode, kind, hasFallback>> = <<"http", "garbage", FALSE>>
    /\ part # "client" => <<mode, dialOk, firstRead, respKind>> = <<"http", FALSE, "data", "101ws">>
    /\ part # "vreq"   => Q!cfgVars = <<FALSE, "tcp", "ip", 0, "None">>

Next ==
    \/ part = "vmess"  /\ V!Next /\ UNCHANGED <<part, srvVars, cliVars, aeadVars, vrVars>>
    \/ part = "vreq"   /\ Q!Next /\ UNCHANGED <<part, vmVars, srvVars, cliVars, aeadVars>>
    \/ part = "server" /\ S!Next /\ UNCHANGED <<part, vmVars, cliVars, aeadVars, vrVars>>
    \/ part = "client" /\ C!Next /\ UNCHANGED <<part, vmVars, srvVars, aeadVars, vrVars>>
    \/ part = "aead"   /\ A!Next /\ UNCHANGED <<part, vmVars, srvVars, cliVars, vrVars>>

\* VMessOutbound's and AEADStream's fairness, restricted to the part a
\* behaviour runs.  The obfs parts' properties here are all invariants.
Fairness ==
    /\ WF_vmVars(part = "vmess" /\ V!RequestDone)
    /\ WF_vmVars(part = "vmess" /\ V!ResponseDone)
    /\ WF_vmVars(part = "vmess" /\ V!RunReturn)
    /\ WF_vmVars(part = "vmess" /\ V!TimerStep)
    /\ WF_aeadVars(part = "aead" /\ A!ReadFrame)

Spec == Init /\ [][Next]_allVars /\ Fairness

-----------------------------------------------------------------------------

\* The properties of the parts, stated in their modules.  Process returns
\* is about the behaviours that run the VMess part (`part` never changes).
TypeOK == V!TypeOK
ResponseCloseMeansComplete == V!ResponseCloseMeansComplete
RequestEndMeansComplete == V!RequestEndMeansComplete
FramingMatchesHeader == Q!FramingMatchesHeader
FirstPayloadKept == V!FirstPayloadKept
ProcessTerminates == part = "vmess" => V!ProcessTerminates
ObfsServerTypeOK == S!TypeOK
RejectedGoesToFallbackIntact == S!RejectedGoesToFallbackIntact
UpstreamGetsPayloadIntact == S!UpstreamGetsPayloadIntact
UplinkIntact == C!UplinkIntact
DownlinkIntact == C!DownlinkIntact
AEADTypeOK == A!TypeOK
NonceNeverReused == A!NonceNeverReused
CleanStreamDelivered == A!CleanStreamDelivered
RefinesAuthenticatedPipe == A!RefinesAuthenticatedPipe
=============================================================================
