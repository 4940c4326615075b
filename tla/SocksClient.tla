----------------------------- MODULE SocksClient -----------------------------
(***************************************************************************)
(* Client.Process of the SOCKS outbound (proxy/socks/client.go lines       *)
(* 165-334) as one component: the request, handshake and relay choice      *)
(* (SocksRequest), then, from lines 264-265 on, the relay that choice      *)
(* names (SocksRelay) under its activity timer.  The relay's variables     *)
(* keep their initial values until StartRelay; its branch, delivered,      *)
(* result and ctxDone are relBranch, relDelivered, relResult and           *)
(* relCtxDone.  ProcessConn hands its stream to rw.CopyConn, which is not  *)
(* in src/, so its behaviours end at the hand-off.                         *)
(***************************************************************************)
EXTENDS Naturals

CONSTANTS MaxChunks, IdleTimeout, DownlinkOnly, UplinkOnly

VARIABLES
    \* SocksRequest
    entry, version, uot, hasIPv4Lookup, targetValid, network, family,
    packetAddr, request, udpRequest, sent, branch, pc, result,
    \* SocksRelay
    relBranch, clientSent, clientEOF, taken, srvSent, srvEnd, relDelivered,
    outClosed, connBroken, reqPc, respPc, relResult, timeout, quiet,
    relCtxDone,
    relayOn         \* Process has reached line 264 and runs the relay

Req == INSTANCE SocksRequest
Rel == INSTANCE SocksRelay WITH branch <- relBranch, delivered <- relDelivered,
                                result <- relResult, ctxDone <- relCtxDone

reqVars == <<entry, version, uot, hasIPv4Lookup, targetValid, network, family,
             packetAddr, request, udpRequest, sent, branch, pc, result>>
relVars == <<relBranch, clientSent, clientEOF, taken, srvSent, srvEnd,
             relDelivered, outClosed, connBroken, reqPc, respPc, relResult,
             timeout, quiet, relCtxDone>>
vars == <<reqVars, relVars, relayOn>>

\* Process past the handshake: context.WithCancel, CancelAfterInactivity
\* with ConnectionIdle, and the relay SelectRelay chose.  The timer's
\* variables already hold TimerInit(IdleTimeout) from Init.
StartRelay ==
    /\ pc = "relay" /\ entry = "Process" /\ ~relayOn
    /\ relayOn' = TRUE
    /\ relBranch' = branch
    /\ UNCHANGED <<reqVars, clientSent, clientEOF, taken, srvSent, srvEnd,
                   relDelivered, outClosed, connBroken, reqPc, respPc,
                   relResult, timeout, quiet, relCtxDone>>

Init ==
    /\ Req!Init
    /\ Rel!Init /\ relBranch = "tcp"
    /\ relayOn = FALSE

RequestStep == Req!Next /\ UNCHANGED <<relVars, relayOn>>
RelayStep   == relayOn /\ Rel!Next /\ UNCHANGED <<reqVars, relayOn>>

Next == RequestStep \/ StartRelay \/ RelayStep

\* The relay's goroutines: SocksRelay's fair steps once the relay runs.
RelayRequest  == relayOn /\ Rel!RequestFunc  /\ UNCHANGED <<reqVars, relayOn>>
RelayResponse == relayOn /\ Rel!ResponseFunc /\ UNCHANGED <<reqVars, relayOn>>
RelayRun      == relayOn /\ Rel!RunReturn    /\ UNCHANGED <<reqVars, relayOn>>
RelayTimer    == relayOn /\ Rel!TimerStep    /\ UNCHANGED <<reqVars, relayOn>>

\* Process is one goroutine up to task.Run: its steps, and the start of
\* the relay, are weakly fair; the relay keeps SocksRelay's fairness.
Fairness ==
    /\ WF_vars(RequestStep) /\ WF_vars(StartRelay)
    /\ WF_vars(RelayRequest) /\ WF_vars(RelayResponse)
    /\ WF_vars(RelayRun) /\ WF_vars(RelayTimer)

Spec == Init /\ [][Next]_vars /\ Fairness

-----------------------------------------------------------------------------

\* Process returns whatever the SOCKS server, the client and the network
\* do: the request phase fails, or the relay it starts ends, cut off by
\* the idle timer if a peer stalls (client.go lines 165-334).  ProcessConn
\* ends at rw.CopyConn.
ProcessReturns ==
    <>(\/ result # "pending"
       \/ relResult # "pending"
       \/ entry = "ProcessConn" /\ pc = "relay")
=============================================================================
