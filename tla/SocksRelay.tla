------------------------------ MODULE SocksRelay ------------------------------
(***************************************************************************)
(* The SOCKS client's relays, Client.Process (proxy/socks/client.go lines  *)
(* 264-334), from the relay SelectRelay (SocksRequest) chose to the return *)
(* of task.Run.  Every relay shares one activity timer (ActivityTimer):    *)
(*   "packet"  the link carries packet addresses; udp.CopyPacketConn each  *)
(*             way over the UDP conn;                                      *)
(*   "uot"     UDP over the TCP conn in udpovertcp framing;                *)
(*   "tcp"     the TCP conn;                                               *)
(*   "udp"     SOCKS5 UDP datagrams over the UDP conn.                     *)
(* Chunks and datagrams are counted, not named.  A UDP conn has no end of  *)
(* stream: its reader returns only on an error.  udp.CopyPacketConn and    *)
(* task.Run are outside src/ and follow spec 4.5 as in VMessOutbound.      *)
(***************************************************************************)
EXTENDS Naturals

CONSTANTS MaxChunks, IdleTimeout, DownlinkOnly, UplinkOnly

Relays     == {"packet", "uot", "tcp", "udp"}
Datagrams  == {"packet", "udp"}
Finished   == {"ok", "err"}

VARIABLES
    branch,         \* the relay SelectRelay chose
    clientSent,     \* chunks the client has written into link.Reader
    clientEOF,      \* the client has closed link.Reader
    taken,          \* chunks the request copy has written to the server
    srvSent,        \* chunks the server has sent back
    srvEnd,         \* the server closed its stream (TCP conns only)
    delivered,      \* chunks written to link.Writer
    outClosed,      \* task.Close(link.Writer) has run
    connBroken,     \* the conn has failed; every later read or write errors
    reqPc,          \* requestFunc: "copy", or how it returned
    respPc,         \* responseFunc: "copy", or how it returned
    result,         \* what Process returns
    timeout, quiet, ctxDone

Timer == INSTANCE ActivityTimer

timerVars == <<timeout, quiet, ctxDone>>
envVars   == <<clientSent, clientEOF, srvSent, srvEnd, connBroken>>
vars == <<branch, envVars, taken, delivered, outClosed, reqPc, respPc, result,
          timerVars>>

-----------------------------------------------------------------------------
(* requestFunc: the deferred timer.SetTimeout(DownlinkOnly) on every       *)
(* return, except in the packet relay, whose requestDone has none.         *)

ReqReturn(pc) ==
    /\ reqPc' = pc
    /\ IF branch = "packet" THEN UNCHANGED timerVars
       ELSE Timer!SetTimeout(DownlinkOnly)

\* Mutant: a copy step that does not wait for the client to have data.
ReqCopyChunkUnguarded ==
    /\ reqPc = "copy"
    /\ taken' = taken + 1
    /\ Timer!Update
    /\ UNCHANGED reqPc

\* buf.Copy / udp.CopyPacketConn with UpdateActivity(timer): one chunk.
ReqCopyChunk ==
    /\ reqPc = "copy"
    /\ clientSent > taken
    /\ IF connBroken
       THEN ReqReturn("err") /\ UNCHANGED taken
       ELSE /\ taken' = taken + 1
            /\ Timer!Update
            /\ UNCHANGED reqPc

\* The link's end: buf.Copy returns nil; udp.CopyPacketConn returns what
\* the packet reader gave it, nil or io.EOF.
ReqCopyEOF ==
    /\ reqPc = "copy"
    /\ clientSent = taken /\ clientEOF
    /\ \E pc \in IF branch = "packet" THEN Finished ELSE {"ok"} : ReqReturn(pc)
    /\ UNCHANGED taken

\* The cancelled context unblocks the copy's pending read.
ReqCancelled ==
    /\ reqPc = "copy"
    /\ ctxDone
    /\ clientSent = taken /\ ~clientEOF
    /\ ReqReturn("err")
    /\ UNCHANGED taken

-----------------------------------------------------------------------------
(* responseFunc: the deferred SetTimeout(UplinkOnly) (none in the packet   *)
(* relay), and task.OnSuccess closing link.Writer when it returns nil.     *)

\* Mutant: link.Writer closed on every return, as a deferred Close would.
RespReturnCloseAlways(pc) ==
    /\ respPc' = pc
    /\ outClosed' = TRUE
    /\ IF branch = "packet" THEN UNCHANGED timerVars
       ELSE Timer!SetTimeout(UplinkOnly)

RespReturn(pc) ==
    /\ respPc' = pc
    /\ outClosed' = (pc = "ok")
    /\ IF branch = "packet" THEN UNCHANGED timerVars
       ELSE Timer!SetTimeout(UplinkOnly)

\* One chunk or datagram from the server to link.Writer.
RespCopyChunk ==
    /\ respPc = "copy"
    /\ srvSent > delivered
    /\ IF connBroken
       THEN RespReturn("err") /\ UNCHANGED delivered
       ELSE /\ delivered' = delivered + 1
            /\ Timer!Update
            /\ UNCHANGED <<respPc, outClosed>>

\* The TCP conn's end of stream: buf.Copy returns nil.
RespCopyEOF ==
    /\ respPc = "copy"
    /\ srvSent = delivered /\ srvEnd /\ ~connBroken
    /\ RespReturn("ok")
    /\ UNCHANGED delivered

\* A pending read fails: the conn broke, or cancellation unblocked it.
RespFail ==
    /\ respPc = "copy"
    /\ srvSent = delivered
    /\ connBroken \/ ctxDone
    /\ RespReturn("err")
    /\ UNCHANGED delivered

-----------------------------------------------------------------------------

\* task.Run(ctx, requestFunc, responseDonePost): the first error, the
\* cancelled context (an idle end is clean), or nil once both returned nil.
RunReturn ==
    /\ result = "pending"
    /\ \/ "err" \in {reqPc, respPc} /\ result' = "err"
       \/ reqPc = "ok" /\ respPc = "ok" /\ result' = "ok"
       \/ ctxDone /\ result' = "ok"
    /\ UNCHANGED <<branch, envVars, taken, delivered, outClosed, reqPc, respPc,
                   timerVars>>

RequestFunc ==
    /\ ReqCopyChunk \/ ReqCopyEOF \/ ReqCancelled
    /\ UNCHANGED <<branch, envVars, delivered, outClosed, respPc, result>>

ResponseFunc ==
    /\ RespCopyChunk \/ RespCopyEOF \/ RespFail
    /\ UNCHANGED <<branch, envVars, taken, reqPc, result>>

TimerStep ==
    /\ Timer!Tick \/ Timer!Expire
    /\ UNCHANGED <<branch, envVars, taken, delivered, outClosed, reqPc, respPc,
                   result>>

\* The client, the server and the network.  Only a TCP conn has an end of
\* stream.
Environment ==
    /\ \/ ~clientEOF /\ clientSent < MaxChunks /\ clientSent' = clientSent + 1
          /\ UNCHANGED <<clientEOF, srvSent, srvEnd, connBroken>>
       \/ ~clientEOF /\ clientEOF' = TRUE
          /\ UNCHANGED <<clientSent, srvSent, srvEnd, connBroken>>
       \/ ~srvEnd /\ srvSent < MaxChunks /\ srvSent' = srvSent + 1
          /\ UNCHANGED <<clientSent, clientEOF, srvEnd, connBroken>>
       \/ branch \notin Datagrams /\ ~srvEnd /\ srvEnd' = TRUE
          /\ UNCHANGED <<clientSent, clientEOF, srvSent, connBroken>>
       \/ ~connBroken /\ connBroken' = TRUE
          /\ UNCHANGED <<clientSent, clientEOF, srvSent, srvEnd>>
    /\ UNCHANGED <<branch, taken, delivered, outClosed, reqPc, respPc, result,
                   timerVars>>

-----------------------------------------------------------------------------

\* ctx, cancel := context.WithCancel(ctx) and CancelAfterInactivity with
\* ConnectionIdle (lines 264-265); the relay SelectRelay chose.
Init ==
    /\ branch \in Relays
    /\ clientSent = 0 /\ clientEOF = FALSE /\ taken = 0
    /\ srvSent = 0 /\ srvEnd = FALSE /\ delivered = 0
    /\ outClosed = FALSE /\ connBroken = FALSE
    /\ reqPc = "copy" /\ respPc = "copy" /\ result = "pending"
    /\ Timer!TimerInit(IdleTimeout)

Next == RequestFunc \/ ResponseFunc \/ RunReturn \/ TimerStep \/ Environment

\* Both task goroutines, task.Run and the timer run when they can; the
\* client, the server and the network owe nothing.
Fairness ==
    /\ WF_vars(RequestFunc) /\ WF_vars(ResponseFunc)
    /\ WF_vars(RunReturn) /\ WF_vars(TimerStep)

Spec == Init /\ [][Next]_vars /\ Fairness

-----------------------------------------------------------------------------

TypeOK ==
    /\ branch \in Relays
    /\ clientSent \in 0..MaxChunks /\ taken \in 0..clientSent
    /\ srvSent \in 0..MaxChunks /\ delivered \in 0..srvSent
    /\ {clientEOF, srvEnd, outClosed, connBroken, ctxDone} \subseteq BOOLEAN
    /\ reqPc \in {"copy"} \cup Finished /\ respPc \in {"copy"} \cup Finished
    /\ result \in {"pending"} \cup Finished
    /\ timeout \in {IdleTimeout, DownlinkOnly, UplinkOnly}
    /\ quiet \in 0..timeout

\* The client sees link.Writer closed only after it has every chunk the
\* server sent and the server closed its stream: a reply cut short by a
\* broken conn or by cancellation never looks complete (task.OnSuccess(
\* responseFunc, task.Close(link.Writer)), lines 284 and 330).  No UDP
\* relay closes link.Writer.
ResponseCloseMeansComplete ==
    outClosed => (srvEnd /\ delivered = srvSent)

\* Process returns whatever the client, the server and the network do: a
\* stalled relay is cut off by the idle timer.
ProcessTerminates ==
    <>(result # "pending")
=============================================================================
