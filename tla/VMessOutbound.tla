---------------------------- MODULE VMessOutbound ----------------------------
(***************************************************************************)
(* The relay phase of the VMess outbound handler, Handler.Process in       *)
(* src/proxy/vmess/outbound/outbound.go, from the moment the dial loop has *)
(* returned a connection.  Two tasks run under task.Run:                   *)
(*   requestDone  : header + first payload (100ms probe), then copy        *)
(*                  link.Reader -> conn, then the end-of-request marker;   *)
(*   responseDone : response header, then copy conn -> link.Writer, and    *)
(*                  on success task.Close(output).                         *)
(* Both share one ActivityTimer; each narrows it in a deferred SetTimeout. *)
(* Payload chunks are counted, not carried: the client's k-th chunk is     *)
(* the number k, and order is preserved by every copy in the code.         *)
(* The environment is the local client (link.Reader), the VMess server on  *)
(* the far end of conn, and a connection that may break at any time.       *)
(***************************************************************************)
EXTENDS Naturals

CONSTANTS
    Securities,     \* account security types the handler may be given
    EnablePadding,  \* the v2ray.vmess.padding environment flag
    MaxChunks,      \* bound on payload chunks in each direction
    IdleTimeout,    \* Timeouts.ConnectionIdle, in ticks
    DownlinkOnly,   \* Timeouts.DownlinkOnly, in ticks
    UplinkOnly      \* Timeouts.UplinkOnly, in ticks

ASSUME Securities \subseteq
        {"AES128_GCM", "CHACHA20_POLY1305", "AUTO", "NONE", "ZERO", "LEGACY"}
ASSUME EnablePadding \in BOOLEAN
ASSUME MaxChunks \in Nat \ {0}
ASSUME {IdleTimeout, DownlinkOnly, UplinkOnly} \subseteq Nat \ {0}

VARIABLES
    security,       \* account.Security
    noTermSignal,   \* account.NoTerminationSignal
    clientSent,     \* chunks the client has written into link.Reader
    clientEOF,      \* the client has closed link.Reader
    taken,          \* chunks requestDone has read from link.Reader
    firstPayload,   \* chunks held in the buffered writer with the header
    hdrSent,        \* the request header has reached the server
    srvGot,         \* request chunks the server has received
    srvEndSeen,     \* the server has read the end-of-request marker
    srvHdr,         \* the server has sent its response header
    srvSent,        \* response chunks the server has sent
    srvEnd,         \* the server has ended its response cleanly
    delivered,      \* response chunks written to link.Writer
    outClosed,      \* task.Close(output) has run
    connBroken,     \* conn has failed; every later read or write errors
    reqPc,          \* control point of requestDone
    respPc,         \* control point of responseDone
    result,         \* what Process returns
    timeout, quiet, ctxDone

Timer == INSTANCE ActivityTimer

vars == <<security, noTermSignal, clientSent, clientEOF, taken, firstPayload,
          hdrSent, srvGot, srvEndSeen, srvHdr, srvSent, srvEnd, delivered,
          outClosed, connBroken, reqPc, respPc, result,
          timeout, quiet, ctxDone>>

timerVars == <<timeout, quiet, ctxDone>>
envVars  == <<clientSent, clientEOF, srvHdr, srvSent, srvEnd, connBroken>>
cfgVars  == <<security, noTermSignal>>
reqVars  == <<taken, firstPayload, hdrSent, srvGot, srvEndSeen, reqPc>>
respVars == <<delivered, outClosed, respPc>>

Finished == {"ok", "err"}

-----------------------------------------------------------------------------
(* The request header options, outbound.go lines 107-129.                  *)

ShouldEnablePadding(s) ==
    EnablePadding \/ s \in {"AES128_GCM", "CHACHA20_POLY1305", "AUTO"}

RequestOptions(s, authLen) ==
    LET chunk  == {"ChunkStream"}
        masked == IF s \in {"AES128_GCM", "NONE", "CHACHA20_POLY1305"}
                  THEN chunk \cup {"ChunkMasking"} ELSE chunk
        padded == IF ShouldEnablePadding(s) /\ "ChunkMasking" \in masked
                  THEN masked \cup {"GlobalPadding"} ELSE masked
        zeroed == IF s = "ZERO"
                  THEN padded \ {"ChunkStream", "ChunkMasking"} ELSE padded
    IN  IF authLen THEN zeroed \cup {"AuthenticatedLength"} ELSE zeroed

\* requestDone writes the end-of-request marker (outbound.go line 194).
SendsTermination ==
    "ChunkStream" \in RequestOptions(security, FALSE) /\ ~noTermSignal

-----------------------------------------------------------------------------
(* requestDone, outbound.go lines 164-201.  Every return runs the deferred *)
(* timer.SetTimeout(DownlinkOnly).                                         *)

ReqReturn(pc) ==
    /\ reqPc' = pc
    /\ Timer!SetTimeout(DownlinkOnly)

\* Mutant: the first payload written straight to conn, ahead of the
\* header still in the buffered writer.
ReqFirstPayloadUnbuffered ==
    /\ reqPc = "probe"
    /\ clientSent > taken
    /\ taken' = taken + 1
    /\ srvGot' = srvGot + 1
    /\ reqPc' = "flush"
    /\ UNCHANGED <<firstPayload, hdrSent, srvEndSeen, timerVars>>

\* EncodeRequestHeader into the buffered writer, then CopyOnceTimeout:
\* one chunk if the client has one, a swallowed ErrReadTimeout if not,
\* and io.EOF, which is not swallowed, if the client has already closed.
ReqFirstPayload ==
    /\ reqPc = "probe"
    /\ \/ /\ clientSent > taken
          /\ taken' = taken + 1
          /\ firstPayload' = 1
          /\ reqPc' = "flush"
          /\ UNCHANGED timerVars
       \/ /\ clientSent = taken /\ ~clientEOF
          /\ reqPc' = "flush"
          /\ UNCHANGED <<taken, firstPayload, timerVars>>
       \/ /\ clientSent = taken /\ clientEOF
          /\ ReqReturn("err")
          /\ UNCHANGED <<taken, firstPayload>>
    /\ UNCHANGED <<hdrSent, srvGot, srvEndSeen>>

\* writer.SetBuffered(false) flushes header and first payload to conn.
ReqFlush ==
    /\ reqPc = "flush"
    /\ IF connBroken
       THEN /\ ReqReturn("err")
            /\ UNCHANGED <<hdrSent, srvGot, firstPayload>>
       ELSE /\ hdrSent' = TRUE
            /\ srvGot' = srvGot + firstPayload
            /\ firstPayload' = 0
            /\ reqPc' = "copy"
            /\ UNCHANGED timerVars
    /\ UNCHANGED <<taken, srvEndSeen>>

\* Mutant: a copy step that does not wait for the client to have data.
ReqCopyChunkUnguarded ==
    /\ reqPc = "copy"
    /\ taken' = taken + 1
    /\ srvGot' = srvGot + 1
    /\ Timer!Update
    /\ UNCHANGED <<reqPc, firstPayload, hdrSent, srvEndSeen>>

\* buf.Copy(input, bodyWriter, UpdateActivity(timer)): one chunk.
ReqCopyChunk ==
    /\ reqPc = "copy"
    /\ clientSent > taken
    /\ taken' = taken + 1
    /\ IF connBroken
       THEN /\ ReqReturn("err")
            /\ UNCHANGED srvGot
       ELSE /\ srvGot' = srvGot + 1
            /\ Timer!Update
            /\ UNCHANGED reqPc
    /\ UNCHANGED <<firstPayload, hdrSent, srvEndSeen>>

\* buf.Copy returns nil at the client's EOF; then the marker, if any.
ReqCopyEOF ==
    /\ reqPc = "copy"
    /\ clientSent = taken /\ clientEOF
    /\ IF SendsTermination
       THEN /\ reqPc' = "signal"
            /\ UNCHANGED timerVars
       ELSE ReqReturn("ok")
    /\ UNCHANGED <<taken, firstPayload, hdrSent, srvGot, srvEndSeen>>

\* bodyWriterOrigin.WriteMultiBuffer(buf.MultiBuffer{}): the empty chunk.
ReqSignal ==
    /\ reqPc = "signal"
    /\ IF connBroken
       THEN /\ ReqReturn("err")
            /\ UNCHANGED srvEndSeen
       ELSE /\ srvEndSeen' = TRUE
            /\ ReqReturn("ok")
    /\ UNCHANGED <<taken, firstPayload, hdrSent, srvGot>>

\* Mutant: the end-of-request marker written on every return, as a
\* deferred write would, so also after a cancelled copy.
ReqCancelledSignals ==
    /\ reqPc = "copy"
    /\ ctxDone
    /\ clientSent = taken /\ ~clientEOF
    /\ srvEndSeen' = (SendsTermination /\ ~connBroken)
    /\ ReqReturn("err")
    /\ UNCHANGED <<taken, firstPayload, hdrSent, srvGot>>

\* The cancelled context unblocks the copy's pending read.
ReqCancelled ==
    /\ reqPc = "copy"
    /\ ctxDone
    /\ clientSent = taken /\ ~clientEOF
    /\ ReqReturn("err")
    /\ UNCHANGED <<taken, firstPayload, hdrSent, srvGot, srvEndSeen>>

-----------------------------------------------------------------------------
(* responseDone, outbound.go lines 203-225: the deferred                   *)
(* SetTimeout(UplinkOnly) on every return, and task.OnSuccess closing      *)
(* link.Writer when it returns nil.                                        *)

\* Mutant: link.Writer closed on every return of responseDone, as a
\* deferred Close would, instead of only on success.
RespReturnCloseAlways(pc) ==
    /\ respPc' = pc
    /\ outClosed' = TRUE
    /\ Timer!SetTimeout(UplinkOnly)

RespReturn(pc) ==
    /\ respPc' = pc
    /\ outClosed' = (pc = "ok")
    /\ Timer!SetTimeout(UplinkOnly)

\* session.DecodeResponseHeader: fails on a broken conn or a server that
\* closed without a header.
RespHeader ==
    /\ respPc = "header"
    /\ \/ /\ srvHdr /\ ~connBroken
          /\ respPc' = "copy"
          /\ UNCHANGED <<outClosed, timerVars>>
       \/ /\ connBroken \/ (srvEnd /\ ~srvHdr)
          /\ RespReturn("err")
    /\ UNCHANGED delivered

\* buf.Copy(bodyReader, output, UpdateActivity(timer)): one chunk.
RespCopyChunk ==
    /\ respPc = "copy"
    /\ srvSent > delivered
    /\ IF connBroken
       THEN /\ RespReturn("err")
            /\ UNCHANGED delivered
       ELSE /\ delivered' = delivered + 1
            /\ Timer!Update
            /\ UNCHANGED <<respPc, outClosed>>

\* The body reader reports the end of the response: buf.Copy returns nil.
RespCopyEOF ==
    /\ respPc = "copy"
    /\ srvSent = delivered /\ srvEnd /\ ~connBroken
    /\ RespReturn("ok")
    /\ UNCHANGED delivered

\* A pending read on conn fails: broken, or unblocked by cancellation.
RespFail ==
    /\ respPc \in {"header", "copy"}
    /\ srvSent = delivered
    /\ connBroken \/ ctxDone
    /\ RespReturn("err")
    /\ UNCHANGED delivered

-----------------------------------------------------------------------------
(* task.Run(ctx, requestDone, responsePost) (common/task, outside src/):   *)
(* returns the first task error, returns when the context is cancelled,    *)
(* and returns nil once both tasks have returned nil.  An idle            *)
(* cancellation is a clean end.  Process wraps an error as                 *)
(* "connection ends" (outbound.go lines 226-230).                          *)

RunReturn ==
    /\ result = "pending"
    /\ \/ /\ "err" \in {reqPc, respPc}
          /\ result' = "err"
       \/ /\ reqPc = "ok" /\ respPc = "ok"
          /\ result' = "ok"
       \/ /\ ctxDone
          /\ result' = "ok"
    /\ UNCHANGED <<cfgVars, envVars, reqVars, respVars, timerVars>>

-----------------------------------------------------------------------------
(* The environment.                                                        *)

ClientSend ==
    /\ ~clientEOF /\ clientSent < MaxChunks
    /\ clientSent' = clientSent + 1
    /\ UNCHANGED <<clientEOF, srvHdr, srvSent, srvEnd, connBroken>>

ClientClose ==
    /\ ~clientEOF
    /\ clientEOF' = TRUE
    /\ UNCHANGED <<clientSent, srvHdr, srvSent, srvEnd, connBroken>>

\* The server answers only a request header it has received.
ServerHeader ==
    /\ hdrSent /\ ~srvHdr /\ ~srvEnd
    /\ srvHdr' = TRUE
    /\ UNCHANGED <<clientSent, clientEOF, srvSent, srvEnd, connBroken>>

ServerSend ==
    /\ srvHdr /\ ~srvEnd /\ srvSent < MaxChunks
    /\ srvSent' = srvSent + 1
    /\ UNCHANGED <<clientSent, clientEOF, srvHdr, srvEnd, connBroken>>

ServerEnd ==
    /\ hdrSent /\ ~srvEnd
    /\ srvEnd' = TRUE
    /\ UNCHANGED <<clientSent, clientEOF, srvHdr, srvSent, connBroken>>

ConnBreak ==
    /\ ~connBroken
    /\ connBroken' = TRUE
    /\ UNCHANGED <<clientSent, clientEOF, srvHdr, srvSent, srvEnd>>

Environment ==
    /\ \/ ClientSend \/ ClientClose \/ ServerHeader
       \/ ServerSend \/ ServerEnd \/ ConnBreak
    /\ UNCHANGED <<cfgVars, reqVars, respVars, result, timerVars>>

-----------------------------------------------------------------------------

Init ==
    /\ security \in Securities
    /\ noTermSignal \in BOOLEAN
    /\ clientSent = 0 /\ clientEOF = FALSE
    /\ taken = 0 /\ firstPayload = 0
    /\ hdrSent = FALSE /\ srvGot = 0 /\ srvEndSeen = FALSE
    /\ srvHdr = FALSE /\ srvSent = 0 /\ srvEnd = FALSE
    /\ delivered = 0 /\ outClosed = FALSE
    /\ connBroken = FALSE
    /\ reqPc = "probe" /\ respPc = "header"
    /\ result = "pending"
    /\ Timer!TimerInit(IdleTimeout)

RequestDone ==
    /\ \/ ReqFirstPayload \/ ReqFlush \/ ReqCopyChunk
       \/ ReqCopyEOF \/ ReqSignal \/ ReqCancelled
    /\ UNCHANGED <<cfgVars, envVars, respVars, result>>

ResponseDone ==
    /\ \/ RespHeader \/ RespCopyChunk \/ RespCopyEOF \/ RespFail
    /\ UNCHANGED <<cfgVars, envVars, reqVars, result>>

TimerStep ==
    /\ Timer!Tick \/ Timer!Expire
    /\ UNCHANGED <<cfgVars, envVars, reqVars, respVars, result>>

Next ==
    \/ RequestDone
    \/ ResponseDone
    \/ RunReturn
    \/ TimerStep
    \/ Environment

\* The two task goroutines, task.Run and the timer goroutine are scheduled
\* by the Go runtime; the client and the server owe nothing.
Fairness ==
    /\ WF_vars(RequestDone)
    /\ WF_vars(ResponseDone)
    /\ WF_vars(RunReturn)
    /\ WF_vars(TimerStep)

Spec == Init /\ [][Next]_vars /\ Fairness

-----------------------------------------------------------------------------

TypeOK ==
    /\ security \in Securities /\ noTermSignal \in BOOLEAN
    /\ clientSent \in 0..MaxChunks /\ taken \in 0..clientSent
    /\ firstPayload \in 0..1 /\ srvGot \in 0..MaxChunks
    /\ srvSent \in 0..MaxChunks /\ delivered \in 0..srvSent
    /\ {clientEOF, hdrSent, srvEndSeen, srvHdr, srvEnd, outClosed,
        connBroken, ctxDone} \subseteq BOOLEAN
    /\ reqPc \in {"probe", "flush", "copy", "signal"} \cup Finished
    /\ respPc \in {"header", "copy"} \cup Finished
    /\ result \in {"pending"} \cup Finished
    /\ timeout \in {IdleTimeout, DownlinkOnly, UplinkOnly}
    /\ quiet \in 0..timeout

-----------------------------------------------------------------------------
(* Properties.                                                             *)

\* The client sees link.Writer closed (a clean end of the response) only
\* after it has been given every chunk the server sent and the server has
\* ended its response: a response cut short by a broken conn or by
\* cancellation never looks complete (task.OnSuccess(responseDone,
\* task.Close(output)), outbound.go line 225).
ResponseCloseMeansComplete ==
    outClosed => (srvEnd /\ delivered = srvSent)

\* The server reads the end-of-request marker only after it has received
\* every chunk the client wrote and the client has closed its stream: an
\* upload cut short never looks complete to the server (requestDone,
\* outbound.go lines 190-198).
RequestEndMeansComplete ==
    srvEndSeen => (clientEOF /\ srvGot = clientSent)

\* Until requestDone fails, every chunk it has taken from link.Reader is
\* either still in the buffered writer behind the request header (the
\* 100 ms first payload, before SetBuffered(false)) or at the server, and
\* the server sees the header before any payload (outbound.go lines
\* 167-190).  A failure between the probe and the flush ends the relay.
FirstPayloadKept ==
    /\ reqPc # "err" => srvGot + firstPayload = taken
    /\ srvGot > 0 => hdrSent

\* Process returns, whatever the client and the server do: a stalled peer
\* is cut off by the idle timer (outbound.go lines 147-148, 226).
ProcessTerminates ==
    <>(result # "pending")

\* A client that closes link.Reader cleanly, with a live conn and no
\* cancellation, never makes Process fail: the spec says a clean EOF is
\* not an error and the first-payload probe's failure is swallowed
\* (outbound.go line 182).
ClientEOFIsNotAnError ==
    result = "err" => (connBroken \/ ctxDone)
=============================================================================
