------------------------------ MODULE ObfsServer ------------------------------
(***************************************************************************)
(* The simple-obfs inbound: inbound.Process (simpleobfs/server.go), which  *)
(* runs processHTTP (http_server.go) or processTLS (tls_server.go), and    *)
(* doFallback (server.go lines 55-78).                                     *)
(*                                                                         *)
(* The client's bytes are three segments: 1 is the disguise (the HTTP      *)
(* request head, or the TLS record holding the ClientHello), 2 and 3 are   *)
(* the data that follows.  In the HTTP case a request with a body carries  *)
(* segment 2 as the body.  A TLS ClientHello may carry a SessionTicket     *)
(* extension whose data, segment 0, is the smuggled first payload.         *)
(*                                                                         *)
(* `pos' is how far the connection has been read through the caching      *)
(* reader: bufio.Reader may read ahead of what http.ReadRequest consumes,  *)
(* while record.ReadFrom reads exactly one record.  `used' is how far the  *)
(* handler has consumed the stream; segments used+1..pos sit in bufio's    *)
(* buffer.  Until release() the caching reader holds segments 1..pos.      *)
(***************************************************************************)
EXTENDS Naturals, Sequences, SequencesExt

Stream == <<1, 2, 3>>
Ticket == 0

HttpKinds == {"garbage", "wsGet", "wsGetBody", "plainGet", "postBody"}
TlsKinds  == {"garbage", "notHandshake", "badHello", "hello", "helloTicket"}

\* What the client means the upstream to receive after the disguise.
Payload(kind) ==
    IF kind = "helloTicket" THEN <<Ticket, 2, 3>> ELSE <<2, 3>>

HasBody(kind)     == kind \in {"wsGetBody", "postBody"}
IsWebSocket(kind) == kind \in {"wsGet", "wsGetBody"}

VARIABLES
    mode,           \* h.mode: "http" or "tls"
    kind,           \* what the client sent
    hasFallback,    \* h.fallback.IsValid()
    pos,            \* segments read from the connection
    used,           \* segments consumed by the handler
    cacheOn,        \* the caching reader still records
    upLink,         \* the upstream link: "none", "open"
    upGot,          \* what the upstream link has been given
    fbLink,         \* the fallback link: "none", "open"
    fbGot,          \* what the fallback link has been given
    fbPayload,      \* the payload doFallback was called with
    rejected,       \* the handler decided the disguise is not valid
    accepted,       \* the handler accepted the disguise
    reply,          \* the client has received the 101 / ServerHello
    failed,         \* some call has failed
    peerClosed,     \* the client has closed its side of the connection
    pc,
    result

vars == <<mode, kind, hasFallback, pos, used, cacheOn, upLink, upGot,
          fbLink, fbGot, fbPayload, rejected, accepted, reply, failed,
          peerClosed, pc, result>>

CachedBytes == IF cacheOn THEN SubSeq(Stream, 1, pos) ELSE <<>>

Max2(a, b) == IF a >= b THEN a ELSE b

\* return h.doFallback(ctx, connection, dispatcher, payload)
GoFallback(payload) ==
    /\ fbPayload' = payload
    /\ pc' = "fallback"

-----------------------------------------------------------------------------
(* processHTTP, http_server.go lines 18-75.                                *)

\* http.ReadRequest(bufio.NewReader(cachedReader)): bufio may read ahead.
HttpReadRequest ==
    /\ pc = "read" /\ mode = "http"
    /\ \E p \in 1..Len(Stream) :
        /\ pos' = p
        /\ used' = 1
        /\ IF kind = "garbage"
           THEN /\ rejected' = TRUE
                /\ GoFallback(SubSeq(Stream, 1, p))
           ELSE /\ pc' = "dispatch"
                /\ UNCHANGED <<peerClosed, rejected, fbPayload>>
    /\ UNCHANGED <<peerClosed, mode, kind, hasFallback, cacheOn, upLink, upGot, fbLink,
                   fbGot, accepted, reply, failed, result>>

\* dispatcher.Dispatch(ctx, h.upstream); a failure falls back with nil.
HttpDispatch ==
    /\ pc = "dispatch" /\ mode = "http"
    /\ \/ /\ upLink' = "open"
          /\ pc' = IF HasBody(kind) THEN "body" ELSE "check"
          /\ UNCHANGED <<peerClosed, failed, fbPayload>>
       \/ /\ failed' = TRUE
          /\ GoFallback(<<>>)
          /\ UNCHANGED upLink
    /\ UNCHANGED <<peerClosed, mode, kind, hasFallback, pos, used, cacheOn, upGot, fbLink,
                   fbGot, rejected, accepted, reply, result>>

\* request.ContentLength > 0: buf.Copy(request.Body, link.Writer).
HttpCopyBody ==
    /\ pc = "body"
    /\ pos' = Max2(pos, 2)
    /\ used' = 2
    /\ \/ /\ upGot' = <<2>>
          /\ pc' = "check"
          /\ UNCHANGED <<peerClosed, failed, fbPayload>>
       \/ /\ failed' = TRUE
          /\ GoFallback(SubSeq(Stream, 1, Max2(pos, 2)))
          /\ UNCHANGED upGot
    /\ UNCHANGED <<peerClosed, mode, kind, hasFallback, cacheOn, upLink, fbLink, fbGot,
                   rejected, accepted, reply, result>>

\* Mutant: release() before the check, so the fallback gets no cached bytes.
HttpCheckUpgradeReleasedFirst ==
    /\ pc = "check"
    /\ cacheOn' = FALSE
    /\ IF IsWebSocket(kind)
       THEN /\ accepted' = TRUE
            /\ pc' = "reply"
            /\ UNCHANGED <<peerClosed, rejected, fbPayload>>
       ELSE /\ rejected' = TRUE
            /\ GoFallback(<<>>)
            /\ UNCHANGED accepted
    /\ UNCHANGED <<peerClosed, mode, kind, hasFallback, pos, used, upLink, upGot, fbLink,
                   fbGot, reply, failed, result>>

\* The method, Upgrade and Sec-WebSocket-Key check; then release().
HttpCheckUpgrade ==
    /\ pc = "check"
    /\ IF IsWebSocket(kind)
       THEN /\ accepted' = TRUE
            /\ cacheOn' = FALSE
            /\ pc' = "reply"
            /\ UNCHANGED <<peerClosed, rejected, fbPayload>>
       ELSE /\ rejected' = TRUE
            /\ GoFallback(CachedBytes)
            /\ UNCHANGED <<peerClosed, accepted, cacheOn>>
    /\ UNCHANGED <<peerClosed, mode, kind, hasFallback, pos, used, upLink, upGot, fbLink,
                   fbGot, reply, failed, result>>

\* task.OnSuccess(response.Write(connection), relay): the 101 response.
HttpReply ==
    /\ pc = "reply"
    /\ \/ /\ reply' = TRUE
          /\ pc' = "relay"
          /\ UNCHANGED <<peerClosed, failed, result>>
       \/ /\ failed' = TRUE
          /\ pc' = "done"
          /\ result' = "err"
          /\ UNCHANGED reply
    /\ UNCHANGED <<peerClosed, mode, kind, hasFallback, pos, used, cacheOn, upLink, upGot,
                   fbLink, fbGot, fbPayload, rejected, accepted>>

\* Mutant: the relay reads the connection, not br, skipping what bufio holds.
HttpRelayStepFromConn ==
    /\ pc = "relay"
    /\ pos < Len(Stream)
    /\ used' = pos + 1
    /\ pos' = pos + 1
    /\ upGot' = Append(upGot, Stream[pos + 1])
    /\ UNCHANGED <<peerClosed, mode, kind, hasFallback, cacheOn, upLink, fbLink, fbGot,
                   fbPayload, rejected, accepted, reply, failed, pc, result>>

\* Mutant: a segment taken past bufio's buffer without reading the connection.
HttpRelayStepNoRead ==
    /\ pc = "relay"
    /\ used < Len(Stream)
    /\ used' = used + 1
    /\ upGot' = Append(upGot, Stream[used + 1])
    /\ UNCHANGED <<peerClosed, mode, kind, hasFallback, pos, cacheOn, upLink, fbLink, fbGot,
                   fbPayload, rejected, accepted, reply, failed, pc, result>>

\* buf.Copy(buf.NewReader(br), link.Writer): the next segment, from bufio's
\* buffer first and then from the connection.
HttpRelayStep ==
    /\ pc = "relay"
    /\ used < Len(Stream)
    /\ used' = used + 1
    /\ pos' = Max2(pos, used + 1)
    /\ upGot' = Append(upGot, Stream[used + 1])
    /\ UNCHANGED <<peerClosed, mode, kind, hasFallback, cacheOn, upLink, fbLink, fbGot,
                   fbPayload, rejected, accepted, reply, failed, pc, result>>

\* task.Run returns once the client's EOF ends the uplink copy (the
\* downlink copy ends with the upstream's response).  `err' is the func
\* task.OnSuccess returned, never nil, so Process returns
\* newError("connection ends").Base(err()) even after a clean relay.
HttpRelayEnd ==
    /\ pc = "relay"
    /\ used = Len(Stream) /\ peerClosed
    /\ pc' = "done"
    /\ result' = "err"
    /\ UNCHANGED <<peerClosed, mode, kind, hasFallback, pos, used, cacheOn,
                   upLink, upGot, fbLink, fbGot, fbPayload, rejected, accepted,
                   reply, failed>>

\* A copy fails (the conn or the link breaks), and task.Run returns its
\* error.
HttpRelayFail ==
    /\ pc = "relay"
    /\ failed' = TRUE
    /\ pc' = "done"
    /\ result' = "err"
    /\ UNCHANGED <<peerClosed, mode, kind, hasFallback, pos, used, cacheOn,
                   upLink, upGot, fbLink, fbGot, fbPayload, rejected, accepted,
                   reply>>

-----------------------------------------------------------------------------
(* processTLS, tls_server.go lines 17-96.                                  *)

\* record.ReadFrom(cachedReader), the Handshake type check and
\* clientMsg.Decode; each failure falls back with the cached bytes.
TlsReadHello ==
    /\ pc = "read" /\ mode = "tls"
    /\ pos' = 1
    /\ used' = 1
    /\ IF kind \in {"garbage", "notHandshake", "badHello"}
       THEN /\ rejected' = TRUE
            /\ GoFallback(<<1>>)
       ELSE /\ pc' = "dispatch"
            /\ UNCHANGED <<peerClosed, rejected, fbPayload>>
    /\ UNCHANGED <<peerClosed, mode, kind, hasFallback, cacheOn, upLink, upGot, fbLink,
                   fbGot, accepted, reply, failed, result>>

\* dispatcher.Dispatch(ctx, h.upstream); a failure falls back with nil.
TlsDispatch ==
    /\ pc = "dispatch" /\ mode = "tls"
    /\ \/ /\ upLink' = "open"
          /\ pc' = "ticket"
          /\ UNCHANGED <<peerClosed, failed, fbPayload>>
       \/ /\ failed' = TRUE
          /\ GoFallback(<<>>)
          /\ UNCHANGED upLink
    /\ UNCHANGED <<peerClosed, mode, kind, hasFallback, pos, used, cacheOn, upGot, fbLink,
                   fbGot, rejected, accepted, reply, result>>

\* The SessionTicket extension, if any, is encoded and written upstream;
\* then release(), and the ServerHello and ChangeCipherSpec records are
\* written into the BufferedWriter, which nothing flushes; return nil.
TlsForwardTicket ==
    /\ pc = "ticket"
    /\ \/ /\ kind = "helloTicket"
          /\ failed' = TRUE
          /\ GoFallback(CachedBytes)
          /\ UNCHANGED <<peerClosed, upGot, accepted, cacheOn, result>>
       \/ /\ upGot' = IF kind = "helloTicket" THEN <<Ticket>> ELSE <<>>
          /\ accepted' = TRUE
          /\ cacheOn' = FALSE
          /\ pc' = "done"
          /\ result' = "ok"
          /\ UNCHANGED <<peerClosed, failed, fbPayload>>
    /\ UNCHANGED <<peerClosed, mode, kind, hasFallback, pos, used, upLink, fbLink, fbGot,
                   rejected, reply>>

-----------------------------------------------------------------------------
(* doFallback, server.go lines 55-78.                                      *)

\* No fallback: close the connection and return nil.  Otherwise dispatch
\* to it and write the payload, if not empty.
FallbackOpen ==
    /\ pc = "fallback"
    /\ \/ /\ ~hasFallback
          /\ pc' = "done"
          /\ result' = "ok"
          /\ UNCHANGED <<peerClosed, fbLink, fbGot, failed>>
       \/ /\ hasFallback
          /\ failed' = TRUE
          /\ pc' = "done"
          /\ result' = "err"
          /\ UNCHANGED <<peerClosed, fbLink, fbGot>>
       \/ /\ hasFallback
          /\ fbLink' = "open"
          /\ fbGot' = fbPayload
          /\ pc' = "fbrelay"
          /\ UNCHANGED <<peerClosed, failed, result>>
    /\ UNCHANGED <<peerClosed, mode, kind, hasFallback, pos, used, cacheOn, upLink, upGot,
                   fbPayload, rejected, accepted, reply>>

\* buf.Copy(buf.NewReader(connection), link.Writer): the next segment read
\* from the connection itself.
FallbackRelayStep ==
    /\ pc = "fbrelay"
    /\ pos < Len(Stream)
    /\ pos' = pos + 1
    /\ fbGot' = Append(fbGot, Stream[pos + 1])
    /\ UNCHANGED <<peerClosed, mode, kind, hasFallback, used, cacheOn, upLink, upGot,
                   fbLink, fbPayload, rejected, accepted, reply, failed, pc,
                   result>>

\* task.Run returns nil once the client's EOF ends the uplink copy.
FallbackRelayEnd ==
    /\ pc = "fbrelay"
    /\ pos = Len(Stream) /\ peerClosed
    /\ pc' = "done"
    /\ result' = "ok"
    /\ UNCHANGED <<peerClosed, mode, kind, hasFallback, pos, used, cacheOn,
                   upLink, upGot, fbLink, fbGot, fbPayload, rejected, accepted,
                   reply, failed>>

\* A copy fails, and task.Run returns its error.
FallbackRelayFail ==
    /\ pc = "fbrelay"
    /\ failed' = TRUE
    /\ pc' = "done"
    /\ result' = "err"
    /\ UNCHANGED <<peerClosed, mode, kind, hasFallback, pos, used, cacheOn,
                   upLink, upGot, fbLink, fbGot, fbPayload, rejected, accepted,
                   reply>>

\* The client closes its side of the connection: the reads past its last
\* segment return EOF.  It may also stay connected and silent.
PeerClose ==
    /\ ~peerClosed
    /\ peerClosed' = TRUE
    /\ UNCHANGED <<mode, kind, hasFallback, pos, used, cacheOn, upLink, upGot,
                   fbLink, fbGot, fbPayload, rejected, accepted, reply, failed,
                   pc, result>>

-----------------------------------------------------------------------------

\* inbound.Process: h.mode "http" runs processHTTP, anything else processTLS.
Init ==
    /\ mode \in {"http", "tls"}
    /\ kind \in (IF mode = "http" THEN HttpKinds ELSE TlsKinds)
    /\ hasFallback \in BOOLEAN
    /\ pos = 0 /\ used = 0 /\ cacheOn = TRUE
    /\ upLink = "none" /\ upGot = <<>>
    /\ fbLink = "none" /\ fbGot = <<>> /\ fbPayload = <<>>
    /\ rejected = FALSE /\ accepted = FALSE /\ reply = FALSE
    /\ failed = FALSE /\ peerClosed = FALSE
    /\ pc = "read"
    /\ result = "pending"

ProcessHTTP ==
    \/ HttpReadRequest \/ HttpDispatch \/ HttpCopyBody \/ HttpCheckUpgrade
    \/ HttpReply \/ HttpRelayStep \/ HttpRelayEnd

ProcessTLS == TlsReadHello \/ TlsDispatch \/ TlsForwardTicket

DoFallback == FallbackOpen \/ FallbackRelayStep \/ FallbackRelayEnd

\* What breaks: a relay copy's conn or link.
Faults == HttpRelayFail \/ FallbackRelayFail

Next == ProcessHTTP \/ ProcessTLS \/ DoFallback \/ Faults \/ PeerClose

\* The handler's goroutines run when they can; faults and the client's
\* close are not owed.  No timer of the handler's own would end a relay.
Fairness == WF_vars(ProcessHTTP \/ ProcessTLS \/ DoFallback)

Spec == Init /\ [][Next]_vars /\ Fairness

-----------------------------------------------------------------------------

TypeOK ==
    /\ mode \in {"http", "tls"}
    /\ kind \in HttpKinds \cup TlsKinds
    /\ hasFallback \in BOOLEAN
    /\ pos \in 0..Len(Stream) /\ used \in 0..pos
    /\ upLink \in {"none", "open"} /\ fbLink \in {"none", "open"}
    /\ upGot \in Seq({Ticket} \cup {2, 3})
    /\ fbGot \in Seq({1, 2, 3}) /\ fbPayload \in Seq({1, 2, 3})
    /\ {cacheOn, rejected, accepted, reply, failed, peerClosed} \subseteq BOOLEAN
    /\ pc \in {"read", "dispatch", "body", "check", "reply", "relay",
               "ticket", "fallback", "fbrelay", "done"}
    /\ result \in {"pending", "ok", "err"}

\* Traffic the handler rejects as not its disguise reaches the fallback
\* byte for byte and in order: the cached bytes (whatever bufio read ahead
\* included) and then the rest of the connection, the whole stream once the
\* fallback relay ends cleanly (spec 4.6, test 5).
RejectedGoesToFallbackIntact ==
    (fbLink = "open" /\ rejected) =>
        /\ IsPrefix(fbGot, Stream)
        /\ (pc = "done" /\ result = "ok") => fbGot = Stream

\* The upstream receives the client's payload, and only it, in order: the
\* smuggled ticket or request body first, then what bufio buffered, then
\* the connection.
UpstreamGetsPayloadIntact ==
    IsPrefix(upGot, Payload(kind))

\* Traffic that is not the disguise is never dispatched upstream (spec 4.6,
\* test 5).
RejectedNotDispatched ==
    rejected => upLink = "none"

\* Whatever reaches the fallback is the client's stream from its start:
\* no path into doFallback drops the bytes already consumed.
FallbackAlwaysIntact ==
    fbLink = "open" => IsPrefix(fbGot, Stream)

\* An accepted connection that met no failure has been served: the client
\* has its 101 or ServerHello, and the upstream has the whole payload.
AcceptedIsServed ==
    (pc = "done" /\ accepted /\ ~failed) =>
        reply /\ upGot = Payload(kind)

\* A connection that ends without a failed call ends without an error: the
\* spec says a clean EOF is not an error, and processHTTP's relay ends on
\* the client's EOF (task.OnSuccess and its check, http_server.go 61-70).
CleanEndNotAnError ==
    (pc = "done" /\ ~failed) => result = "ok"

\* Every Process call returns, even when the client stops sending without
\* closing: the spec's relays end on an idle timeout, and processHTTP's and
\* doFallback's relays run under task.Run(ctx, ...) (http_server.go 64,
\* server.go 70).
ProcessReturns ==
    pc = "read" ~> pc = "done"
=============================================================================
