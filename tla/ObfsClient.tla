------------------------------ MODULE ObfsClient ------------------------------
(***************************************************************************)
(* The simple-obfs outbound (simpleobfs/client.go, http_client.go,         *)
(* tls_client.go): one Process call.                                       *)
(*                                                                         *)
(* HTTP: dial, put a WebSocket Upgrade GET into a buffered writer, copy    *)
(* at most one read of the link into the same buffer (100 ms timeout),     *)
(* flush, then task.Run(uplink copy, response check + downlink copy).      *)
(* The response is parsed through a bufio.Reader, which may read ahead     *)
(* into the tunnel data; the downlink copies from that reader.             *)
(*                                                                         *)
(* TLS: read the link once (100 ms timeout) before dialling, smuggle what  *)
(* was read in a SessionTicket of the ClientHello, then task.Run(uplink    *)
(* split into ApplicationData records of at most MaxTLSDataLen bytes,      *)
(* downlink through tlsObfsClientConn.Read).                               *)
(*                                                                         *)
(* Link and server data are short byte sequences; the conn is a sequence   *)
(* of records as the peer's parser would see them.                         *)
(***************************************************************************)
EXTENDS Naturals, Sequences, SequencesExt

CONSTANTS
    Up,             \* the link's uplink: a sequence of MultiBuffers (byte seqs)
    DownData,       \* the tunnel bytes the server sends after its handshake
    MaxTLSDataLen   \* maxTLSDataLen

ASSUME MaxTLSDataLen \in Nat \ {0}

Modes      == {"http", "tls"}
\* The 100 ms read of the link: data, a timeout, another error, or a link
\* reader that is not a buf.TimeoutReader.
ReadResults == {"data", "timeout", "error", "noTimeout"}
\* The server's response: 101 with Upgrade: websocket, 101 without it, 200,
\* or bytes that are not an HTTP response.
RespKinds  == {"101ws", "101", "200", "garbage"}

\* The response's status is 101, and its Upgrade header is websocket.
Is101(k)  == k \in {"101ws", "101"}
IsWsUp(k) == k = "101ws"

Hdr(kind, data) == [kind |-> kind, data |-> data]

\* tlsObfsClientConn.WriteMultiBuffer: buf.SplitSize(buffer, maxTLSDataLen)
\* until the buffer is empty, one AppData record per piece.
SplitRecords(mb) ==
    LET RECURSIVE Split(_)
        Split(s) ==
            IF s = <<>> THEN <<>>
            ELSE LET n == IF Len(s) < MaxTLSDataLen THEN Len(s) ELSE MaxTLSDataLen
                 IN <<Hdr("data", SubSeq(s, 1, n))>> \o Split(SubSeq(s, n + 1, Len(s)))
    IN Split(mb)

VARIABLES
    mode,           \* o.mode, which picks the processor
    dialOk,         \* whether dialer.Dial succeeds
    firstRead,      \* the outcome of the 100 ms read of the link
    respKind,       \* the server's HTTP response
    pc,             \* Process: "start", "dialed", "read", "run", "done", "panic"
    upTaken,        \* MultiBuffers read from the link
    bufw,           \* the buffered writer's pending records (HTTP)
    wire,           \* records written to the conn
    up,             \* task.Run's uplink function: "run", "done", "err"
    down,           \* the downlink function: "parse", "run", "done", "err"
    brBuf,          \* bytes the bufio.Reader read ahead past the response
    connPos,        \* tunnel bytes taken off the conn
    downGot,        \* bytes written to link.Writer
    result          \* Process's return: "none", "ok", "dial failed",
                    \* "write failed", "connection ends"

vars == <<mode, dialOk, firstRead, respKind, pc, upTaken, bufw, wire, up, down,
          brBuf, connPos, downGot, result>>
env  == <<mode, dialOk, firstRead, respKind>>

Upstream == FlattenSeq(Up)

\* The server sees the handshake first and only data records after it.
HandshakeFirst ==
    wire # <<>> =>
        /\ wire[1].kind \in {"hdr", "hello"}
        /\ \A i \in 2..Len(wire) : wire[i].kind = "data"

\* What the server recovers from the conn: the smuggled or header payload,
\* then every data record.
ServerRecovers ==
    FlattenSeq([i \in 1..Len(wire) |-> wire[i].data])

-----------------------------------------------------------------------------
(* HTTP                                                                    *)

\* Lines 20-37: dial, then req.Write into the buffered writer.
HttpDial ==
    /\ pc = "start" /\ mode = "http"
    /\ IF dialOk
       THEN pc' = "dialed" /\ bufw' = <<Hdr("hdr", <<>>)>> /\ UNCHANGED result
       ELSE pc' = "done" /\ result' = "dial failed" /\ UNCHANGED bufw
    /\ UNCHANGED <<env, upTaken, wire, up, down, brBuf, connPos, downGot>>

\* Mutant: the first payload written straight to the conn.
HttpFirstPayloadUnbuffered ==
    /\ pc = "dialed"
    /\ IF firstRead = "error"
       THEN pc' = "done" /\ result' = "write failed" /\ UNCHANGED <<upTaken, wire, up, down>>
       ELSE LET pay == IF firstRead = "data" THEN <<Hdr("data", Up[1])>> ELSE <<>>
            IN /\ upTaken' = Len(pay)
               /\ wire' = pay \o bufw
               /\ pc' = "run" /\ up' = "run" /\ down' = "parse"
               /\ UNCHANGED result
    /\ bufw' = <<>>
    /\ UNCHANGED <<env, brBuf, connPos, downGot>>

\* Lines 40-45: CopyOnceTimeout of the link into the buffer (a timeout or a
\* reader without timeouts copies nothing, any other error returns), then
\* SetBuffered(false) flushes header and payload, and task.Run starts.
HttpFirstPayload ==
    /\ pc = "dialed"
    /\ IF firstRead = "error"
       THEN pc' = "done" /\ result' = "write failed" /\ UNCHANGED <<upTaken, wire, up, down>>
       ELSE LET pay == IF firstRead = "data" THEN <<Hdr("data", Up[1])>> ELSE <<>>
            IN /\ upTaken' = Len(pay)
               /\ wire' = bufw \o pay
               /\ pc' = "run" /\ up' = "run" /\ down' = "parse"
               /\ UNCHANGED result
    /\ bufw' = <<>>
    /\ UNCHANGED <<env, brBuf, connPos, downGot>>

\* Lines 51-58: http.ReadResponse through bufio.Reader br, which may read
\* up to k tunnel bytes past the response; a parse error or a response
\* other than 101 with Upgrade: websocket ends the function with an error.
HttpReadResponse ==
    /\ pc = "run" /\ mode = "http" /\ down = "parse"
    /\ IF respKind = "garbage" \/ ~Is101(respKind) \/ ~IsWsUp(respKind)
       THEN down' = "err" /\ UNCHANGED <<brBuf, connPos>>
       ELSE \E k \in 0..Len(DownData) :
              /\ brBuf' = SubSeq(DownData, 1, k)
              /\ connPos' = k
              /\ down' = "run"
    /\ UNCHANGED <<env, pc, upTaken, bufw, wire, up, downGot, result>>

\* Mutant: the downlink copied from conn instead of br.
HttpDownCopyFromConn ==
    /\ pc = "run" /\ mode = "http" /\ down = "run"
    /\ connPos < Len(DownData)
    /\ downGot' = Append(downGot, DownData[connPos + 1])
    /\ connPos' = connPos + 1
    /\ UNCHANGED <<env, pc, upTaken, bufw, wire, up, down, brBuf, result>>

\* Line 59: buf.Copy(buf.NewReader(br), link.Writer), one read: what br
\* holds, else the next bytes of the conn.
HttpDownCopy ==
    /\ pc = "run" /\ mode = "http" /\ down = "run"
    /\ \/ /\ brBuf # <<>>
          /\ downGot' = Append(downGot, Head(brBuf))
          /\ brBuf' = Tail(brBuf)
          /\ UNCHANGED connPos
       \/ /\ brBuf = <<>> /\ connPos < Len(DownData)
          /\ downGot' = Append(downGot, DownData[connPos + 1])
          /\ connPos' = connPos + 1
          /\ UNCHANGED brBuf
    /\ UNCHANGED <<env, pc, upTaken, bufw, wire, up, down, result>>

-----------------------------------------------------------------------------
(* TLS                                                                     *)

\* Line 17: ReadMultiBufferTimeout before dialling, through an unchecked
\* type assertion to buf.TimeoutReader, which panics on any other reader.
TlsReadPayload ==
    /\ pc = "start" /\ mode = "tls"
    /\ upTaken' = IF firstRead = "data" THEN 1 ELSE 0
    /\ pc' = IF firstRead = "noTimeout" THEN "panic" ELSE "read"
    /\ UNCHANGED <<env, bufw, wire, up, down, brBuf, connPos, downGot, result>>

\* Lines 19-69: dial; a failed dial returns (what was read is dropped);
\* otherwise write the ClientHello record, with the payload as a
\* SessionTicket when the read succeeded, and start task.Run.
TlsDial ==
    /\ pc = "read"
    /\ IF dialOk
       THEN /\ wire' = <<Hdr("hello", IF firstRead = "data" THEN Up[1] ELSE <<>>)>>
            /\ pc' = "run" /\ up' = "run" /\ down' = "run"
            /\ UNCHANGED result
       ELSE pc' = "done" /\ result' = "dial failed" /\ UNCHANGED <<wire, up, down>>
    /\ UNCHANGED <<env, upTaken, bufw, brBuf, connPos, downGot>>

\* Lines 92-101: conn.Read returns tunnel bytes and, as n > 0, they go to
\* c.parser.Parse; parser is never set (line 71), so the call is on a nil
\* *obfsTLSParser: it panics if Parse touches its receiver, else it returns
\* the bytes.
TlsDownRead ==
    /\ pc = "run" /\ mode = "tls" /\ down = "run"
    /\ connPos < Len(DownData)
    /\ \/ pc' = "panic" /\ UNCHANGED <<connPos, downGot>>
       \/ /\ downGot' = Append(downGot, DownData[connPos + 1])
          /\ connPos' = connPos + 1
          /\ UNCHANGED pc
    /\ UNCHANGED <<env, upTaken, bufw, wire, up, down, brBuf, result>>

-----------------------------------------------------------------------------
(* task.Run, both modes                                                    *)

\* buf.Copy(link.Reader, w) one MultiBuffer at a time: the buffered writer
\* (HTTP, now unbuffered) or tlsObfsClientConn.WriteMultiBuffer (TLS).
UpCopy ==
    /\ pc = "run" /\ up = "run"
    /\ upTaken < Len(Up)
    /\ upTaken' = upTaken + 1
    /\ wire' = wire \o (IF mode = "tls" THEN SplitRecords(Up[upTaken + 1])
                        ELSE <<Hdr("data", Up[upTaken + 1])>>)
    /\ UNCHANGED <<env, pc, bufw, up, down, brBuf, connPos, downGot, result>>

\* The link reaches EOF: buf.Copy returns nil.
UpEnd ==
    /\ pc = "run" /\ up = "run"
    /\ upTaken = Len(Up)
    /\ up' = "done"
    /\ UNCHANGED <<env, pc, upTaken, bufw, wire, down, brBuf, connPos, downGot, result>>

\* The server closes after its data: the downlink copy returns nil.
DownEnd ==
    /\ pc = "run" /\ down = "run"
    /\ brBuf = <<>> /\ connPos = Len(DownData)
    /\ down' = "done"
    /\ UNCHANGED <<env, pc, upTaken, bufw, wire, up, brBuf, connPos, downGot, result>>

\* task.Run returns the first error, or nil when both functions return nil;
\* Process wraps an error as "connection ends".  The goroutine still
\* running is not followed further.
RunEnd ==
    /\ pc = "run"
    /\ \/ up = "err" \/ down = "err"
       \/ up = "done" /\ down = "done"
    /\ result' = IF up = "done" /\ down = "done" THEN "ok" ELSE "connection ends"
    /\ pc' = "done"
    /\ UNCHANGED <<env, upTaken, bufw, wire, up, down, brBuf, connPos, downGot>>

-----------------------------------------------------------------------------

Init ==
    /\ mode \in Modes
    /\ dialOk \in BOOLEAN
    /\ firstRead \in ReadResults
    /\ respKind \in IF mode = "http" THEN RespKinds ELSE {"101ws"}
    /\ pc = "start"
    /\ upTaken = 0
    /\ bufw = <<>>
    /\ wire = <<>>
    /\ up = "run"
    /\ down = "parse"
    /\ brBuf = <<>>
    /\ connPos = 0
    /\ downGot = <<>>
    /\ result = "none"

\* Process: the HTTP processor when o.mode = "http", else the TLS one.
Next ==
    \/ HttpDial \/ HttpFirstPayload \/ HttpReadResponse \/ HttpDownCopy
    \/ TlsReadPayload \/ TlsDial \/ TlsDownRead
    \/ UpCopy \/ UpEnd \/ DownEnd \/ RunEnd

Spec == Init /\ [][Next]_vars

-----------------------------------------------------------------------------

\* The server recovers an in-order prefix of the link's bytes, with the
\* handshake first, whatever the 100 ms read returned; when Process returns
\* success it has recovered all of them.
UplinkIntact ==
    /\ HandshakeFirst
    /\ IsPrefix(ServerRecovers, Upstream)
    /\ result = "ok" => ServerRecovers = Upstream

\* The link's writer gets an in-order prefix of the server's tunnel bytes,
\* the ones bufio read ahead while parsing the response included, and all
\* of them on success.
DownlinkIntact ==
    /\ IsPrefix(downGot, DownData)
    /\ result = "ok" => downGot = DownData

=============================================================================
