----------------------------- MODULE GrpcRawConn -----------------------------
(***************************************************************************)
(* The raw gRPC tunnel (transport/internet/grpc/encoding): the server's    *)
(* Tun handler (customSeviceName.go) serves a stream as a RawClient when   *)
(* the client's metadata says mode: raw, and a RawClient (raw.go) on each  *)
(* end turns MultiBuffers into messages of hunks.  Modelled: the client's  *)
(* writes and Close on a client stream (a SendCloser) and the server's     *)
(* reads and Close on the server stream.  gRPC itself is outside src/:     *)
(* messages arrive in order, SendMsg after CloseSend fails before it       *)
(* marshals, and RecvMsg returns io.EOF once the client's messages are     *)
(* drained after CloseSend, or an error once the client is gone.  The      *)
(* client is a RawClient of this package or a peer outside src/ that       *)
(* marshals its messages correctly; bytesgrp.Pack/UnPack are inverse.      *)
(***************************************************************************)
EXTENDS Naturals, Sequences, SequencesExt

CONSTANT UpMBs      \* the MultiBuffers the client's link writes, in order

\* The client's metadata: mode: raw once, mode given twice, or no mode.
HeaderModes == {"raw", "rawTwice", "none"}

\* The codec of the client's stream: rawCodec (content subtype "raw") or
\* gRPC's default proto codec.
Codecs == {"raw", "proto"}

NonEmpty(b) == b # <<>>

\* Mutant: only the first non-empty hunk kept.
MergeFirstHunk(msg) ==
    LET hunks == SelectSeq(msg, NonEmpty)
    IN IF hunks = <<>> THEN <<>> ELSE hunks[1]

\* ReadMultiBuffer's loop: empty hunks skipped, the others merged in order.
MergeHunks(msg) == FlattenSeq(SelectSeq(msg, NonEmpty))

VARIABLES
    sender,         \* the client: "rawClient" (this package) or "peer"
    codec,          \* the client stream's codec
    panicked,       \* the client process died of a panic
    hdrMode,        \* the "mode" metadata the client sent
    setHeaderOk,    \* whether grpc.SetHeader succeeds
    srv,            \* the Tun handler: "dispatch", "raw", "gun", "aborted"
    cIdx,           \* MultiBuffers the client has written (or failed)
    accepted,       \* bytes in the messages SendMsg accepted
    c2s,            \* messages in flight to the server
    sendClosed,     \* the client called CloseSend
    cClosed,        \* the client's Close has returned
    sDone,          \* the server RawClient's done is closed
    sRead,          \* the server's reader: "read", "eof" (RecvMsg), "error"
                    \* (RecvMsg) or "closed" (done)
    delivered,      \* bytes the server's ReadMultiBuffer returned
    sWrite          \* the server's first WriteMultiBuffer: "none", "closed"
                    \* (io.ErrClosedPipe), "error" or "panic"

grpcVars == <<sender, codec, panicked, hdrMode, setHeaderOk, srv, cIdx,
              accepted, c2s, sendClosed, cClosed, sDone, sRead, delivered,
              sWrite>>

-----------------------------------------------------------------------------

\* ServerDesc's Tun handler: with exactly one "mode" value "raw", SetHeader
\* (returning its error) and HandleConn(NewRawConn(stream)); else the gun
\* handler.
Dispatch ==
    /\ srv = "dispatch"
    /\ srv' = IF hdrMode # "raw" THEN "gun"
              ELSE IF setHeaderOk THEN "raw" ELSE "aborted"
    /\ UNCHANGED <<sender, codec, panicked, hdrMode, setHeaderOk, cIdx,
                   accepted, c2s, sendClosed, cClosed, sDone, sRead, delivered,
                   sWrite>>

\* rawCodec.Marshal asserts v.(rawMessage), a value; WriteMultiBuffer sends
\* a *rawMessage.  The proto codec rejects a message that is no
\* proto.Message with an error.
MarshalOutcome ==
    IF sender = "peer" THEN "ok"
    ELSE IF codec = "raw" THEN "panic" ELSE "error"

\* RawClient.WriteMultiBuffer on the client: done is never closed on a
\* client stream, so the hunks (empty buffers dropped) go to SendMsg, which
\* fails after CloseSend, else marshals the message and sends it; the send
\* fails once the server process is gone.
ClientWrite ==
    /\ cIdx < Len(UpMBs) /\ ~panicked
    /\ LET hunks == SelectSeq(UpMBs[cIdx + 1], NonEmpty)
       IN IF sendClosed \/ MarshalOutcome # "ok" \/ sWrite = "panic"
          THEN UNCHANGED <<accepted, c2s>>
          ELSE /\ c2s' = Append(c2s, hunks)
               /\ accepted' = accepted \o FlattenSeq(hunks)
    /\ panicked' = (~sendClosed /\ MarshalOutcome = "panic")
    /\ cIdx' = cIdx + 1
    /\ UNCHANGED <<sender, codec, hdrMode, setHeaderOk, srv, sendClosed,
                   cClosed, sDone, sRead, delivered, sWrite>>

\* Mutant: Close on a client stream that only marks the conn done.
ClientCloseNoCloseSend ==
    /\ ~cClosed /\ ~panicked
    /\ cClosed' = TRUE
    /\ UNCHANGED <<sender, codec, panicked, hdrMode, setHeaderOk, srv, cIdx,
                   accepted, c2s, sendClosed, sDone, sRead, delivered, sWrite>>

\* RawClient.Close on the client: the stream is a SendCloser, so CloseSend;
\* done stays open.  Close may come from another goroutine at any time.
ClientClose ==
    /\ ~cClosed /\ ~panicked
    /\ cClosed' = TRUE
    /\ sendClosed' = TRUE
    /\ UNCHANGED <<sender, codec, panicked, hdrMode, setHeaderOk, srv, cIdx,
                   accepted, c2s, sDone, sRead, delivered, sWrite>>

\* RawClient.ReadMultiBuffer on the server: io.EOF once done; else RecvMsg,
\* which blocks until a message (its non-empty hunks are merged), after
\* CloseSend and the last message io.EOF, and once the client is gone an
\* error ("failed to fetch data from gRPC tunnel").
ServerRead ==
    /\ srv = "raw" /\ sRead = "read" /\ sWrite # "panic"
    /\ \/ sDone /\ sRead' = "closed" /\ UNCHANGED <<c2s, delivered>>
       \/ /\ ~sDone /\ c2s # <<>>
          /\ delivered' = delivered \o MergeHunks(Head(c2s))
          /\ c2s' = Tail(c2s)
          /\ UNCHANGED sRead
       \/ /\ ~sDone /\ c2s = <<>> /\ sendClosed
          /\ sRead' = "eof"
          /\ UNCHANGED <<c2s, delivered>>
       \/ /\ ~sDone /\ c2s = <<>> /\ ~sendClosed /\ panicked
          /\ sRead' = "error"
          /\ UNCHANGED <<c2s, delivered>>
    /\ UNCHANGED <<sender, codec, panicked, hdrMode, setHeaderOk, srv, cIdx,
                   accepted, sendClosed, cClosed, sDone, sWrite>>

\* RawClient.WriteMultiBuffer on the server, the first downlink write:
\* io.ErrClosedPipe once done, else SendMsg(&rawMessage{hunks}) through the
\* stream's codec, the one the client's content subtype named: rawCodec
\* panics on the pointer, the proto codec returns an error.
ServerWrite ==
    /\ srv = "raw" /\ sWrite = "none"
    /\ sWrite' = IF sDone THEN "closed"
                 ELSE IF codec = "raw" THEN "panic" ELSE "error"
    /\ UNCHANGED <<sender, codec, panicked, hdrMode, setHeaderOk, srv, cIdx,
                   accepted, c2s, sendClosed, cClosed, sDone, sRead, delivered>>

\* RawClient.Close on the server: a server stream is no SendCloser, so
\* done.Close().  The server's side may close at any time.
ServerClose ==
    /\ srv = "raw" /\ ~sDone /\ sWrite # "panic"
    /\ sDone' = TRUE
    /\ UNCHANGED <<sender, codec, panicked, hdrMode, setHeaderOk, srv, cIdx,
                   accepted, c2s, sendClosed, cClosed, sRead, delivered, sWrite>>

-----------------------------------------------------------------------------

Init ==
    /\ sender \in {"rawClient", "peer"}
    /\ codec \in IF sender = "peer" THEN {"raw"} ELSE Codecs
    /\ panicked = FALSE
    /\ hdrMode \in HeaderModes
    /\ setHeaderOk \in BOOLEAN
    /\ srv = "dispatch"
    /\ cIdx = 0 /\ accepted = <<>> /\ c2s = <<>>
    /\ sendClosed = FALSE /\ cClosed = FALSE
    /\ sDone = FALSE /\ sRead = "read" /\ delivered = <<>>
    /\ sWrite = "none"

Next ==
    \/ Dispatch \/ ClientWrite \/ ClientClose
    \/ ServerRead \/ ServerWrite \/ ServerClose

\* gRPC runs the handler, and the server's reader goroutine reads while it
\* can; the client's writes and both Closes are up to the applications.
Fairness == WF_grpcVars(Dispatch) /\ WF_grpcVars(ServerRead)

Spec == Init /\ [][Next]_grpcVars /\ Fairness

-----------------------------------------------------------------------------

\* The server reads an in-order prefix of the bytes the client's SendMsg
\* accepted, and it sees io.EOF only after all of them.
UplinkIntact ==
    /\ IsPrefix(delivered, accepted)
    /\ sRead = "eof" => delivered = accepted

\* Once a raw-mode client closes its conn, the server's reader stops: it
\* gets io.EOF (or its own side closed first, or the server is gone).
ClientCloseReachesServer ==
    (cClosed /\ hdrMode = "raw" /\ setHeaderOk) ~>
        (sRead # "read" \/ sWrite = "panic")

\* A write on the raw tunnel, the client's or the server's, sends its data
\* or returns an error: it never takes the process down.
NoPanicOnSend == ~panicked /\ sWrite # "panic"
=============================================================================
