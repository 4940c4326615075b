------------------------------ MODULE Blackhole ------------------------------
(***************************************************************************)
(* The blackhole outbound (proxy/blackhole/blackhole.go).  New fixes the   *)
(* response and keepConnection; Process writes the response, then either   *)
(* (after a second's sleep when it wrote bytes) interrupts the link's      *)
(* writer, or, with keepConnection, runs buf.Copy(link.Reader, Discard)    *)
(* under task.Run with a ConnectionIdle deadline.  The client writes up    *)
(* to MaxChunks buffers into link.Reader and may close it.  task.Run is    *)
(* outside src/ and follows spec 4.5 as in ActivityTimer.                 *)
(***************************************************************************)
EXTENDS Naturals

CONSTANT MaxChunks      \* buffers the client writes into link.Reader

VARIABLES
    keep,           \* h.keepConnection
    resp,           \* h.response: "none" (writes nothing) or "http"
    phase,          \* Process: "write", "sleep", "interrupt", "run", "returned"
    written,        \* bytes the response wrote to link.Writer (0 or 1)
    interrupted,    \* link.Writer has been interrupted
    sent,           \* buffers the client has written
    discarded,      \* buffers the copy goroutine has discarded
    closed,         \* the client closed link.Reader
    copyDone,       \* buf.Copy returned (and cancel ran)
    ctxDone         \* the deadline ctx is done

bhVars == <<keep, resp, phase, written, interrupted, sent, discarded, closed,
            copyDone, ctxDone>>

-----------------------------------------------------------------------------

\* nBytes := h.response.WriteTo(link.Writer), and the branch on keepConnection.
WriteResponse ==
    /\ phase = "write"
    /\ written' = IF resp = "http" THEN 1 ELSE 0
    /\ phase' = IF keep THEN "run"
                ELSE IF resp = "http" THEN "sleep" ELSE "interrupt"
    /\ UNCHANGED <<keep, resp, interrupted, sent, discarded, closed, copyDone,
                   ctxDone>>

\* time.Sleep(time.Second) after a response was written.
Sleep ==
    /\ phase = "sleep"
    /\ phase' = "interrupt"
    /\ UNCHANGED <<keep, resp, written, interrupted, sent, discarded, closed,
                   copyDone, ctxDone>>

\* common.Interrupt(link.Writer); Process returns nil.
Interrupt ==
    /\ phase = "interrupt"
    /\ interrupted' = TRUE
    /\ phase' = "returned"
    /\ UNCHANGED <<keep, resp, written, sent, discarded, closed, copyDone,
                   ctxDone>>

\* The client writes a buffer into link.Reader, or closes it.
ClientSend ==
    /\ ~closed /\ sent < MaxChunks
    /\ sent' = sent + 1
    /\ UNCHANGED <<keep, resp, phase, written, interrupted, discarded, closed,
                   copyDone, ctxDone>>

ClientClose ==
    /\ ~closed
    /\ closed' = TRUE
    /\ UNCHANGED <<keep, resp, phase, written, interrupted, sent, discarded,
                   copyDone, ctxDone>>

\* The copy goroutine task.Run started: buf.Copy discards each buffer and
\* returns at the reader's end; the deferred cancel then ends ctx.
Copy ==
    /\ phase \in {"run", "returned"} /\ keep /\ ~copyDone
    /\ \/ discarded < sent /\ discarded' = discarded + 1
          /\ UNCHANGED <<copyDone, ctxDone>>
       \/ discarded = sent /\ closed
          /\ copyDone' = TRUE /\ ctxDone' = TRUE
          /\ UNCHANGED discarded
    /\ UNCHANGED <<keep, resp, phase, written, interrupted, sent, closed>>

\* The ConnectionIdle deadline of context.WithTimeout passes.
Deadline ==
    /\ phase \in {"run", "returned"} /\ keep /\ ~ctxDone
    /\ ctxDone' = TRUE
    /\ UNCHANGED <<keep, resp, phase, written, interrupted, sent, discarded,
                   closed, copyDone>>

\* Mutant: task.Run that waits for the copy alone.
RunReturnCopyOnly ==
    /\ phase = "run" /\ copyDone
    /\ phase' = "returned"
    /\ UNCHANGED <<keep, resp, written, interrupted, sent, discarded, closed,
                   copyDone, ctxDone>>

\* task.Run returns once the copy returned or ctx is done; Process returns.
RunReturn ==
    /\ phase = "run" /\ (copyDone \/ ctxDone)
    /\ phase' = "returned"
    /\ UNCHANGED <<keep, resp, written, interrupted, sent, discarded, closed,
                   copyDone, ctxDone>>

-----------------------------------------------------------------------------

\* The JSON config's "response" field: absent, one of the two types
\* configLoader knows, or a type it cannot load.
ResponseJSON == {"absent", "none", "http", "unknown"}

\* BlackholeConfig.Build (infra/conf/blackhole.go) with its configLoader:
\* the type name picks NoneResponse or HTTPResponse, any other fails the
\* build; keepConnection is copied.  An absent response leaves
\* config.Response nil, and GetInternalResponse (not in src/) then gives
\* the none response.
BuildConfig(json, keepJSON) ==
    [ok             |-> json # "unknown",
     response       |-> IF json = "http" THEN "http" ELSE "none",
     keepConnection |-> keepJSON]

\* New over a config that built: the response and keepConnection.
Init ==
    /\ \E json \in ResponseJSON, k \in BOOLEAN :
          LET c == BuildConfig(json, k)
          IN  c.ok /\ resp = c.response /\ keep = c.keepConnection
    /\ phase = "write" /\ written = 0 /\ interrupted = FALSE
    /\ sent = 0 /\ discarded = 0 /\ closed = FALSE
    /\ copyDone = FALSE /\ ctxDone = FALSE

Next ==
    \/ WriteResponse \/ Sleep \/ Interrupt \/ RunReturn
    \/ ClientSend \/ ClientClose \/ Copy \/ Deadline

\* Process and its copy goroutine run when scheduled, and the deadline's
\* timer fires; what the client does is up to it.
Fairness == /\ WF_bhVars(WriteResponse \/ Sleep \/ Interrupt \/ RunReturn)
            /\ WF_bhVars(Copy) /\ WF_bhVars(Deadline)

Spec == Init /\ [][Next]_bhVars /\ Fairness

-----------------------------------------------------------------------------

\* Process returns even when the client keeps the connection open and never
\* stops or closes: the keepConnection copy is bounded by the deadline.
ProcessReturns ==
    phase = "write" ~> phase = "returned"
=============================================================================
