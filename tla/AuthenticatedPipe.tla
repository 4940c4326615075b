-------------------------- MODULE AuthenticatedPipe --------------------------
(***************************************************************************)
(* What an authenticated stream promises (spec 4.1, 4.2, 8.2, 8.4): the    *)
(* reader delivers the writer's chunks in order, each at most once and     *)
(* none that was not written, until it fails; after a failure it delivers  *)
(* nothing more.                                                           *)
(***************************************************************************)
EXTENDS Naturals, Sequences

CONSTANTS Payloads, MaxChunks

VARIABLES sent, delivered, failed

pipeVars == <<sent, delivered, failed>>

Init ==
    /\ sent = <<>>
    /\ delivered = <<>>
    /\ failed = FALSE

Write(p) ==
    /\ Len(sent) < MaxChunks
    /\ sent' = Append(sent, p)
    /\ UNCHANGED <<delivered, failed>>

\* The next chunk the reader has not delivered yet.
Deliver ==
    /\ ~failed
    /\ Len(delivered) < Len(sent)
    /\ delivered' = Append(delivered, sent[Len(delivered) + 1])
    /\ UNCHANGED <<sent, failed>>

Fail ==
    /\ ~failed
    /\ failed' = TRUE
    /\ UNCHANGED <<sent, delivered>>

Next == (\E p \in Payloads : Write(p)) \/ Deliver \/ Fail

Spec == Init /\ [][Next]_pipeVars
=============================================================================
