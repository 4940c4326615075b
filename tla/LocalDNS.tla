------------------------------ MODULE LocalDNS ------------------------------
(***************************************************************************)
(* LocalNameServer.QueryIP (app/dns/nameserver_local.go).  The lookup runs *)
(* in the goroutine task.Run starts; task.Run returns when that goroutine  *)
(* returns or when ctx is done, whichever is first, and QueryIP then reads *)
(* and writes the ips and err the goroutine may still be assigning.  The   *)
(* tuple assignment `ips, err = ...` stores ips, then err (Go assigns left *)
(* to right), so each is a step of its own; each racy read sees the value  *)
(* stored at that step.  task.Run is outside src/ and follows spec 4.5.    *)
(***************************************************************************)
EXTENDS Naturals

CONSTANT EnabledChoices   \* whether the IPOption enables a family, per run

ASSUME EnabledChoices \subseteq BOOLEAN

\* What the system resolver answers: addresses, an error whose text ends
\* in "No address associated with hostname", or another error.
Answers == {"addrs", "noAddr", "other"}

VARIABLES
    enabled,        \* option enables IPv4 or IPv6 (the switch has a case)
    answer,         \* the resolver's answer
    ctxDone,        \* ctx is cancelled or past its deadline
    ips,            \* the shared ips: "nil" or "addrs"
    err,            \* the shared err: "nil", "noAddr", "other", "ErrEmptyResponse"
    gpc,            \* the lookup goroutine: "lookup", "ips", "done"
    cpc,            \* QueryIP: "run", "check", "return", "returned"
    lookupFirst,    \* the goroutine had returned when task.Run returned
    ret             \* QueryIP's return value

dnsVars == <<enabled, answer, ctxDone, ips, err, gpc, cpc, lookupFirst, ret>>

\* The (ips, err) of the resolver's answer.
LookupResult ==
    CASE answer = "addrs"  -> [ips |-> "addrs", err |-> "nil"]
      [] answer = "noAddr" -> [ips |-> "nil", err |-> "noAddr"]
      [] answer = "other"  -> [ips |-> "nil", err |-> "other"]

\* What QueryIP returns once the lookup has finished: the answer, with the
\* empty-answer error replaced by dns.ErrEmptyResponse.
Expected ==
    IF ~enabled THEN [ips |-> "nil", err |-> "nil"]
    ELSE IF answer = "noAddr" THEN [ips |-> "nil", err |-> "ErrEmptyResponse"]
    ELSE LookupResult

-----------------------------------------------------------------------------

\* Lines 29-35: the case for the option calls the lookup, and ips is stored.
LookupIps ==
    /\ gpc = "lookup" /\ enabled
    /\ ips' = LookupResult.ips
    /\ gpc' = "ips"
    /\ UNCHANGED <<enabled, answer, ctxDone, err, cpc, lookupFirst, ret>>

\* The second half of the assignment: err is stored, and the function
\* returns nil.  With neither family enabled no case runs.
LookupErr ==
    \/ /\ gpc = "ips"
       /\ err' = LookupResult.err
       /\ gpc' = "done"
       /\ UNCHANGED <<enabled, answer, ctxDone, ips, cpc, lookupFirst, ret>>
    \/ /\ gpc = "lookup" /\ ~enabled
       /\ gpc' = "done"
       /\ UNCHANGED <<enabled, answer, ctxDone, ips, err, cpc, lookupFirst, ret>>

\* The caller's context is cancelled or times out.
Cancel ==
    /\ cpc = "run" /\ ~ctxDone
    /\ ctxDone' = TRUE
    /\ UNCHANGED <<enabled, answer, ips, err, gpc, cpc, lookupFirst, ret>>

\* Mutant: task.Run that waits only for ctx.
RunReturnCtxOnly ==
    /\ cpc = "run"
    /\ ctxDone
    /\ lookupFirst' = (gpc = "done")
    /\ cpc' = "check"
    /\ UNCHANGED <<enabled, answer, ctxDone, ips, err, gpc, ret>>

\* task.Run returns (its error is dropped) when the goroutine has returned
\* or ctx is done.
RunReturn ==
    /\ cpc = "run"
    /\ gpc = "done" \/ ctxDone
    /\ lookupFirst' = (gpc = "done")
    /\ cpc' = "check"
    /\ UNCHANGED <<enabled, answer, ctxDone, ips, err, gpc, ret>>

\* Mutant: the error text compared for equality instead of by suffix.
CheckErrExact ==
    /\ cpc = "check"
    /\ UNCHANGED err
    /\ cpc' = "return"
    /\ UNCHANGED <<enabled, answer, ctxDone, ips, gpc, lookupFirst, ret>>

\* Lines 40-42: an error ending in errEmptyResponse becomes
\* dns.ErrEmptyResponse (a racy read and write of err).
CheckErr ==
    /\ cpc = "check"
    /\ err' = IF err = "noAddr" THEN "ErrEmptyResponse" ELSE err
    /\ cpc' = "return"
    /\ UNCHANGED <<enabled, answer, ctxDone, ips, gpc, lookupFirst, ret>>

\* Lines 44-48: log if there are addresses, return ips, err.
Return ==
    /\ cpc = "return"
    /\ ret' = [ips |-> ips, err |-> err]
    /\ cpc' = "returned"
    /\ UNCHANGED <<enabled, answer, ctxDone, ips, err, gpc, lookupFirst>>

-----------------------------------------------------------------------------

Init ==
    /\ enabled \in EnabledChoices
    /\ answer \in Answers
    /\ ctxDone = FALSE
    /\ ips = "nil" /\ err = "nil"
    /\ gpc = "lookup" /\ cpc = "run"
    /\ lookupFirst = FALSE
    /\ ret = [ips |-> "nil", err |-> "nil"]

Next ==
    \/ LookupIps \/ LookupErr \/ Cancel
    \/ RunReturn \/ CheckErr \/ Return

\* The lookup goroutine and the caller run when scheduled; the system
\* resolver returns in bounded time.  Cancellation is up to the caller.
Fairness == /\ WF_dnsVars(LookupIps \/ LookupErr)
            /\ WF_dnsVars(RunReturn \/ CheckErr \/ Return)

Spec == Init /\ [][Next]_dnsVars /\ Fairness

-----------------------------------------------------------------------------

\* When the lookup finished before task.Run returned, QueryIP returns the
\* resolver's answer, an empty answer as dns.ErrEmptyResponse.
LookupAnswerReturned ==
    (cpc = "returned" /\ lookupFirst) => ret = Expected

\* QueryIP returns, whether or not ctx is ever cancelled.
QueryReturns ==
    cpc = "run" ~> cpc = "returned"

\* QueryIP returns addresses or an error: a caller never gets neither.
AnswerOrError ==
    cpc = "returned" => (ret.ips # "nil" \/ ret.err # "nil")
=============================================================================
