------------------------------ MODULE DialRetry ------------------------------
(***************************************************************************)
(* The dial loop that opens VMess and SOCKS Process:                       *)
(*                                                                         *)
(*   retry.ExponentialBackoff(5, base).On(func() error {                   *)
(*       rec = picker.PickServer(); conn, err = dialer.Dial(ctx, rec) ... })*)
(*                                                                         *)
(* (outbound.go lines 67-79, client.go lines 78-90 and 180-192).  One      *)
(* RoundRobinServerPicker belongs to the handler and is shared by every    *)
(* connection the handler processes; each Process runs its own loop.      *)
(* The picker and the retryer live outside src/ and follow spec 4.4: the   *)
(* pick is atomic and advances the rotation by one, the loop makes at most *)
(* MaxAttempts attempts and sleeps between them.  Which servers are up is  *)
(* chosen at the start and fixed for a run: a dial to one of them          *)
(* succeeds, a dial to any other server fails.                             *)
(***************************************************************************)
EXTENDS Naturals, FiniteSets

CONSTANTS
    Conns,          \* concurrent Process calls on one handler
    NumServers,     \* length of the handler's ServerList
    ReachableChoices, \* the sets of servers that may be up
    MaxAttempts     \* the retry ceiling (5 in the code)

Servers == 1..NumServers

ASSUME NumServers \in Nat \ {0}
ASSUME ReachableChoices \subseteq SUBSET Servers
ASSUME MaxAttempts \in Nat \ {0}

VARIABLES
    up,             \* the servers a dial can reach
    nextIndex,      \* the picker's rotation position, shared
    pc,             \* control point of each Process's dial loop
    picked,         \* rec: the server of the current attempt
    attempts,       \* dials made so far by each loop
    tried,          \* the servers each loop has dialled
    interfered      \* another loop picked while this one was dialling

vars == <<up, nextIndex, pc, picked, attempts, tried, interfered>>

\* The loops that are between their first pick and their return.
Dialling == {c \in Conns : pc[c] \in {"pick", "dial", "sleep"}}

-----------------------------------------------------------------------------

\* Process enters the dial loop.
Start(c) ==
    /\ pc[c] = "idle"
    /\ pc' = [pc EXCEPT ![c] = "pick"]
    /\ UNCHANGED <<up, nextIndex, picked, attempts, tried, interfered>>

\* Mutant: a picker that never advances its rotation.
PickServerStuck(c) ==
    /\ pc[c] = "pick"
    /\ picked' = [picked EXCEPT ![c] = nextIndex + 1]
    /\ pc' = [pc EXCEPT ![c] = "dial"]
    /\ interfered' = [d \in Conns |->
                        interfered[d] \/ (d # c /\ d \in Dialling)]
    /\ UNCHANGED <<up, nextIndex, attempts, tried>>

\* rec = picker.PickServer(): the server at the rotation position, and the
\* position moves on, under the picker's lock.
PickServer(c) ==
    /\ pc[c] = "pick"
    /\ picked' = [picked EXCEPT ![c] = nextIndex + 1]
    /\ nextIndex' = (nextIndex + 1) % NumServers
    /\ pc' = [pc EXCEPT ![c] = "dial"]
    /\ interfered' = [d \in Conns |->
                        interfered[d] \/ (d # c /\ d \in Dialling)]
    /\ UNCHANGED <<up, attempts, tried>>

\* dialer.Dial(ctx, rec.Destination()): success ends the loop with conn.
DialSucceeds(c) ==
    /\ pc[c] = "dial"
    /\ picked[c] \in up
    /\ pc' = [pc EXCEPT ![c] = "connected"]
    /\ attempts' = [attempts EXCEPT ![c] = @ + 1]
    /\ tried' = [tried EXCEPT ![c] = @ \cup {picked[c]}]
    /\ UNCHANGED <<up, nextIndex, picked, interfered>>

\* Mutant: a failed dial that is not counted as an attempt.
DialFailsUncounted(c) ==
    /\ pc[c] = "dial"
    /\ picked[c] \notin up
    /\ pc' = [pc EXCEPT ![c] = "sleep"]
    /\ tried' = [tried EXCEPT ![c] = @ \cup {picked[c]}]
    /\ UNCHANGED <<up, nextIndex, picked, attempts, interfered>>

\* Mutant: the ceiling tested after one attempt too many.
DialFailsLate(c) ==
    /\ pc[c] = "dial"
    /\ picked[c] \notin up
    /\ attempts' = [attempts EXCEPT ![c] = @ + 1]
    /\ tried' = [tried EXCEPT ![c] = @ \cup {picked[c]}]
    /\ pc' = [pc EXCEPT ![c] =
                IF attempts[c] + 1 > MaxAttempts THEN "failed" ELSE "sleep"]
    /\ UNCHANGED <<up, nextIndex, picked, interfered>>

\* A failed dial counts as an attempt; at the ceiling the loop gives up and
\* Process returns "failed to find an available destination"
\* (outbound.go line 78), otherwise it backs off.
DialFails(c) ==
    /\ pc[c] = "dial"
    /\ picked[c] \notin up
    /\ attempts' = [attempts EXCEPT ![c] = @ + 1]
    /\ tried' = [tried EXCEPT ![c] = @ \cup {picked[c]}]
    /\ pc' = [pc EXCEPT ![c] =
                IF attempts[c] + 1 >= MaxAttempts THEN "failed" ELSE "sleep"]
    /\ UNCHANGED <<up, nextIndex, picked, interfered>>

\* time.Sleep(delay) on the calling goroutine, then the next attempt.
Backoff(c) ==
    /\ pc[c] = "sleep"
    /\ pc' = [pc EXCEPT ![c] = "pick"]
    /\ UNCHANGED <<up, nextIndex, picked, attempts, tried, interfered>>

-----------------------------------------------------------------------------

Init ==
    /\ up \in ReachableChoices
    /\ nextIndex = 0
    /\ pc = [c \in Conns |-> "idle"]
    /\ picked = [c \in Conns |-> 1]
    /\ attempts = [c \in Conns |-> 0]
    /\ tried = [c \in Conns |-> {}]
    /\ interfered = [c \in Conns |-> FALSE]

Loop(c) ==
    PickServer(c) \/ DialSucceeds(c) \/ DialFails(c) \/ Backoff(c)

Next ==
    \E c \in Conns : Start(c) \/ Loop(c)

\* Each loop runs on its own goroutine; when a Process starts is up to the
\* dispatcher, so Start is not fair.
Spec == Init /\ [][Next]_vars /\ \A c \in Conns : WF_vars(Loop(c))

-----------------------------------------------------------------------------

TypeOK ==
    /\ up \in ReachableChoices
    /\ nextIndex \in 0..(NumServers - 1)
    /\ pc \in [Conns -> {"idle", "pick", "dial", "sleep", "connected", "failed"}]
    /\ picked \in [Conns -> Servers]
    /\ attempts \in [Conns -> 0..MaxAttempts]
    /\ tried \in [Conns -> SUBSET Servers]
    /\ interfered \in [Conns -> BOOLEAN]

\* A loop that no other connection disturbed has dialled every server of
\* the list before giving up: the rotation walks the whole list when
\* MaxAttempts covers it.
LoneLoopTriesEveryServer ==
    \A c \in Conns :
        (pc[c] = "failed" /\ ~interfered[c] /\ MaxAttempts >= NumServers)
            => tried[c] = Servers

\* Every Process that starts dialling stops dialling: it holds a
\* connection or it has given up (spec 8.6: "never a hang").
DialLoopEnds ==
    \A c \in Conns : pc[c] = "pick" ~> pc[c] \in {"connected", "failed"}

\* A Process gives up only when no server of its list is reachable: the
\* error says no destination was available.
NoGiveUpWhileReachable ==
    \A c \in Conns : pc[c] = "failed" => up = {}

=============================================================================
