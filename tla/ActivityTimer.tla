---------------------------- MODULE ActivityTimer ----------------------------
(***************************************************************************)
(* The shared idle timer of one relayed connection                         *)
(* (signal.CancelAfterInactivity, common/signal, outside src/).  Time is   *)
(* counted in abstract ticks: `quiet' is the number of ticks since the     *)
(* last activity or the last SetTimeout, `timeout' the current budget.     *)
(* When `quiet' reaches `timeout' the timer cancels the shared context.    *)
(* The relay modules compose this one with INSTANCE, sharing the three     *)
(* variables.                                                              *)
(***************************************************************************)
EXTENDS Naturals

VARIABLES timeout, quiet, ctxDone

timerVars == <<timeout, quiet, ctxDone>>

\* CancelAfterInactivity(ctx, cancel, t): a fresh timer, context live.
TimerInit(t) ==
    /\ timeout = t
    /\ quiet = 0
    /\ ctxDone = FALSE

\* UpdateActivity: a successful transfer pushes the deadline forward.
Update ==
    /\ quiet' = 0
    /\ UNCHANGED <<timeout, ctxDone>>

\* SetTimeout(t): switch to a new budget, counted from now.
SetTimeout(t) ==
    /\ timeout' = t
    /\ quiet' = 0
    /\ UNCHANGED ctxDone

\* One tick of wall-clock time with no activity.
Tick ==
    /\ ~ctxDone
    /\ quiet < timeout
    /\ quiet' = quiet + 1
    /\ UNCHANGED <<timeout, ctxDone>>

\* Mutant: a timer that restarts its period instead of cancelling.
ExpireNoCancel ==
    /\ ~ctxDone
    /\ quiet >= timeout
    /\ quiet' = 0
    /\ UNCHANGED <<timeout, ctxDone>>

\* The budget is used up: cancel the shared context.
Expire ==
    /\ ~ctxDone
    /\ quiet >= timeout
    /\ ctxDone' = TRUE
    /\ UNCHANGED <<timeout, quiet>>
=============================================================================
