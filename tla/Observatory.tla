----------------------------- MODULE Observatory -----------------------------
(***************************************************************************)
(* Observer.UpdateStatus (app/observatory/persist.go): probers report the  *)
(* status of outbounds concurrently; under statusLock each call looks the  *)
(* outbound up in the status list and overwrites its entry, or appends a   *)
(* new one.  The lookup, findStatusLocationLockHolderOnly, is not under    *)
(* src/ and is a linear search by tag (-1 is 0 here).  The steps inside    *)
(* the critical section are separate actions so that a lock that does not  *)
(* exclude shows its interleavings.                                        *)
(***************************************************************************)
EXTENDS Naturals, Sequences, SequencesExt, Functions

CONSTANTS
    Probers,        \* goroutines calling UpdateStatus
    Outbounds,      \* outbound tags
    Results,        \* OutboundStatus values
    MaxCalls,       \* UpdateStatus calls per prober
    NoHolder        \* statusLock is free

VARIABLES
    status,         \* o.status: a sequence of [tag, result]
    holder,         \* the prober holding statusLock, or NoHolder
    pc,             \* each prober: "idle", "lock", "find", "write", "unlock"
    arg,            \* each prober's current (outbound, result)
    loc,            \* each prober's location from the lookup
    calls           \* calls each prober has made

obsVars == <<status, holder, pc, arg, loc, calls>>

\* findStatusLocationLockHolderOnly: the index of the outbound, or 0 (-1).
FindStatusLocation(tag) ==
    IF \E i \in 1..Len(status) : status[i].tag = tag
    THEN CHOOSE i \in 1..Len(status) : status[i].tag = tag
    ELSE 0

-----------------------------------------------------------------------------

\* A prober calls UpdateStatus(outbound, result).
Call(p) ==
    /\ pc[p] = "idle" /\ calls[p] < MaxCalls
    /\ \E o \in Outbounds, r \in Results : arg' = [arg EXCEPT ![p] = <<o, r>>]
    /\ pc' = [pc EXCEPT ![p] = "lock"]
    /\ calls' = [calls EXCEPT ![p] = @ + 1]
    /\ UNCHANGED <<status, holder, loc>>

\* Mutant: the call proceeds without taking statusLock.
LockSkipped(p) ==
    /\ pc[p] = "lock"
    /\ pc' = [pc EXCEPT ![p] = "find"]
    /\ UNCHANGED <<status, holder, arg, loc, calls>>

\* o.statusLock.Lock(): blocks while another prober holds it.
Lock(p) ==
    /\ pc[p] = "lock"
    /\ holder = NoHolder
    /\ holder' = p
    /\ pc' = [pc EXCEPT ![p] = "find"]
    /\ UNCHANGED <<status, arg, loc, calls>>

\* location := o.findStatusLocationLockHolderOnly(outbound)
Find(p) ==
    /\ pc[p] = "find"
    /\ loc' = [loc EXCEPT ![p] = FindStatusLocation(arg[p][1])]
    /\ pc' = [pc EXCEPT ![p] = "write"]
    /\ UNCHANGED <<status, holder, arg, calls>>

\* location != -1: overwrite the entry; else append.
Write(p) ==
    /\ pc[p] = "write"
    /\ LET e == [tag |-> arg[p][1], result |-> arg[p][2]]
       IN status' = IF loc[p] # 0 THEN [status EXCEPT ![loc[p]] = e]
                    ELSE Append(status, e)
    /\ pc' = [pc EXCEPT ![p] = "unlock"]
    /\ UNCHANGED <<holder, arg, loc, calls>>

\* Mutant: the deferred Unlock left out.
UnlockMissing(p) ==
    /\ pc[p] = "unlock"
    /\ pc' = [pc EXCEPT ![p] = "idle"]
    /\ UNCHANGED <<status, holder, arg, loc, calls>>

\* defer o.statusLock.Unlock(), and UpdateStatus returns.
Unlock(p) ==
    /\ pc[p] = "unlock"
    /\ holder' = NoHolder
    /\ pc' = [pc EXCEPT ![p] = "idle"]
    /\ UNCHANGED <<status, arg, loc, calls>>

-----------------------------------------------------------------------------

Init ==
    /\ status = <<>>
    /\ holder = NoHolder
    /\ pc = [p \in Probers |-> "idle"]
    /\ arg = [p \in Probers |-> <<CHOOSE o \in Outbounds : TRUE,
                                   CHOOSE r \in Results : TRUE>>]
    /\ loc = [p \in Probers |-> 0]
    /\ calls = [p \in Probers |-> 0]

Step(p) == Lock(p) \/ Find(p) \/ Write(p) \/ Unlock(p)

Next == \E p \in Probers : Call(p) \/ Step(p)

\* Each prober is a goroutine that runs once it is scheduled; sync.Mutex
\* switches to FIFO hand-off when a waiter starves, so a prober waiting for
\* the lock gets it if the lock is free infinitely often.
Fairness == \A p \in Probers : WF_obsVars(Find(p) \/ Write(p) \/ Unlock(p))
                               /\ SF_obsVars(Lock(p))

Spec == Init /\ [][Next]_obsVars /\ Fairness

-----------------------------------------------------------------------------

\* The status list holds at most one entry per outbound, however the
\* probers' calls interleave: lookup and append happen in one lock hold.
OneEntryPerOutbound ==
    IsInjective([i \in 1..Len(status) |-> status[i].tag])

\* Every UpdateStatus call returns: no prober waits forever for statusLock.
EveryUpdateReturns ==
    \A p \in Probers : pc[p] = "lock" ~> pc[p] = "idle"
=============================================================================
