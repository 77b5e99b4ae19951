---------------------------- MODULE DynamicLimit ----------------------------
(***************************************************************************)
(* DynamicLimit (services/download.py): the worker limit the user can dial *)
(* while downloads run, as an acquire/release object over a condition      *)
(* variable.                                                               *)
(*                                                                         *)
(* The counter of active jobs is guarded by the lock; the limit and the    *)
(* shutdown flag are not, and are read at two different moments.  A job    *)
(* that finds no free slot sleeps on the condition for 0.1 s or until a    *)
(* release wakes it, whichever comes first.                                *)
(***************************************************************************)
EXTENDS Integers, FiniteSets

CONSTANTS
    Jobs,       \* the calls of acquire(), one for each episode
    MaxLimit    \* RichDownloadUI.MAX_WORKERS

ASSUME JobsAssumption == IsFiniteSet(Jobs)
ASSUME MaxLimitAssumption == MaxLimit \in Nat \ {0}

VARIABLES
    place,      \* where each job is
    active,     \* _active
    limit,      \* workers_ref[0], written by the key handler
    shutdown    \* the cancellation event

dlVars == <<place, active, limit, shutdown>>

\* idle, at the lock ("wanting"), inside it with the limit found reached
\* ("full") or not ("passed"), on the condition ("asleep"), and the outcomes.
States == {"idle", "wanting", "full", "passed", "asleep",
           "holding", "refused", "done"}

Holding == {j \in Jobs : place[j] = "holding"}
Asleep == {j \in Jobs : place[j] = "asleep"}
Inside == {j \in Jobs : place[j] \in {"full", "passed"}}     \* who has the lock

DLTypeOK ==
    /\ place \in [Jobs -> States]
    /\ active \in 0 .. Cardinality(Jobs)
    /\ limit \in 1 .. MaxLimit
    /\ shutdown \in BOOLEAN

DLInit ==
    /\ place = [j \in Jobs |-> "idle"]
    /\ active = 0
    /\ limit \in 1 .. MaxLimit
    /\ shutdown = FALSE

----------------------------------------------------------------------------
CallAcquire(j) ==
    /\ place[j] = "idle"
    /\ place' = [place EXCEPT ![j] = "wanting"]
    /\ UNCHANGED <<active, limit, shutdown>>

\* Slip: the limit itself still counts as free.
LookTooFar(j) ==
    /\ place[j] = "wanting" /\ Inside = {}
    /\ place' = [place EXCEPT ![j] = IF active <= limit THEN "passed" ELSE "full"]
    /\ UNCHANGED <<active, limit, shutdown>>

\* Slip: one slot is always kept back.
LookTooShort(j) ==
    /\ place[j] = "wanting" /\ Inside = {}
    /\ place' = [place EXCEPT ![j] = IF active < limit - 1 THEN "passed" ELSE "full"]
    /\ UNCHANGED <<active, limit, shutdown>>

\* The lock is taken and the limit compared with the active jobs.
Look(j) ==
    /\ place[j] = "wanting" /\ Inside = {}
    /\ place' = [place EXCEPT ![j] = IF active < limit THEN "passed" ELSE "full"]
    /\ UNCHANGED <<active, limit, shutdown>>

\* No slot: turned away after Ctrl+C, else to sleep on the condition.
Full(j) ==
    /\ place[j] = "full"
    /\ place' = [place EXCEPT ![j] = IF shutdown THEN "refused" ELSE "asleep"]
    /\ UNCHANGED <<active, limit, shutdown>>

\* A free slot was seen; the shutdown flag is read once more before it is taken.
Passed(j) ==
    /\ place[j] = "passed"
    /\ IF shutdown THEN place' = [place EXCEPT ![j] = "refused"] /\ UNCHANGED active
       ELSE place' = [place EXCEPT ![j] = "holding"] /\ active' = active + 1
    /\ UNCHANGED <<limit, shutdown>>

\* Slip: the sleeper relies on being notified.
TimeoutNever(j) == FALSE

\* The wait on the condition times out; the lock is to be taken again.
Timeout(j) ==
    /\ place[j] = "asleep"
    /\ place' = [place EXCEPT ![j] = "wanting"]
    /\ UNCHANGED <<active, limit, shutdown>>

\* release(): the counter goes down and one sleeper, if there is any, wakes up.
Release(j) ==
    /\ place[j] = "holding" /\ Inside = {}
    /\ active' = IF active > 0 THEN active - 1 ELSE 0
    /\ \/ Asleep = {} /\ place' = [place EXCEPT ![j] = "done"]
       \/ \E k \in Asleep : place' = [place EXCEPT ![j] = "done", ![k] = "wanting"]
    /\ UNCHANGED <<limit, shutdown>>

\* _bump_workers: one step up or down, between MIN_WORKERS and MAX_WORKERS.
Dial ==
    /\ limit' \in {limit - 1, limit + 1} \cap 1 .. MaxLimit
    /\ UNCHANGED <<place, active, shutdown>>

RequestShutdown ==
    /\ ~shutdown
    /\ shutdown' = TRUE
    /\ UNCHANGED <<place, active, limit>>

Acquire(j) == Look(j) \/ Full(j) \/ Passed(j) \/ Timeout(j)

DLNext ==
    \/ \E j \in Jobs : CallAcquire(j) \/ Acquire(j) \/ Release(j)
    \/ Dial
    \/ RequestShutdown

DLSpec == DLInit /\ [][DLNext]_dlVars

\* A thread that is ready runs, a sleep ends, a download ends, and a thread
\* that keeps asking for the lock gets it in the end, though not in any order.
DLFairness ==
    \A j \in Jobs :
        /\ WF_dlVars(Full(j)) /\ WF_dlVars(Passed(j)) /\ WF_dlVars(Timeout(j))
        /\ SF_dlVars(Look(j)) /\ SF_dlVars(Release(j))

DLFairSpec == DLSpec /\ DLFairness

----------------------------------------------------------------------------
\* The counter is exactly the jobs between acquire() and release(): no path out
\* of acquire(), refused, woken or timed out, leaks a slot or gives one twice.
ActiveIsHolders == active = Cardinality(Holding)

\* Ctrl+C releases everyone: no job stays blocked in acquire(), although each
\* release wakes a single sleeper and refused jobs wake none.
Blocked(j) == place[j] \in {"wanting", "full", "passed", "asleep"}
ShutdownUnblocks == \A j \in Jobs : (shutdown /\ Blocked(j)) ~> ~Blocked(j)

\* Every job that asks gets its slot, or is turned away, however the limit is
\* dialed meanwhile.
EveryoneServed == \A j \in Jobs : place[j] = "wanting" ~> place[j] \in {"done", "refused"}

\* The slots the rest of the code sees.  A job counts from the moment the limit
\* was read on, so a limit dialed down in between is seen by the next job only.
Slots == INSTANCE WorkerSlots WITH
    holders <- {j \in Jobs : place[j] \in {"passed", "holding"}},
    refused <- {j \in Jobs : place[j] = "refused"}

ImplementsSlots == Slots!Spec
============================================================================
