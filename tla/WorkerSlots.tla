----------------------------- MODULE WorkerSlots -----------------------------
(***************************************************************************)
(* What the download code relies on when it guards an episode with         *)
(* worker_semaphore (components/download/processing.py): a pool of slots   *)
(* whose size the user dials while jobs hold them.  A job is admitted only *)
(* when fewer jobs than the current limit hold a slot; dialing down takes  *)
(* no slot away; after Ctrl+C a job may be turned away, even one that was  *)
(* just admitted and has not begun.                                        *)
(***************************************************************************)
EXTENDS Integers, FiniteSets

CONSTANTS
    Jobs,       \* the calls of worker_semaphore.acquire()
    MaxLimit    \* RichDownloadUI.MAX_WORKERS

VARIABLES
    holders,    \* the jobs that hold a slot
    refused,    \* the jobs turned away
    limit,      \* workers_ref[0]
    shutdown    \* shutdown_requested()

slots == <<holders, refused, limit, shutdown>>

Init ==
    /\ holders = {}
    /\ refused = {}
    /\ limit \in 1 .. MaxLimit
    /\ shutdown = FALSE

Admit(j) ==
    /\ j \notin holders \cup refused
    /\ Cardinality(holders) < limit
    /\ holders' = holders \cup {j}
    /\ UNCHANGED <<refused, limit, shutdown>>

Refuse(j) ==
    /\ shutdown /\ j \notin refused
    /\ refused' = refused \cup {j}
    /\ holders' = holders \ {j}
    /\ UNCHANGED <<limit, shutdown>>

Leave(j) ==
    /\ j \in holders
    /\ holders' = holders \ {j}
    /\ UNCHANGED <<refused, limit, shutdown>>

\* _bump_workers: one step up or down, between MIN_WORKERS and MAX_WORKERS.
Dial ==
    /\ limit' \in {limit - 1, limit + 1} \cap 1 .. MaxLimit
    /\ UNCHANGED <<holders, refused, shutdown>>

Interrupt ==
    /\ shutdown' = TRUE
    /\ UNCHANGED <<holders, refused, limit>>

Next ==
    \/ \E j \in Jobs : Admit(j) \/ Refuse(j) \/ Leave(j)
    \/ Dial
    \/ Interrupt

Spec == Init /\ [][Next]_slots
============================================================================
