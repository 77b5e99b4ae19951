------------------------------ MODULE SeasonRun ------------------------------
(***************************************************************************)
(* One season folder over several runs of the program:                     *)
(* process_season_folder and _do_download_one_episode (components/download *)
(* /processing.py) with the state file of components/state/app_state.py.   *)
(*                                                                         *)
(* The main thread hands rounds of episodes to a thread pool, collects the *)
(* results, and, when the rounds are over or the user dials the worker     *)
(* limit down to one, drains the rest alone.  Workers share the state with *)
(* the main thread and save it on their own.  Ctrl+C may come at any step, *)
(* the process may be killed at any step, and another process (a second    *)
(* cron job) or the user may put a file into the folder.                   *)
(*                                                                         *)
(* Abstracted: the order within a round (EpisodeQueue models the queue's   *)
(* order), the servers (search_and_download is any sequence of streams     *)
(* that stall, are refused, or fill the .part).                            *)
(*                                                                         *)
(* save_state copies the records, waits for the path's lock, serialises    *)
(* the rest as it is then, and writes it all; an error of the file system  *)
(* is reported and forgotten.  A worker's save is two steps here, so its   *)
(* copy may be older than the records it replaces.  The main thread's is   *)
(* one: the only records that its copy could miss are those SkipExisting   *)
(* makes, which no report counts.  FolderFiles has every save in steps.    *)
(***************************************************************************)
EXTENDS EpisodeScan

CONSTANTS
    Pool,       \* the largest worker limit the user can dial
    MaxRuns,    \* how many times the program is started
    FaultyRuns, \* bound: the file system may fail in so many runs, the first ones
    SharedRuns  \* bound: another process is at work during so many, the first ones

ASSUME PoolAssumption == Pool \in Nat \ {0}
ASSUME MaxRunsAssumption == MaxRuns \in Nat
ASSUME BoundsAssumption == FaultyRuns \in Nat /\ SharedRuns \in Nat

VARIABLES
    lib,        \* the folder, with the state as the process has it in memory
    saved,      \* the state file
    copied,     \* the records each worker's running save has copied
    faulty,     \* history: the file system has failed this run
    phase,      \* where the main thread is
    round,      \* rounds started in this phase
    missing,    \* task.missing_episodes
    queue,      \* the deque of episodes to try in the next round
    items,      \* what is left of a single-worker round
    job,        \* the worker's state for each episode
    completed, failed,  \* the episodes counted in the report
    attempts,   \* how often a worker set out to download the episode this run
    indeterminate,  \* task.preflight_indeterminate
    limit,      \* workers_ref[0]
    shutdown,   \* shutdown_requested()
    interrupted,    \* history: the user has interrupted this run
    runs,       \* runs started so far
    ended       \* how the last run ended

report == <<completed, failed>>
tasks == <<missing, queue, items, round>>
controls == <<limit, shutdown, interrupted, runs>>
disk == <<saved, copied, faulty>>
vars == <<lib, disk, phase, tasks, job, report, attempts, indeterminate, controls, ended>>

----------------------------------------------------------------------------
StateOf(l) == [recorded |-> l.recorded, fails |-> l.fails,
               inProgress |-> l.inProgress, started |-> l.started]

\* load_state: memory holds what the state file says.
Loaded(l, s) == [l EXCEPT !.recorded = s.recorded, !.fails = s.fails,
                          !.inProgress = s.inProgress, !.started = s.started,
                          !.expired = {}]

Saving == {"marking", "noting"}     \* jobs that save the state
Downloading == {"active", "noting", "streaming", "renamed"}
Running == {"marking"} \cup Downloading     \* jobs that hold a worker slot
Finished == {"ok", "permanent", "retry", "cancelled", "raised"}
JobStates == {"idle", "queued"} \cup Running \cup Finished

InFlight == {e \in Episodes : job[e] # "idle"}
Holding == {e \in Episodes : job[e] \in Running}
NoJobs == [e \in Episodes |-> "idle"]
NoCopies == [e \in Episodes |-> {}]

StateFiles == [recorded : SUBSET Episodes, fails : [Episodes -> Nat],
               inProgress : SUBSET Episodes, started : SUBSET Episodes]

Phases == {"off", "parallel", "drain", "stopping", "wrapup", "closing", "aborted"}

TypeOK ==
    /\ lib \in Libraries
    /\ saved \in StateFiles
    /\ copied \in [Episodes -> SUBSET Episodes]
    /\ faulty \in BOOLEAN
    /\ phase \in Phases
    /\ round \in 0 .. MaxAttempts
    /\ missing \in SUBSET Episodes
    /\ queue \in SUBSET Episodes
    /\ items \in SUBSET Episodes
    /\ job \in [Episodes -> JobStates]
    /\ completed \in SUBSET Episodes
    /\ failed \in SUBSET Episodes
    /\ attempts \in [Episodes -> Nat]
    /\ indeterminate \in BOOLEAN
    /\ limit \in 1 .. Pool
    /\ shutdown \in BOOLEAN
    /\ interrupted \in BOOLEAN
    /\ runs \in 0 .. MaxRuns
    /\ ended \in {"never", "closed", "unsaved", "aborted", "crashed"}

\* A folder of an earlier version or an interrupted run: files and .part files
\* of any kind, but nothing recorded yet.
Init ==
    /\ lib \in [file : [Episodes -> {"none", "tiny", "full"}], part : SUBSET Episodes,
                recorded : {{}}, fails : {[e \in Episodes |-> 0]},
                inProgress : {{}}, started : {{}}, expired : {{}},
                listed : {FALSE}, available : {{}}, cursor : {1}]
    /\ saved = StateOf(lib)
    /\ copied = NoCopies
    /\ faulty = FALSE
    /\ phase = "off"
    /\ round = 0
    /\ missing = {} /\ queue = {} /\ items = {}
    /\ job = NoJobs
    /\ completed = {} /\ failed = {}
    /\ attempts = [e \in Episodes |-> 0]
    /\ indeterminate = FALSE
    /\ limit = 1
    /\ shutdown = FALSE
    /\ interrupted = FALSE
    /\ runs = 0
    /\ ended = "never"

\* Bounds: FaultyRuns, and one failure of the file system in a run.
MayFail == runs <= FaultyRuns /\ ~faulty

\* The state file is replaced, or the file system fails.
Write(state) ==
    \/ saved' = state /\ faulty' = faulty
    \/ MayFail /\ saved' = saved /\ faulty' = TRUE

----------------------------------------------------------------------------
(***************************************************************************)
(* The main thread.                                                        *)
(***************************************************************************)
\* setup_season_folder, in one step: it is a single thread, and EpisodeQueue
\* models it step by step.
Prepare(l, aged, old) ==
    LET seen == AutoReset([l EXCEPT !.expired = old], aged)
        found == Missing(seen, FALSE, 0)
        synced == SyncInProgress(ConvertTiny(seen))
        pruned == PruneStarted(synced)
        order == AfterPriority(found, pruned, AfterResume(found, synced))
    IN [found |-> found,
        state |-> StateOf(synced),      \* saved before the markers are pruned
        lib |-> [pruned EXCEPT !.cursor =
                    IF found # {} THEN First(found, order)
                    ELSE IF @ <= LastEpisode THEN LastEpisode + 1 ELSE @]]

\* The run starts: preparation, existing files dropped from the task, and the
\* choice between the pool and the single-worker loop.  Of the saves on the way
\* the last one may fail.
Setup ==
    /\ phase = "off" /\ runs < MaxRuns
    /\ limit' \in 1 .. Pool     \* the options of this start
    /\ \E aged \in SUBSET {e \in Episodes : lib.fails[e] > 0}, old \in SUBSET lib.started :
          LET ready == Prepare(lib, aged, old)
              there == AlreadyThere(ready.lib, ready.found)
              kept == AddDownload(ready.lib, there \ ready.lib.recorded)
              left == ready.found \ there
              closed == RecordExisting(kept, {})
              opening == IF there # {} THEN StateOf(kept) ELSE ready.state
              last == IF left = {} THEN StateOf(closed) ELSE opening
              previous == IF left = {} THEN opening
                          ELSE IF there # {} THEN ready.state ELSE saved
          IN /\ missing' = left
             /\ queue' = left /\ items' = {}
             /\ \/ saved' = last /\ faulty' = FALSE
                \/ runs < FaultyRuns /\ saved' = previous /\ faulty' = TRUE
             /\ IF left = {}
                THEN /\ lib' = Loaded(closed, saved')
                     /\ phase' = "off"
                     /\ ended' = IF faulty' THEN "unsaved" ELSE "closed"
                ELSE /\ lib' = kept
                     /\ phase' = IF limit' > 1 /\ Cardinality(left) > 1
                                 THEN "parallel" ELSE "drain"
                     /\ ended' = "never"
    /\ indeterminate' \in BOOLEAN
    /\ shutdown' = FALSE        \* clear_shutdown
    /\ interrupted' = FALSE
    /\ runs' = runs + 1
    /\ round' = 0
    /\ completed' = {} /\ failed' = {}
    /\ attempts' = [e \in Episodes |-> 0]
    /\ UNCHANGED <<job, copied>>

\* Slip: one round too many.
StartRoundOnceMore ==
    /\ phase = "parallel" /\ InFlight = {}
    /\ ~shutdown /\ queue # {} /\ round <= MaxAttempts /\ limit > 1
    /\ job' = [e \in Episodes |-> IF e \in queue THEN "queued" ELSE "idle"]
    /\ queue' = {}
    /\ round' = round + 1
    /\ UNCHANGED <<lib, disk, phase, missing, items, report, attempts,
                   indeterminate, controls, ended>>

\* A parallel round: the whole queue is submitted to the pool.
StartRound ==
    /\ phase = "parallel" /\ InFlight = {}
    /\ ~shutdown /\ queue # {} /\ round < MaxAttempts /\ limit > 1
    /\ job' = [e \in Episodes |-> IF e \in queue THEN "queued" ELSE "idle"]
    /\ queue' = {}
    /\ round' = round + 1
    /\ UNCHANGED <<lib, disk, phase, missing, items, report, attempts,
                   indeterminate, controls, ended>>

\* Rounds used up, nothing left, or the user dialed down to one worker.
LeaveParallel ==
    /\ phase = "parallel" /\ InFlight = {} /\ ~shutdown
    /\ queue = {} \/ round = MaxAttempts \/ limit <= 1
    /\ phase' = "drain"
    /\ round' = 0
    /\ UNCHANGED <<lib, disk, missing, queue, items, job, report, attempts,
                   indeterminate, controls, ended>>

StartDrainRound ==
    /\ phase = "drain" /\ InFlight = {} /\ items = {}
    /\ ~shutdown /\ queue # {} /\ round < MaxAttempts
    /\ items' = queue
    /\ queue' = {}
    /\ round' = round + 1
    /\ UNCHANGED <<lib, disk, phase, missing, job, report, attempts,
                   indeterminate, controls, ended>>

\* The next episode of a single-worker round runs in the main thread itself.
DrainNext(e) ==
    /\ phase = "drain" /\ InFlight = {} /\ ~shutdown
    /\ e \in items
    /\ items' = items \ {e}
    /\ job' = [job EXCEPT ![e] = "queued"]
    /\ lib' = [lib EXCEPT !.cursor = e]
    /\ UNCHANGED <<disk, phase, missing, queue, round, report, attempts,
                   indeterminate, controls, ended>>

DrainInterrupted ==
    /\ phase = "drain" /\ InFlight = {} /\ shutdown /\ items # {}
    /\ queue' = queue \cup items
    /\ items' = {}
    /\ UNCHANGED <<lib, disk, phase, missing, round, job, report, attempts,
                   indeterminate, controls, ended>>

\* Slip: the loop that found work left does not look for Ctrl+C.
FinishDrainDeaf ==
    /\ phase = "drain" /\ InFlight = {} /\ items = {}
    /\ queue = {} \/ round = MaxAttempts
    /\ phase' = "wrapup"
    /\ UNCHANGED <<lib, disk, tasks, job, report, attempts,
                   indeterminate, controls, ended>>

FinishDrain ==
    /\ phase = "drain" /\ InFlight = {} /\ items = {}
    /\ queue = {} \/ round = MaxAttempts \/ shutdown
    /\ phase' = "wrapup"
    /\ UNCHANGED <<lib, disk, tasks, job, report, attempts,
                   indeterminate, controls, ended>>

\* The pool's loop looks at the flag before each result.
Collecting == phase = "drain" \/ (phase = "parallel" /\ ~shutdown)

\* apply_result of a success: recorded, saved, counted, and the cursor moved.
CollectSuccess(e) ==
    /\ job[e] = "ok"
    /\ Collecting
    /\ LET done == completed \cup {e}
           pending == missing \ done
           recorded == AddDownload(lib, {e})
           next == IF phase = "drain" THEN e + 1
                   ELSE IF pending = {} THEN 1 + CHOOSE m \in missing : \A f \in missing : f <= m
                   ELSE CHOOSE m \in pending : \A f \in pending : m <= f
       IN /\ lib' = [recorded EXCEPT !.cursor = next]
          /\ Write(StateOf(recorded))
          /\ completed' = done
    /\ job' = [job EXCEPT ![e] = "idle"]
    /\ UNCHANGED <<copied, phase, tasks, failed, attempts, indeterminate, controls, ended>>

\* apply_result of a permanent failure: counted in memory, saved only later.  A
\* "no streams" failure after a rate-limited preflight costs no budget.
CollectFailure(e) ==
    /\ job[e] = "permanent"
    /\ Collecting
    /\ failed' = failed \cup {e}
    /\ \/ lib' = MarkFailed(lib, {e})
       \/ indeterminate /\ lib' = lib
    /\ job' = [job EXCEPT ![e] = "idle"]
    /\ UNCHANGED <<disk, phase, tasks, completed, attempts, indeterminate,
                   controls, ended>>

\* Slip: the deferred episode is not put back.
CollectRetryDropped(e) ==
    /\ job[e] = "retry"
    /\ Collecting
    /\ job' = [job EXCEPT ![e] = "idle"]
    /\ UNCHANGED <<lib, disk, phase, tasks, report, attempts,
                   indeterminate, controls, ended>>

\* Slip: every deferral costs budget.
CollectRetryCounted(e) ==
    /\ job[e] = "retry"
    /\ Collecting
    /\ queue' = queue \cup {e}
    /\ lib' = MarkFailed(lib, {e})
    /\ job' = [job EXCEPT ![e] = "idle"]
    /\ UNCHANGED <<disk, phase, missing, items, round, report, attempts,
                   indeterminate, controls, ended>>

\* Any other outcome: the episode is tried again in the next round.
CollectRetry(e) ==
    /\ job[e] = "retry"
    /\ Collecting
    /\ queue' = queue \cup {e}
    /\ job' = [job EXCEPT ![e] = "idle"]
    /\ UNCHANGED <<lib, disk, phase, missing, items, round, report, attempts,
                   indeterminate, controls, ended>>

\* An exception leaves process_season_folder and its queue; completed and failed
\* keep what had been counted.
Abandon ==
    /\ phase' = "aborted"
    /\ round' = 0
    /\ missing' = {} /\ queue' = {} /\ items' = {}

\* A worker's exception, DownloadCancelled too, reaches the main thread:
\* process_season_folder is left at once, and the pool is shut down without waiting
\* for or cancelling anything.
CollectException(e) ==
    /\ job[e] \in {"raised", "cancelled"}
    /\ Collecting
    /\ Abandon
    /\ job' = [job EXCEPT ![e] = "idle"]
    /\ UNCHANGED <<lib, disk, report, attempts, indeterminate, controls, ended>>

\* save_state fails because a worker changes a dictionary it goes through: the
\* success is in memory, and not counted.
CollectRaises(e) ==
    /\ job[e] = "ok"
    /\ phase = "parallel" /\ ~shutdown /\ Holding # {}
    /\ Abandon
    /\ lib' = AddDownload(lib, {e})
    /\ job' = [job EXCEPT ![e] = "idle"]
    /\ UNCHANGED <<disk, report, attempts, indeterminate, controls, ended>>

\* as_completed yields after Ctrl+C: waiting jobs are cancelled, the running
\* ones left to end by themselves, and no result is looked at any more.  Nothing
\* blocks between this and shutdown(wait=shutdown_requested()), so it waits.
ShutdownBreak ==
    /\ phase = "parallel" /\ shutdown
    /\ InFlight # {} => \E e \in Episodes : job[e] \in Finished
    /\ phase' = "stopping"
    /\ job' = [e \in Episodes |-> IF job[e] = "queued" THEN "cancelled" ELSE job[e]]
    /\ UNCHANGED <<lib, disk, tasks, report, attempts, indeterminate, controls, ended>>

\* shared_executor.shutdown(wait=True).
PoolStopped ==
    /\ phase = "stopping"
    /\ \A e \in InFlight : job[e] \in Finished
    /\ phase' = "wrapup"
    /\ job' = NoJobs
    /\ UNCHANGED <<lib, disk, tasks, report, attempts, indeterminate, controls, ended>>

\* A real Ctrl+C hits the main thread anywhere: process_season_folder is left
\* without waiting, a download in the main thread with it, and
\* AppService._interrupted asks the pool's workers to stop.
KeyboardInterrupt ==
    /\ phase \notin {"off", "aborted"}
    /\ Abandon
    /\ shutdown' = TRUE /\ interrupted' = TRUE
    /\ IF phase = "drain" THEN job' = NoJobs /\ copied' = NoCopies
                          ELSE UNCHANGED <<job, copied>>
    /\ UNCHANGED <<lib, saved, faulty, report, attempts, indeterminate, limit, runs, ended>>

\* Slip: after a rate-limited preflight the leftovers are not even counted.
MarkLeftoversUncounted ==
    /\ phase = "wrapup"
    /\ IF shutdown \/ indeterminate THEN UNCHANGED <<lib, failed>>
       ELSE failed' = failed \cup queue /\ lib' = MarkFailed(lib, queue)
    /\ phase' = "closing"
    /\ UNCHANGED <<disk, tasks, job, completed, attempts, indeterminate,
                   controls, ended>>

\* What all rounds left over has failed, unless the user interrupted the run.
MarkLeftovers ==
    /\ phase = "wrapup"
    /\ IF shutdown THEN UNCHANGED <<lib, failed>>
       ELSE /\ failed' = failed \cup queue
            /\ lib' = IF indeterminate THEN lib ELSE MarkFailed(lib, queue)
    /\ phase' = "closing"
    /\ UNCHANGED <<disk, tasks, job, completed, attempts, indeterminate,
                   controls, ended>>

\* Slip: the state is not saved at the end.
CloseUnsaved ==
    /\ phase = "closing"
    /\ lib' = Loaded(RecordExisting(lib, {}), saved)
    /\ phase' = "off" /\ ended' = "closed"
    /\ queue' = {} /\ round' = 0
    /\ attempts' = [e \in Episodes |-> 0]
    /\ UNCHANGED <<disk, missing, items, job, report, indeterminate, controls>>

\* The closing scan of the folder and the last save; the next run loads the state
\* from the file.
Close ==
    /\ phase = "closing"
    /\ LET closed == RecordExisting(lib, {})
       IN /\ Write(StateOf(closed))
          /\ lib' = Loaded(closed, saved')
          /\ ended' = IF saved' = StateOf(closed) THEN "closed" ELSE "unsaved"
    /\ phase' = "off"
    /\ queue' = {} /\ round' = 0
    /\ attempts' = [e \in Episodes |-> 0]
    /\ UNCHANGED <<copied, missing, items, job, report, indeterminate, controls>>

\* The process is gone, and everything it had in memory.
Exit(how) ==
    /\ lib' = Loaded(lib, saved)
    /\ phase' = "off" /\ ended' = how
    /\ round' = 0
    /\ missing' = {} /\ queue' = {} /\ items' = {}
    /\ completed' = {} /\ failed' = {}
    /\ job' = NoJobs /\ copied' = NoCopies
    /\ attempts' = [e \in Episodes |-> 0]
    /\ indeterminate' = FALSE
    /\ shutdown' = FALSE /\ interrupted' = FALSE
    /\ faulty' = FALSE
    /\ UNCHANGED <<saved, limit, runs>>

\* After an exception the process ends once the pool's threads are through with
\* what was submitted; what memory held is gone.
AbortedExit ==
    /\ phase = "aborted"
    /\ \A e \in InFlight : job[e] \in Finished
    /\ Exit("aborted")

Main ==
    \/ Setup \/ StartRound \/ LeaveParallel
    \/ StartDrainRound \/ DrainInterrupted \/ FinishDrain
    \/ ShutdownBreak \/ PoolStopped \/ MarkLeftovers \/ Close \/ AbortedExit
    \/ \E e \in Episodes : \/ DrainNext(e) \/ CollectSuccess(e) \/ CollectFailure(e)
                           \/ CollectRetry(e) \/ CollectException(e) \/ CollectRaises(e)

----------------------------------------------------------------------------
(***************************************************************************)
(* A worker.                                                               *)
(***************************************************************************)
workerUnchanged == <<phase, tasks, report, indeterminate, controls, ended>>

\* worker_semaphore.acquire() returns False after Ctrl+C.
SlotRefused(e) ==
    /\ job[e] = "queued" /\ shutdown
    /\ job' = [job EXCEPT ![e] = "cancelled"]
    /\ UNCHANGED <<lib, disk, attempts, workerUnchanged>>

HasSlot(e) == job[e] = "queued" /\ ~shutdown /\ Cardinality(Holding) < limit

\* The file has appeared since the task was prepared: recorded, not saved, and
\* reported as neither success nor failure.
SkipExisting(e) ==
    /\ HasSlot(e)
    /\ lib.file[e] = "full"
    /\ lib' = AddDownload(lib, {e} \ lib.recorded)
    /\ job' = [job EXCEPT ![e] = "retry"]
    /\ UNCHANGED <<disk, attempts, workerUnchanged>>

\* Slip: the marker is not saved before the addons are asked.
BeginUnsaved(e) ==
    /\ HasSlot(e)
    /\ lib.file[e] # "full"
    /\ lib' = [lib EXCEPT !.file[e] = "none", !.inProgress = @ \cup {e}]
    /\ job' = [job EXCEPT ![e] = "active"]
    /\ attempts' = [attempts EXCEPT ![e] = @ + 1]
    /\ UNCHANGED <<disk, workerUnchanged>>

\* A save of worker e begins: the records are copied ...
StartSave(e) ==
    /\ copied' = [copied EXCEPT ![e] = lib'.recorded]
    /\ UNCHANGED <<saved, faulty>>

\* ... and then everything is written, the rest of the state as it is by now.
FinishSave(e) ==
    /\ Write([StateOf(lib) EXCEPT !.recorded = copied[e]])
    /\ copied' = [copied EXCEPT ![e] = {}]

\* Otherwise a short final file is removed and the episode marked in progress ...
Begin(e) ==
    /\ HasSlot(e)
    /\ lib.file[e] # "full"
    /\ lib' = [lib EXCEPT !.file[e] = "none", !.inProgress = @ \cup {e}]
    /\ StartSave(e)
    /\ job' = [job EXCEPT ![e] = "marking"]
    /\ attempts' = [attempts EXCEPT ![e] = @ + 1]
    /\ UNCHANGED workerUnchanged

\* ... and the state saved, before any addon is asked.
SaveMarker(e) ==
    /\ job[e] = "marking"
    /\ FinishSave(e)
    /\ job' = [job EXCEPT ![e] = "active"]
    /\ UNCHANGED <<lib, attempts, workerUnchanged>>

\* A stream answers and bytes arrive, not the episode's first ones.
Stream(e) ==
    /\ job[e] = "active" /\ e \in lib.started
    /\ lib' = [lib EXCEPT !.part = @ \cup {e}]
    /\ job' = [job EXCEPT ![e] = "streaming"]
    /\ UNCHANGED <<disk, attempts, workerUnchanged>>

\* The first bytes: on_bytes marks the episode started and saves the state, both
\* under the state_lock.
FirstBytes(e) ==
    /\ job[e] = "active" /\ e \notin lib.started
    /\ \A f \in Episodes : job[f] # "noting"
    /\ lib' = [lib EXCEPT !.part = @ \cup {e}, !.started = @ \cup {e}]
    /\ StartSave(e)
    /\ job' = [job EXCEPT ![e] = "noting"]
    /\ UNCHANGED <<attempts, workerUnchanged>>

SaveStarted(e) ==
    /\ job[e] = "noting"
    /\ FinishSave(e)
    /\ job' = [job EXCEPT ![e] = "streaming"]
    /\ UNCHANGED <<lib, attempts, workerUnchanged>>

\* Another thread changes a dictionary that save_state goes through: a RuntimeError
\* ends the worker, or, at the first bytes, the stream.
SaveRaises(e) ==
    /\ job[e] \in Saving /\ phase # "drain"
    /\ copied' = [copied EXCEPT ![e] = {}]
    /\ job' = [job EXCEPT ![e] = IF @ = "marking" THEN "raised" ELSE "active"]
    /\ UNCHANGED <<lib, saved, faulty, attempts, workerUnchanged>>

\* A placeholder answer: _validate_response_before_download removes the final
\* file, should another process have put one there meanwhile.
RejectResponse(e) ==
    /\ job[e] = "active" /\ lib.file[e] # "none"
    /\ lib' = [lib EXCEPT !.file[e] = "none"]
    /\ UNCHANGED <<disk, job, attempts, workerUnchanged>>

\* The stream stalls, or ends short: the bytes stay and the next stream is tried.
Stall(e) ==
    /\ job[e] = "streaming"
    /\ job' = [job EXCEPT ![e] = "active"]
    /\ UNCHANGED <<lib, disk, attempts, workerUnchanged>>

\* An HLS stream starts from scratch and leaves nothing behind when it fails.
DiscardPart(e) ==
    /\ job[e] \in {"active", "streaming"} /\ e \in lib.part
    /\ lib' = [lib EXCEPT !.part = @ \ {e}]
    /\ job' = [job EXCEPT ![e] = "active"]
    /\ UNCHANGED <<disk, attempts, workerUnchanged>>

\* The body is complete: .part becomes the final file.
Rename(e) ==
    /\ job[e] = "streaming"
    /\ \E size \in {"tiny", "full"} :
          lib' = [lib EXCEPT !.part = @ \ {e}, !.file[e] = size]
    /\ job' = [job EXCEPT ![e] = "renamed"]
    /\ UNCHANGED <<disk, attempts, workerUnchanged>>

\* _validate_completed_file: too short or structurally broken, it is removed.
Accept(e) ==
    /\ job[e] = "renamed" /\ lib.file[e] = "full"
    /\ job' = [job EXCEPT ![e] = "ok"]
    /\ UNCHANGED <<lib, disk, attempts, workerUnchanged>>

\* Slip: Final-File Promotion Outside Try/Except of docs/download-flow.md.
InvalidateKept(e) ==
    /\ job[e] = "renamed"
    /\ job' = [job EXCEPT ![e] = "active"]
    /\ UNCHANGED <<lib, disk, attempts, workerUnchanged>>

Invalidate(e) ==
    /\ job[e] = "renamed"
    /\ lib' = [lib EXCEPT !.file[e] = "none"]
    /\ job' = [job EXCEPT ![e] = "active"]
    /\ UNCHANGED <<disk, attempts, workerUnchanged>>

\* The file cannot be looked at: an OSError that no handler expects, so the next
\* stream is tried and the file stays.
ValidationErrs(e) ==
    /\ job[e] = "renamed" /\ MayFail
    /\ faulty' = TRUE
    /\ job' = [job EXCEPT ![e] = "active"]
    /\ UNCHANGED <<lib, saved, copied, attempts, workerUnchanged>>

\* No stream is left to try.
GiveUp(e) ==
    /\ job[e] = "active"
    /\ \E outcome \in {"permanent", "retry"} : job' = [job EXCEPT ![e] = outcome]
    /\ UNCHANGED <<lib, disk, attempts, workerUnchanged>>

\* An error nobody catches in the worker.
Raise(e) ==
    /\ job[e] = "active"
    /\ job' = [job EXCEPT ![e] = "raised"]
    /\ UNCHANGED <<lib, disk, attempts, workerUnchanged>>

\* raise_if_shutdown_requested, before the search and at every chunk.
Interrupt(e) ==
    /\ job[e] \in {"active", "streaming"} /\ shutdown
    /\ job' = [job EXCEPT ![e] = "cancelled"]
    /\ UNCHANGED <<lib, disk, attempts, workerUnchanged>>

Worker(e) ==
    \/ SlotRefused(e) \/ SkipExisting(e) \/ Begin(e) \/ SaveMarker(e)
    \/ Stream(e) \/ FirstBytes(e) \/ SaveStarted(e) \/ SaveRaises(e)
    \/ RejectResponse(e) \/ Stall(e) \/ DiscardPart(e) \/ Rename(e)
    \/ Accept(e) \/ Invalidate(e) \/ ValidationErrs(e)
    \/ GiveUp(e) \/ Raise(e) \/ Interrupt(e)

----------------------------------------------------------------------------
(***************************************************************************)
(* The user, the other processes, and crashes.                             *)
(***************************************************************************)
\* The user presses + or -; only parallel rounds and their slots read the limit
\* in a way that matters (the single-worker loop needs one slot at a time).
Dial ==
    /\ phase = "parallel"
    /\ limit' \in 1 .. Pool /\ limit' # limit
    /\ UNCHANGED <<lib, disk, phase, tasks, job, report, attempts,
                   indeterminate, shutdown, interrupted, runs, ended>>

\* The user presses q.  Bound: once in a run.
RequestShutdown ==
    /\ phase # "off" /\ ~interrupted
    /\ shutdown' = TRUE /\ interrupted' = TRUE
    /\ UNCHANGED <<lib, disk, phase, tasks, job, report, attempts,
                   indeterminate, limit, runs, ended>>

\* The user's next command calls clear_shutdown while this folder, which the last
\* one has left behind, is still at work.
ClearShutdown ==
    /\ phase # "off" /\ shutdown
    /\ shutdown' = FALSE
    /\ UNCHANGED <<lib, disk, phase, tasks, job, report, attempts,
                   indeterminate, limit, interrupted, runs, ended>>

Crash ==
    /\ phase # "off"
    /\ Exit("crashed")

\* Another process finishes the same episode.
FileArrives(e) ==
    /\ phase # "off" /\ runs <= SharedRuns
    /\ job[e] \in {"idle", "queued", "marking", "active"}
    /\ lib.file[e] = "none"
    /\ lib' = [lib EXCEPT !.file[e] = "full"]
    /\ UNCHANGED <<disk, phase, tasks, job, report, attempts,
                   indeterminate, controls, ended>>

UserDeletes(e) ==
    /\ phase = "off" /\ runs < MaxRuns
    /\ lib.file[e] # "none"
    /\ lib' = [lib EXCEPT !.file[e] = "none"]
    /\ UNCHANGED <<disk, phase, tasks, job, report, attempts,
                   indeterminate, controls, ended>>

Environment ==
    \/ Dial \/ RequestShutdown \/ ClearShutdown \/ KeyboardInterrupt \/ Crash
    \/ \E e \in Episodes : FileArrives(e) \/ UserDeletes(e)

Next == Main \/ (\E e \in Episodes : Worker(e)) \/ Environment

Spec == Init /\ [][Next]_vars

\* The main thread and the pool's threads keep running, and a worker, which has a
\* finite list of streams, does not return to asking for the next one for ever.
\* That a stream ends is not assumed: PartFile shows which ones do.
Fairness ==
    /\ WF_vars(Main)
    /\ \A e \in Episodes : WF_vars(job[e] # "streaming" /\ Worker(e)) /\ SF_vars(GiveUp(e))

FairSpec == Spec /\ Fairness

----------------------------------------------------------------------------
Disjoint(sets) ==
    \A i, j \in DOMAIN sets : i # j => sets[i] \cap sets[j] = {}

\* While the rounds run, every episode of the task is in exactly one place: to
\* be tried, left in the round, with a worker, or counted once in the report.
\* The deque, the futures and the result loop of process_season_folder lose or
\* repeat none, whenever results arrive and the limit is dialed.
EveryEpisodeAccounted ==
    /\ phase \in {"parallel", "drain"} =>
          missing = queue \cup items \cup InFlight \cup completed \cup failed
    /\ phase \in {"parallel", "drain", "stopping", "wrapup"} =>
          Disjoint(<<queue, items, InFlight, completed, failed>>)

\* A run nobody interrupted reports each episode of its task exactly once, as
\* downloaded or as failed.
ReportComplete ==
    phase = "closing" \/ (phase = "off" /\ ended \in {"closed", "unsaved"}) =>
        /\ completed \cap failed = {}
        /\ ~interrupted => missing = completed \cup failed

\* Whenever a worker may be writing bytes, the state file already says so, unless
\* the file system fails: a crash at any step leaves the marker that
\* _do_download_one_episode saved first, and no thread's older save overwrites it.
MarkedWhileDownloading ==
    ~faulty => {e \in Episodes : job[e] \in Downloading} \subseteq saved.inProgress

\* A download that is reported stays: while the run is on, its video is in the
\* folder and its record in memory.  The state file may lose the record to a
\* worker's older save or to the file system, but the closing save restores it,
\* and records every other video too, the ones whose results nobody read among them.
ReportedDownloadsKept ==
    /\ phase # "off" => \A e \in completed : lib.file[e] = "full" /\ e \in lib.recorded
    /\ phase = "off" /\ ended = "closed" =>
          completed \cup {e \in Episodes : lib.file[e] = "full"} \subseteq saved.recorded

\* A failure that is reported at the end of a run has reached the state file,
\* unless the run was rate limited or the file is there after all.
ReportedFailuresDurable ==
    phase = "off" /\ ended = "closed" /\ ~indeterminate =>
        \A e \in failed : saved.fails[e] > 0 \/ e \in saved.recorded

\* The budget counts failed runs: in a run, an episode's counter rises once, by
\* one, when the report counts the episode as failed, and the file's counter with
\* it.  A deferred attempt costs nothing, nor does an interruption as such.  (A
\* search that Ctrl+C cuts short may end as a permanent failure; it counts.)
BudgetCountsFailedRuns ==
    [][\A e \in Episodes :
        /\ phase # "off" /\ phase' # "off" /\ lib'.fails[e] > lib.fails[e] =>
              /\ lib'.fails[e] = lib.fails[e] + 1
              /\ e \in failed' \ failed
        /\ saved'.fails[e] > saved.fails[e] =>
              /\ saved'.fails[e] = saved.fails[e] + 1
              /\ e \in failed']_vars

\* The files of an episode as its worker's promise has them.
FileOf(e) == IF lib.file[e] = "full" THEN "video"
             ELSE IF lib.file[e] = "tiny" THEN "short" ELSE "none"

StageOf(e) == IF job[e] \in {"marking", "active", "noting", "streaming"} THEN "searching"
              ELSE IF job[e] = "renamed" THEN "renamed"
              ELSE IF job[e] = "ok" THEN "done" ELSE "off"

Mishaps == {m \in {"death", "abort", "error"} :
    \/ m = "death" /\ phase = "off" /\ ended = "crashed"
    \/ m = "abort" /\ phase = "aborted"
    \/ m = "error" /\ faulty}

Video(e) == INSTANCE VideoFile WITH
    file <- FileOf(e), part <- e \in lib.part, stage <- StageOf(e), mishaps <- Mishaps

\* Whatever the main thread, the other workers, Ctrl+C and the next run do, the
\* files of every episode go through the life that its worker promises: nobody
\* touches them behind its back, and no job is forgotten with a file that was not
\* validated, unless its process dies, an exception (Ctrl+C) takes the main thread
\* out of a download of its own, or the file system fails at that file.
FilesAsPromised ==
    /\ \A e \in Episodes : Video(e)!Init
    /\ [][\A e \in Episodes : [Video(e)!Next]_(Video(e)!video)]_vars

\* Every run comes to an end, however the limit is dialed and whoever interrupts,
\* if every stream does: no worker waits for a slot, a lock or the main thread for
\* ever, nor the main thread for a worker.
RunEnds ==
    (\A e \in Episodes : []<>(job[e] # "streaming")) => (phase # "off" ~> phase = "off")

----------------------------------------------------------------------------
\* README.md: "MAX_DOWNLOAD_ATTEMPTS ... Retry rounds per episode".
AttemptsWithinBudget == \A e \in Episodes : attempts[e] <= MaxAttempts
============================================================================
