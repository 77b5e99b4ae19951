---------------------------- MODULE FolderFiles ----------------------------
(***************************************************************************)
(* The two files of a folder, .download-state.json and                     *)
(* download-config.json, while a run works on it: what its threads have in *)
(* memory, what they are writing, and what is on disk.  The main thread    *)
(* prepares, applies results and closes; one worker per missing episode    *)
(* marks what it does.  A film has no workers.  The metadata service of    *)
(* another process may rewrite the config, the user may delete a video,    *)
(* and the process may die at any step.                                    *)
(*                                                                         *)
(* Where SeasonRun takes save_state as one step, here it is three: the     *)
(* data are built, of which only the items are copies; under the lock of   *)
(* the path all is serialised; the file is replaced.  The order of the     *)
(* queue, attempts and files half done are SeasonRun's subject.  Of the    *)
(* markers, started goes with in_progress (marked), and the entries of     *)
(* preflight_indeterminate, which nothing reads, are left out; of the      *)
(* config only the lists of servers are kept.                              *)
(***************************************************************************)
EXTENDS Integers, FiniteSets

CONSTANTS Episodes, Film, Servers,
          EarlierRuns,  \* what they left: records of files and disk
          MaxRuns,      \* bound on the runs of the program
          MaxRewrites   \* bound on those of the metadata service

ASSUME ItemsAssumption == Film \notin Episodes /\ "main" \notin Episodes

Items == Episodes \cup {Film}
Threads == {"main"} \cup Episodes

NoRecord == "no record"
NoServer == "no server"      \* a record of a file found in the folder

ASSUME ServersAssumption == {NoRecord, NoServer} \cap Servers = {}

States == [items : [Items -> Servers \cup {NoRecord, NoServer}],
           failed : SUBSET Items, marked : SUBSET Items]
Configs == [servers : SUBSET Servers, disabled : SUBSET Servers]

\* What load_state and load_config make of a missing or unreadable file.
FreshState == [items |-> [i \in Items |-> NoRecord],
               failed |-> {}, marked |-> {}]
FreshConfig == [servers |-> {}, disabled |-> {}]

ASSUME EarlierRunsAssumption ==
    \A left \in EarlierRuns : /\ left.files \subseteq Items
                              /\ left.disk \in [state : States, config : Configs]
ASSUME BoundsAssumption == MaxRuns \in Nat /\ MaxRewrites \in Nat

VARIABLES
    kind,          \* of the folder
    files,         \* items whose video is in the folder
    disk,          \* the two files
    memory,        \* task.state
    config,        \* task.config
    phase,         \* of the main thread
    job,           \* of an episode's worker
    writing,       \* what a thread is saving
    disabling,     \* new_disabled: computed, not yet assigned
    verified,      \* servers that completed a download in this run
    inconclusive,  \* task.preflight_indeterminate
    shutdown,
    refresh,       \* the config that a metadata run has read, if any
    vanished,      \* servers this run found to have delivered deleted files
    runs, rewrites,
    faulty,        \* a save of this run failed (not in the code)
    clobbered      \* a metadata run wrote meanwhile (not in the code)

ours == <<memory, config, phase, job, writing, disabling, verified, inconclusive, vanished>>
history == <<runs, rewrites, faulty, clobbered>>
vars == <<kind, files, disk, ours, shutdown, refresh, history>>

Phases == {"off", "loaded", "cleaned", "working", "verifying", "blaming", "noting",
           "closing", "recording", "saving", "closed", "abandoned", "filming", "filmed"}

Jobs == {"none", "queued", "looking", "disabling", "disabled", "marking", "searching",
         "downloading", "success", "failed", "applied", "deferred", "cancelled", "raised"}

\* A save of the state has copied the items, then serialised everything.
Writes == [step : {"none", "copied", "dumped", "config"}, state : States, config : Configs]
NoWrite == [step |-> "none", state |-> FreshState, config |-> FreshConfig]

TypeOK ==
    /\ kind \in {"season", "film"}
    /\ files \subseteq Items
    /\ disk \in [state : States, config : Configs]
    /\ memory \in States /\ config \in Configs
    /\ phase \in Phases
    /\ job \in [Episodes -> Jobs]
    /\ writing \in [Threads -> Writes]
    /\ disabling \in [Threads -> SUBSET Servers]
    /\ verified \subseteq Servers /\ vanished \subseteq Servers
    /\ refresh \subseteq Configs
    /\ runs \in 0..MaxRuns /\ rewrites \in 0..MaxRewrites
    /\ inconclusive \in BOOLEAN /\ shutdown \in BOOLEAN
    /\ faulty \in BOOLEAN /\ clobbered \in BOOLEAN

\* No run works on the folder.
Idle ==
    /\ phase = "off"
    /\ memory = FreshState /\ config = FreshConfig
    /\ job = [e \in Episodes |-> "none"]
    /\ writing = [t \in Threads |-> NoWrite]
    /\ disabling = [t \in Threads |-> {}]
    /\ verified = {} /\ vanished = {}
    /\ inconclusive = FALSE

Init ==
    /\ kind \in {"season", "film"}
    /\ \E left \in EarlierRuns : files = left.files /\ disk = left.disk
    /\ Idle
    /\ shutdown = FALSE /\ refresh = {}
    /\ runs = 0 /\ rewrites = 0
    /\ faulty = FALSE /\ clobbered = FALSE

Running(e) ==
    job[e] \in {"looking", "disabling", "disabled", "marking", "searching", "downloading"}

Free(t) == writing[t].step = "none"

----------------------------------------------------------------------------
(***************************************************************************)
(* Saving.                                                                 *)
(***************************************************************************)
\* An error of the file system is reported and forgotten.  Bound: one in a run.
WriteDisk(new) ==
    \/ disk' = new /\ faulty' = faulty
    \/ ~faulty /\ disk' = disk /\ faulty' = TRUE

\* save_state begins: thread t has changed the state to s.
StartSave(t, s) ==
    /\ memory' = s
    /\ writing' = [writing EXCEPT ![t] = [NoWrite EXCEPT !.step = "copied", !.state.items = s.items]]

\* save_config, which copies the whole config.
StartConfig(t, c) ==
    /\ config' = c
    /\ writing' = [writing EXCEPT ![t] = [NoWrite EXCEPT !.step = "config", !.config = c]]

PathLockFree == \A t \in Threads : writing[t].step # "dumped"

\* failed_items and in_progress are not copied: the
\* file gets them as they are when they are serialised.
Serialised(copy) == [memory EXCEPT !.items = copy.items]

Dump(t) ==
    /\ writing[t].step = "copied" /\ PathLockFree
    /\ writing' = [writing EXCEPT ![t].step = "dumped",
                                  ![t].state = Serialised(writing[t].state)]
    /\ UNCHANGED <<kind, files, disk, memory, config, phase, job, disabling, verified,
                   inconclusive, vanished, shutdown, refresh, history>>

\* Another thread changed a dictionary meanwhile: a RuntimeError, which ends the
\* worker, and in the main thread the folder's run.
DumpRaises(t) ==
    /\ writing[t].step = "copied" /\ PathLockFree
    /\ t = "main" => \E e \in Episodes : Running(e)
    /\ writing' = [writing EXCEPT ![t] = NoWrite]
    /\ IF t = "main"
       THEN phase' = "abandoned" /\ job' = job
       ELSE phase' = phase /\ job' = [job EXCEPT ![t] = "raised"]
    /\ UNCHANGED <<kind, files, disk, memory, config, disabling, verified,
                   inconclusive, vanished, shutdown, refresh, history>>

Written(t) ==
    IF writing[t].step = "dumped"
    THEN [disk EXCEPT !.state = writing[t].state]
    ELSE [disk EXCEPT !.config = writing[t].config]

Replace(t) ==
    /\ writing[t].step \in {"dumped", "config"}
    /\ WriteDisk(Written(t))
    /\ writing' = [writing EXCEPT ![t] = NoWrite]
    /\ UNCHANGED <<kind, files, memory, config, phase, job, disabling, verified,
                   inconclusive, vanished, shutdown, refresh, runs, rewrites, clobbered>>

----------------------------------------------------------------------------
(***************************************************************************)
(* Preparing, alone.                                                       *)
(***************************************************************************)
Load ==
    /\ phase = "off" /\ runs < MaxRuns
    /\ runs' = runs + 1
    /\ memory' = disk.state /\ config' = disk.config
    /\ phase' = "loaded"
    /\ shutdown' = FALSE /\ faulty' = FALSE /\ clobbered' = FALSE
    /\ UNCHANGED <<kind, files, disk, job, writing, disabling, verified, inconclusive,
                   vanished, refresh, rewrites>>

\* Servers of recorded files that are gone: the user did not want what they sent.
GoneServers ==
    {memory.items[i] : i \in {j \in Items : memory.items[j] \in Servers /\ j \notin files}}

UpdateDisabledServers ==
    /\ phase = "loaded"
    /\ vanished' = GoneServers
    /\ config' = [config EXCEPT !.disabled = @ \cup GoneServers]
    /\ IF GoneServers \subseteq config.disabled
       THEN UNCHANGED <<disk, faulty>>
       ELSE WriteDisk([disk EXCEPT !.config = config'])
    /\ phase' = "cleaned"
    /\ UNCHANGED <<kind, files, memory, job, writing, disabling, verified, inconclusive,
                   shutdown, refresh, runs, rewrites, clobbered>>

GoIdle ==
    /\ phase' = "off"
    /\ memory' = FreshState /\ config' = FreshConfig
    /\ job' = [e \in Episodes |-> "none"]
    /\ writing' = [t \in Threads |-> NoWrite]
    /\ disabling' = [t \in Threads |-> {}]
    /\ verified' = {} /\ vanished' = {}
    /\ inconclusive' = FALSE

\* The folder is disabled, or it has no title or number of episodes yet.
SkipFolder ==
    /\ phase \in {"loaded", "cleaned"}
    /\ GoIdle
    /\ UNCHANGED <<kind, files, disk, shutdown, refresh, history>>

\* A preflight is made only without an enabled server; it is inconclusive if in
\* both of its rounds no addon delivers and a rate limit stopped some.
MayBeInconclusive(missing) == missing # {} /\ config.servers \subseteq config.disabled

\* The markers follow the .part files.
PrepareSeason ==
    /\ phase = "cleaned" /\ kind = "season"
    /\ \E parts \in SUBSET Episodes, missing \in SUBSET (Episodes \ files) :
          /\ memory' = [memory EXCEPT !.marked = parts]
          /\ WriteDisk([disk EXCEPT !.state = memory'])
          /\ job' = [e \in Episodes |-> IF e \in missing THEN "queued" ELSE "none"]
          /\ \E b \in BOOLEAN : inconclusive' = (b /\ MayBeInconclusive(missing))
          /\ phase' = IF missing = {} THEN "recording" ELSE "working"
    /\ UNCHANGED <<kind, files, config, writing, disabling, verified, vanished, shutdown,
                   refresh, runs, rewrites, clobbered>>

----------------------------------------------------------------------------
(***************************************************************************)
(* A worker.                                                               *)
(***************************************************************************)
\* add_download: an item that is recorded has not failed and is not under way.
\* A film's entries have keys of their own, which it does not look for.
AddDownload(s, i, server) ==
    IF i = Film
    THEN [s EXCEPT !.items[i] = server]
    ELSE [s EXCEPT !.items[i] = server, !.failed = @ \ {i}, !.marked = @ \ {i}]

\* After an error of the main thread the pool is left to itself.
Begin(e) ==
    /\ job[e] = "queued" /\ phase \notin {"closing", "recording", "saving", "closed"}
    /\ IF e \in files
       THEN /\ memory' = IF memory.items[e] = NoRecord THEN AddDownload(memory, e, NoServer)
                         ELSE memory
            /\ job' = [job EXCEPT ![e] = "deferred"]
       ELSE /\ memory' = memory
            /\ job' = [job EXCEPT ![e] = IF memory.items[e] \in Servers THEN "looking"
                                         ELSE "marking"]
    /\ UNCHANGED <<kind, files, disk, config, phase, writing, disabling, verified,
                   inconclusive, vanished, shutdown, refresh, history>>

\* Slip: the bad servers take the place of the list.
OnlyDisabled(bad) == bad

\* Slip: the list is appended, not its elements.
AppendedDisabled(bad) == bad \cup {config.disabled}

NewDisabled(bad) == bad \cup config.disabled

\* The server of the lost file, under the task's config_lock, which the main
\* thread does not take: it has one of its own.
ReadDisabled(e) ==
    /\ job[e] = "looking"
    /\ \A f \in Episodes : job[f] # "disabling" /\ (job[f] = "disabled" => Free(f))
    /\ disabling' = [disabling EXCEPT ![e] = NewDisabled({memory.items[e]})]
    /\ job' = [job EXCEPT ![e] = "disabling"]
    /\ UNCHANGED <<kind, files, disk, memory, config, phase, writing, verified,
                   inconclusive, vanished, shutdown, refresh, history>>

AssignDisabled(t) ==
    /\ IF disabling[t] = config.disabled
       THEN UNCHANGED <<config, writing>>
       ELSE StartConfig(t, [config EXCEPT !.disabled = disabling[t]])
    /\ disabling' = [disabling EXCEPT ![t] = {}]

DisableServer(e) ==
    /\ job[e] = "disabling"
    /\ AssignDisabled(e)
    /\ job' = [job EXCEPT ![e] = "disabled"]
    /\ UNCHANGED <<kind, files, disk, memory, phase, verified, inconclusive, vanished,
                   shutdown, refresh, history>>

MarkInProgress(e) ==
    /\ job[e] \in {"marking", "disabled"} /\ Free(e)
    /\ StartSave(e, [memory EXCEPT !.marked = @ \cup {e}])
    /\ job' = [job EXCEPT ![e] = "searching"]
    /\ UNCHANGED <<kind, files, disk, config, phase, disabling, verified, inconclusive,
                   vanished, shutdown, refresh, history>>

\* The first bytes: the started marker is saved under the state_lock, which
\* only this step takes.
FirstBytes(e) ==
    /\ job[e] = "searching" /\ Free(e)
    /\ \A f \in Episodes : job[f] = "downloading" => Free(f)
    /\ StartSave(e, memory)
    /\ job' = [job EXCEPT ![e] = "downloading"]
    /\ UNCHANGED <<kind, files, disk, config, phase, disabling, verified, inconclusive,
                   vanished, shutdown, refresh, history>>

EndJob(e, outcome) ==
    /\ job' = [job EXCEPT ![e] = outcome]
    /\ UNCHANGED <<kind, disk, memory, config, phase, writing, disabling, verified,
                   inconclusive, vanished, shutdown, refresh, history>>

Finish(e) ==
    /\ job[e] = "downloading" /\ Free(e)
    /\ files' = files \cup {e}
    /\ EndJob(e, "success")

\* For good, for now, or because of the shutdown.
GiveUp(e) ==
    /\ job[e] \in {"searching", "downloading"} /\ Free(e)
    /\ \E outcome \in {"failed", "deferred"} \cup (IF shutdown THEN {"cancelled"} ELSE {}) :
          EndJob(e, outcome)
    /\ UNCHANGED files

----------------------------------------------------------------------------
(***************************************************************************)
(* The main thread of a season.                                            *)
(***************************************************************************)
\* The pool's loop looks at the flag before each result, the drain before each
\* episode: a result may be applied after the flag was set.
Collecting == phase = "working" /\ Free("main")

ApplySuccess(e) ==
    /\ Collecting /\ job[e] = "success"
    /\ \E server \in Servers :
          /\ StartSave("main", AddDownload(memory, e, server))
          /\ verified' = verified \cup {server}
    /\ job' = [job EXCEPT ![e] = "none"]
    /\ phase' = "verifying"
    /\ UNCHANGED <<kind, files, disk, config, disabling, inconclusive, vanished, shutdown,
                   refresh, history>>

\* The servers that worked replace the list; the cursor, which moves on, is
\* saved with it.
SaveVerified ==
    /\ phase = "verifying" /\ Free("main")
    /\ StartConfig("main", [config EXCEPT !.servers = verified])
    /\ phase' = "working"
    /\ UNCHANGED <<kind, files, disk, memory, job, disabling, verified, inconclusive,
                   vanished, shutdown, refresh, history>>

\* mark_failed, or after an inconclusive preflight and a search that found no
\* streams, mark_preflight_indeterminate: the episode keeps its marker.  Neither
\* is saved now.
NoteFailure(s, e) ==
    {[s EXCEPT !.failed = @ \cup {e}, !.marked = @ \ {e}]}
    \cup (IF inconclusive THEN {s} ELSE {})

ApplyFailure(e) ==
    /\ Collecting /\ job[e] = "failed"
    /\ \/ /\ memory' \in NoteFailure(memory, e)
          /\ job' = [job EXCEPT ![e] = "none"]
          /\ UNCHANGED <<phase, disabling>>
       \/ /\ \E blamed \in SUBSET Servers \ {{}} :
                disabling' = [disabling EXCEPT !["main"] = NewDisabled(blamed)]
          /\ job' = [job EXCEPT ![e] = "applied"]
          /\ phase' = "blaming"
          /\ UNCHANGED memory
    /\ UNCHANGED <<kind, files, disk, config, writing, verified, inconclusive, vanished,
                   shutdown, refresh, history>>

\* Under the run's config_lock.
BlameServers ==
    /\ phase = "blaming"
    /\ AssignDisabled("main")
    /\ phase' = "noting"
    /\ UNCHANGED <<kind, files, disk, memory, job, verified, inconclusive, vanished,
                   shutdown, refresh, history>>

NoteBlamed(e) ==
    /\ phase = "noting" /\ Free("main") /\ job[e] = "applied"
    /\ memory' \in NoteFailure(memory, e)
    /\ job' = [job EXCEPT ![e] = "none"]
    /\ phase' = "working"
    /\ UNCHANGED <<kind, files, disk, config, writing, disabling, verified, inconclusive,
                   vanished, shutdown, refresh, history>>

Leftovers == {e \in Episodes : job[e] = "deferred"}
Collected == \A e \in Episodes : job[e] \in {"none", "deferred"}

NextRound ==
    /\ Collecting /\ ~shutdown
    /\ Collected /\ Leftovers # {}
    /\ job' = [e \in Episodes |-> IF e \in Leftovers THEN "queued" ELSE "none"]
    /\ UNCHANGED <<kind, files, disk, memory, config, phase, writing, disabling, verified,
                   inconclusive, vanished, shutdown, refresh, history>>

\* A worker's exception, or Ctrl+C, ends the folder's run: the pool is not
\* waited for, and nothing is closed.
Abandon ==
    /\ phase' = "abandoned"
    /\ writing' = [writing EXCEPT !["main"] = NoWrite]
    /\ UNCHANGED <<kind, files, disk, memory, config, job, disabling, verified,
                   inconclusive, vanished, shutdown, refresh, history>>

Raise(e) == Collecting /\ job[e] \in {"raised", "cancelled"} /\ Abandon

KeyboardInterrupt ==
    /\ phase \in {"working", "verifying", "blaming", "noting", "closing", "recording", "saving"}
    /\ Abandon

\* Slip: Ctrl+C does not wait for the workers.
StoppedAtOnce == shutdown

\* Ctrl+C: what was not begun is dropped, what runs is waited for, and results
\* are not looked at.
Stopped == shutdown /\ \A e \in Episodes : ~Running(e)

\* What was put back in all rounds fails, unless the user interrupted.
StopRounds ==
    /\ Collecting
    /\ Stopped \/ Collected
    /\ memory' = IF shutdown \/ inconclusive THEN memory
                 ELSE [memory EXCEPT !.failed = @ \cup Leftovers, !.marked = @ \ Leftovers]
    /\ job' = [e \in Episodes |-> IF Running(e) THEN job[e] ELSE "none"]
    /\ phase' = "closing"
    /\ UNCHANGED <<kind, files, disk, config, writing, disabling, verified, inconclusive,
                   vanished, shutdown, refresh, history>>

\* The cache of servers is cleared if none completed a download.
CloseServers ==
    /\ phase = "closing" /\ Free("main")
    /\ IF config.servers = verified
       THEN UNCHANGED <<config, writing>>
       ELSE StartConfig("main", [config EXCEPT !.servers = verified])
    /\ phase' = "recording"
    /\ UNCHANGED <<kind, files, disk, memory, job, disabling, verified, inconclusive,
                   vanished, shutdown, refresh, history>>

\* Videos of the folder that no worker reported.
RecordExisting(s) ==
    LET new == {e \in Episodes : e \in files /\ s.items[e] = NoRecord}
    IN  [s EXCEPT !.items = [i \in Items |-> IF i \in new THEN NoServer ELSE s.items[i]],
                  !.failed = @ \ new, !.marked = @ \ new]

CloseState ==
    /\ phase = "recording" /\ Free("main")
    /\ StartSave("main", RecordExisting(memory))
    /\ phase' = "saving"
    /\ UNCHANGED <<kind, files, disk, config, job, disabling, verified, inconclusive,
                   vanished, shutdown, refresh, history>>

Close ==
    /\ phase = "saving" /\ Free("main")
    /\ phase' = "closed"
    /\ UNCHANGED <<kind, files, disk, memory, config, job, writing, disabling, verified,
                   inconclusive, vanished, shutdown, refresh, history>>

----------------------------------------------------------------------------
(***************************************************************************)
(* A film: one thread, the same files.                                     *)
(***************************************************************************)
FilmPresent ==
    /\ phase = "cleaned" /\ kind = "film" /\ Film \in files
    /\ memory' = IF memory.items[Film] = NoRecord THEN AddDownload(memory, Film, NoServer)
                 ELSE memory
    /\ WriteDisk([disk EXCEPT !.state = memory'])
    /\ phase' = "closed"
    /\ UNCHANGED <<kind, files, config, job, writing, disabling, verified, inconclusive,
                   vanished, shutdown, refresh, runs, rewrites, clobbered>>

\* The marker is saved before the search, and again at the first bytes.
FilmBegin ==
    /\ phase = "cleaned" /\ kind = "film" /\ Film \notin files
    /\ ~shutdown
    /\ memory' = [memory EXCEPT !.marked = @ \cup {Film}]
    /\ WriteDisk([disk EXCEPT !.state = memory'])
    /\ phase' = "filming"
    /\ UNCHANGED <<kind, files, config, job, writing, disabling, verified, inconclusive,
                   vanished, shutdown, refresh, runs, rewrites, clobbered>>

FilmDownloaded ==
    /\ phase = "filming"
    /\ files' = files \cup {Film}
    /\ \E server \in Servers :
          /\ verified' = {server}
          /\ config' = [config EXCEPT !.servers = {server}]
    /\ IF config' = config THEN UNCHANGED <<disk, faulty>>
       ELSE WriteDisk([disk EXCEPT !.config = config'])
    /\ phase' = "filmed"
    /\ UNCHANGED <<kind, memory, job, writing, disabling, inconclusive, vanished, shutdown,
                   refresh, runs, rewrites, clobbered>>

FilmRecorded ==
    /\ phase = "filmed"
    /\ \E server \in verified : memory' = AddDownload(memory, Film, server)
    /\ WriteDisk([disk EXCEPT !.state = memory'])
    /\ phase' = "closed"
    /\ UNCHANGED <<kind, files, config, job, writing, disabling, verified, inconclusive,
                   vanished, shutdown, refresh, runs, rewrites, clobbered>>

\* Nothing is noted.
FilmFailed ==
    /\ phase = "filming"
    /\ phase' = "closed"
    /\ UNCHANGED <<kind, files, disk, memory, config, job, writing, disabling, verified,
                   inconclusive, vanished, shutdown, refresh, history>>

----------------------------------------------------------------------------
(***************************************************************************)
(* The end of a run, and what others do.                                   *)
(***************************************************************************)
\* The process ends, in good order or not: a file half written is a temporary
\* one.  An interrupted download of a film ends like this too.
EndOfProcess ==
    /\ phase # "off"
    /\ GoIdle
    /\ UNCHANGED <<kind, files, disk, shutdown, refresh, history>>

RequestShutdown ==
    /\ phase # "off" /\ ~shutdown
    /\ shutdown' = TRUE
    /\ UNCHANGED <<kind, files, disk, ours, refresh, history>>

UserDeletesVideo(i) ==
    /\ i \in files
    /\ files' = files \ {i}
    /\ UNCHANGED <<kind, disk, ours, shutdown, refresh, history>>

\* Or damages a file, which is then taken for a missing one.
UserDeletesFile ==
    /\ phase = "off"
    /\ \/ disk' = [disk EXCEPT !.state = FreshState]
       \/ disk' = [disk EXCEPT !.config = FreshConfig]
    /\ UNCHANGED <<kind, files, ours, shutdown, refresh, history>>

\* The metadata service of another process reads the config, asks Cinemeta,
\* and writes all of it back.  Bound: it has read before the run saves, as one
\* that reads later knows what the run found.
MetadataReads ==
    /\ phase \in {"off", "loaded"}
    /\ refresh = {} /\ rewrites < MaxRewrites
    /\ rewrites' = rewrites + 1
    /\ refresh' = {disk.config}
    /\ UNCHANGED <<kind, files, disk, ours, shutdown, runs, faulty, clobbered>>

MetadataWrites ==
    /\ refresh # {}
    /\ \E read \in refresh : disk' = [disk EXCEPT !.config = read]
    /\ refresh' = {}
    /\ clobbered' = TRUE
    /\ UNCHANGED <<kind, files, ours, shutdown, runs, rewrites, faulty>>

Worker(e) ==
    \/ Begin(e) \/ ReadDisabled(e) \/ DisableServer(e)
    \/ MarkInProgress(e) \/ FirstBytes(e) \/ Finish(e) \/ GiveUp(e)

Main ==
    \/ Load \/ UpdateDisabledServers \/ SkipFolder \/ PrepareSeason
    \/ \E e \in Episodes : ApplySuccess(e) \/ ApplyFailure(e) \/ NoteBlamed(e) \/ Raise(e)
    \/ SaveVerified \/ BlameServers \/ NextRound \/ StopRounds \/ KeyboardInterrupt
    \/ CloseServers \/ CloseState \/ Close
    \/ FilmPresent \/ FilmBegin \/ FilmDownloaded \/ FilmRecorded \/ FilmFailed

Environment ==
    \/ EndOfProcess \/ RequestShutdown \/ UserDeletesFile
    \/ \E i \in Items : UserDeletesVideo(i)
    \/ MetadataReads \/ MetadataWrites

Next ==
    \/ Main
    \/ \E e \in Episodes : Worker(e)
    \/ \E t \in Threads : Dump(t) \/ DumpRaises(t) \/ Replace(t)
    \/ Environment

Spec == Init /\ [][Next]_vars

----------------------------------------------------------------------------
(***************************************************************************)
(* Properties.                                                             *)
(***************************************************************************)
\* Threads save the same file from snapshots taken at different times, and the
\* older may be written last.  Yet while a worker downloads its marker is on
\* disk, and after a run that closed, interrupted or not, the file is what the
\* run knew: neither holds of the records in between, nor of the config.  Only
\* an error of the file system excuses it.
FileKeepsUp ==
    ~faulty =>
        /\ \A e \in Episodes : job[e] = "downloading" => e \in disk.state.marked
        /\ phase = "closed" => disk.state = memory

\* A server whose video the user deleted is disabled from the preparation of the
\* next run to its end, whatever workers and the main thread, each under its own
\* config_lock, do to the list; and in the file as well, unless a metadata run
\* wrote what it had read before or the file system failed.
VanishedDisabled ==
    phase \notin {"off", "loaded"} =>
        /\ vanished \subseteq config.disabled
        /\ clobbered \/ faulty \/ vanished \subseteq disk.config.disabled

=============================================================================
