---------------------------- MODULE EpisodeScan ----------------------------
(***************************************************************************)
(* What one season folder looks like to the download pipeline, and the     *)
(* pure decisions components/download/processing.py takes about it: which  *)
(* episodes are missing, which of them have used up their retry budget,    *)
(* what the scan does to the folder, and in which order the missing        *)
(* episodes are tried.  EpisodeQueue and SeasonRun are built from these    *)
(* operators.                                                              *)
(*                                                                         *)
(* A folder is a record `lib':                                             *)
(*   file        for every episode, the video found in the folder: none,   *)
(*               one shorter than MIN_COMPLETED_VIDEO_SIZE_MB ("tiny"), a  *)
(*               complete one under the generated name ("full"), or one    *)
(*               under another name of the same episode ("other")          *)
(*   part        the episodes with a .part file                            *)
(*   recorded    the episodes in the state file's `items'                  *)
(*   fails       the state file's failure counters (`failed_items')        *)
(*   inProgress, started                                                   *)
(*               the state file's markers of those names                   *)
(*   expired     the started markers older than their TTL                  *)
(*   listed, available                                                     *)
(*               whether the config lists the aired episodes, and which    *)
(*   cursor      the config's current_episode_download                     *)
(***************************************************************************)
EXTENDS Integers, FiniteSets

CONSTANTS
    LastEpisode,    \* config.episode_count
    MaxAttempts     \* settings.MAX_DOWNLOAD_ATTEMPTS; 0 disables the budget

ASSUME LastEpisodeAssumption == LastEpisode \in Nat \ {0}
ASSUME MaxAttemptsAssumption == MaxAttempts \in Nat

Episodes == 1 .. LastEpisode

Libraries ==
    [file : [Episodes -> {"none", "tiny", "full", "other"}],
     part : SUBSET Episodes,
     recorded : SUBSET Episodes,
     fails : [Episodes -> Nat],
     inProgress : SUBSET Episodes,
     started : SUBSET Episodes,
     expired : SUBSET Episodes,
     listed : BOOLEAN,
     available : SUBSET Episodes,
     cursor : 1 .. (LastEpisode + 1)]

\* The final file of the episode under its generated name, of any size.
Final(lib) == {e \in Episodes : lib.file[e] \in {"tiny", "full"}}

\* detect_existing_season_episodes: any video file numbered e.
OnDisk(lib) == {e \in Episodes : lib.file[e] # "none"}

\* A cursor past the season restarts the scan at the first episode.
StartEpisode(lib) == IF lib.cursor > LastEpisode THEN 1 ELSE lib.cursor

Exhausted(lib, retryFailed) ==
    {e \in Episodes : /\ ~retryFailed
                      /\ MaxAttempts > 0
                      /\ lib.fails[e] >= MaxAttempts}

\* In the state file, but the generated file is gone: downloaded again.
Vanished(lib) == lib.recorded \ Final(lib)

\* Neither recorded nor present under any name.
Unseen(lib) == Episodes \ (lib.recorded \cup OnDisk(lib))

\* Slip: the budget is not looked at before the cursor.
MissingHistoryUnbudgeted(lib, retryFailed) ==
    {e \in Vanished(lib) \cup Unseen(lib) : e < StartEpisode(lib)}

\* The stale-history scan of the episodes before the cursor.
MissingHistory(lib, retryFailed) ==
    {e \in Vanished(lib) \cup (Unseen(lib) \ Exhausted(lib, retryFailed)) :
        e < StartEpisode(lib)}

\* Slip: the scan starts after the cursor.
CandidatesAfterCursor(lib) ==
    {e \in (IF lib.listed THEN lib.available ELSE Episodes) :
        e > StartEpisode(lib)}

\* The episodes from the cursor on that the metadata lists.
Candidates(lib) ==
    {e \in (IF lib.listed THEN lib.available ELSE Episodes) :
        e >= StartEpisode(lib)}

\* A short final file nobody recorded: an interrupted legacy download.
TinyUntracked(lib) == {e \in Episodes \ lib.recorded : lib.file[e] = "tiny"}

MissingAhead(lib, retryFailed) ==
    Candidates(lib) \cap
        (Vanished(lib) \cup TinyUntracked(lib) \cup
            (Unseen(lib) \cap
                (lib.part \cup (Episodes \ Exhausted(lib, retryFailed)))))

\* missing[:LIMIT_EPISODES], for a queue in ascending order.
FirstOf(S, limit) ==
    IF limit = 0 THEN S
    ELSE {e \in S : Cardinality({f \in S : f <= e}) <= limit}

Missing(lib, retryFailed, limit) ==
    FirstOf(MissingHistory(lib, retryFailed) \cup MissingAhead(lib, retryFailed),
            limit)

\* _auto_reset_stale_failed_items: the counters whose time stamp is old enough
\* are dropped, for episodes the metadata still lists.
AutoReset(lib, aged) ==
    [lib EXCEPT !.fails = [e \in Episodes |->
        IF e \in aged /\ (lib.listed => e \in lib.available)
        THEN 0 ELSE lib.fails[e]]]

\* Slip: the tiny file is unlinked, not moved.
ConvertTinyByUnlinking(lib) ==
    [lib EXCEPT !.file = [e \in Episodes |->
        IF e \in Candidates(lib) \cap TinyUntracked(lib) THEN "none" ELSE lib.file[e]]]

\* The scan moves an untracked tiny file to .part unless there is one already.
ConvertTiny(lib) ==
    LET moved == (Candidates(lib) \cap TinyUntracked(lib)) \ lib.part
    IN [lib EXCEPT !.file = [e \in Episodes |->
                                IF e \in moved THEN "none" ELSE lib.file[e]],
                   !.part = @ \cup moved]

\* The in_progress markers become the .part files that are on disk.
SyncInProgress(lib) == [lib EXCEPT !.inProgress = lib.part]

\* prune_stale_started.  Its on-disk test looks for episode_N.mkv, a name the
\* downloader never writes, so it removes no marker here.
PruneStarted(lib) ==
    LET gone == IF lib.listed /\ lib.available # {}
                THEN Episodes \ lib.available ELSE {}
    IN [lib EXCEPT !.started = @ \ (lib.expired \cup gone),
                   !.expired = {}]

\* _clear_failed/_clear_in_progress/_clear_started_for_filename.
ClearMarkers(lib, done) ==
    [lib EXCEPT !.fails = [e \in Episodes |-> IF e \in done THEN 0 ELSE lib.fails[e]],
                !.inProgress = @ \ done,
                !.started = @ \ done,
                !.expired = @ \ done]

\* add_download, for the generated names of the episodes in `done'.
AddDownload(lib, done) == [ClearMarkers(lib, done) EXCEPT !.recorded = @ \cup done]

\* mark_failed: one more failure, and the episode is not in progress any more.
MarkFailed(lib, failed) ==
    [lib EXCEPT !.fails = [e \in Episodes |->
                    IF e \in failed THEN lib.fails[e] + 1 ELSE lib.fails[e]],
                !.inProgress = @ \ failed]

\* Slip: only the files the state file knows count as present.
AlreadyRecorded(lib, missing) == missing \cap Final(lib) \cap lib.recorded

\* _drop_existing_episodes_from_task: queued episodes whose file is there.
AlreadyThere(lib, missing) == missing \cap Final(lib)

\* The closing scan records every video in the folder, whatever its size.  A
\* file under another name is recorded under that name, which no operator looks
\* up; recording it for the first time (`renamed') clears the episode's markers.
RecordExisting(lib, renamed) ==
    ClearMarkers(AddDownload(lib, Final(lib) \ lib.recorded),
                 {e \in renamed : lib.file[e] = "other"})

----------------------------------------------------------------------------
(***************************************************************************)
(* The order of the queue.  A queue without repetitions is the set of its  *)
(* members and the strict order `before' on them.                          *)
(***************************************************************************)
Ascending(S) == {p \in S \X S : p[1] < p[2]}

\* Slip: the members in `first' are put ahead of each other too.
HoistUnstable(S, before, first) ==
    {p \in S \X S :
        \/ p[1] \in first
        \/ (p[1] \in first <=> p[2] \in first) /\ p \in before}

\* A stable partition: the members in `first' ahead of the others.
Hoist(S, before, first) ==
    {p \in S \X S :
        \/ p[1] \in first /\ p[2] \notin first
        \/ (p[1] \in first <=> p[2] \in first) /\ p \in before}

\* R orders S strictly and totally.
IsTotalOrder(S, R) ==
    /\ R \subseteq S \X S
    /\ \A e \in S : <<e, e>> \notin R
    /\ \A e, f \in S : e # f => (<<e, f>> \in R \/ <<f, e>> \in R)
    /\ \A e, f, g \in S : <<e, f>> \in R /\ <<f, g>> \in R => <<e, g>> \in R

First(S, before) == CHOOSE e \in S : \A f \in S \ {e} : <<e, f>> \in before

\* setup_season_folder: .part files first ...
AfterResume(S, lib) == Hoist(S, Ascending(S), lib.part)

\* Slip: the partition starts again from the scan's order.
AfterPriorityFromScan(S, lib, before) ==
    Hoist(S, Ascending(S), lib.started \ lib.part)

\* ... then every started episode without a .part ahead of all the others.
AfterPriority(S, lib, before) == Hoist(S, before, lib.started \ lib.part)
============================================================================
