---------------------------- MODULE EpisodeQueue ----------------------------
(***************************************************************************)
(* Preparing one season folder: setup_season_folder and the scheduler's    *)
(* _drop_existing_episodes_from_task (components/download/processing.py).  *)
(* The state file and the folder may be in any combination the user, a     *)
(* crash or another process leaves behind; preparation turns them into the *)
(* queue of episodes to try.                                               *)
(*                                                                         *)
(* Between two steps nothing else touches the folder (preparation is a     *)
(* single thread), so each step is one action.  The preflight search that  *)
(* ends setup_season_folder changes none of this state.                    *)
(***************************************************************************)
EXTENDS EpisodeScan

VARIABLES
    lib,        \* the folder and its state file, as in EpisodeScan
    settings,   \* [retryFailed, limit]: --retry-failed and LIMIT_EPISODES
    phase,      \* "loaded", "scanned", "synced", "ordered", "scheduled"
    missing,    \* the episodes in the queue
    before      \* and their order

vars == <<lib, settings, phase, missing, before>>

Phases == {"loaded", "scanned", "synced", "ordered", "scheduled"}

TypeOK ==
    /\ lib \in Libraries
    /\ settings \in [retryFailed : BOOLEAN, limit : Nat]
    /\ phase \in Phases
    /\ missing \in SUBSET Episodes
    /\ before \in SUBSET (Episodes \X Episodes)

Init ==
    /\ lib \in Libraries
    /\ lib.expired \subseteq lib.started
    /\ settings \in [retryFailed : BOOLEAN, limit : Nat]
    /\ phase = "loaded"
    /\ missing = {}
    /\ before = {}

----------------------------------------------------------------------------
\* _missing_episodes: counters in `aged' are old enough to be dropped, unless
\* --retry-failed ignores them all anyway.
Scan ==
    /\ phase = "loaded"
    /\ \E aged \in SUBSET {e \in Episodes : lib.fails[e] > 0} :
          LET seen == IF settings.retryFailed THEN lib ELSE AutoReset(lib, aged)
              found == Missing(seen, settings.retryFailed, settings.limit)
          IN /\ lib' = ConvertTiny(seen)
             /\ missing' = found
             /\ before' = Ascending(found)
    /\ phase' = "scanned"
    /\ UNCHANGED settings

\* _sync_in_progress_with_disk, and the .part files ahead of the others.
ResumeFirst ==
    /\ phase = "scanned"
    /\ lib' = SyncInProgress(lib)
    /\ before' = Hoist(missing, before, lib.part)
    /\ phase' = "synced"
    /\ UNCHANGED <<settings, missing>>

\* prune_stale_started, the started episodes hoisted, the cursor set.
PriorityFirst ==
    /\ phase = "synced"
    /\ LET pruned == PruneStarted(lib)
       IN /\ before' = AfterPriority(missing, pruned, before)
          /\ lib' = [pruned EXCEPT !.cursor =
                        IF missing # {} THEN First(missing, before')
                        ELSE IF ~lib.listed /\ @ <= LastEpisode THEN LastEpisode + 1
                        ELSE @]
    /\ phase' = "ordered"
    /\ UNCHANGED <<settings, missing>>

\* _drop_existing_episodes_from_task; with nothing left the folder is closed.
DropExisting ==
    /\ phase = "ordered"
    /\ LET there == AlreadyThere(lib, missing)
           kept == AddDownload(lib, there \ lib.recorded)
           left == missing \ there
       IN /\ missing' = left
          /\ before' = before \cap (left \X left)
          /\ IF left # {}
             THEN lib' = kept
             ELSE \E renamed \in SUBSET Episodes : lib' = RecordExisting(kept, renamed)
    /\ phase' = "scheduled"
    /\ UNCHANGED settings

Next == Scan \/ ResumeFirst \/ PriorityFirst \/ DropExisting

Spec == Init /\ [][Next]_vars

----------------------------------------------------------------------------
\* The two hoists only reorder: whatever the markers and .part files are, the
\* queue stays one strict total order of exactly the missing episodes, so no
\* episode is tried twice or dropped by the partitions of setup_season_folder.
QueueIsTotalOrder == IsTotalOrder(missing, before)

\* No episode of the season is invisible: with no video and no record, it is in
\* the queue unless its budget is used up, LIMIT_EPISODES cut it, or the
\* metadata does not list it (the scan of _missing_episodes, the tiny-file
\* conversion and the drop of existing files taken together).
WantedEpisodesQueued ==
    phase = "scheduled" /\ settings.limit = 0 =>
        \A e \in Unseen(lib) :
            \/ e \in missing
            \/ e \in Exhausted(lib, settings.retryFailed)
            \/ lib.listed /\ e \notin lib.available

\* An episode whose generated file is in the folder never reaches a worker,
\* however stale the state file, the cursor or the markers are.
PresentEpisodesNotQueued == phase = "scheduled" => missing \cap Final(lib) = {}

\* A never-started episode is tried after every .part and every started one:
\* the last tier of docs/download-priority.md's three.
FreshEpisodesLast ==
    phase \in {"ordered", "scheduled"} =>
        \A e, f \in missing :
            /\ e \notin lib.part \cup lib.started
            /\ f \in lib.part \cup lib.started
            => <<f, e>> \in before

\* An episode that used up its budget is queued only for bytes already on disk
\* or for a recorded file that disappeared (_missing_episodes tests both first).
ExhaustedOnlyWithHistory ==
    phase # "loaded" =>
        missing \cap Exhausted(lib, settings.retryFailed)
            \subseteq lib.part \cup lib.recorded \cup Final(lib)

\* Preparation never throws bytes away: an episode with a video or a .part
\* still has one after every step (the tiny file becomes the .part).
BytesKept ==
    [][\A e \in Episodes :
        (lib.file[e] # "none" \/ e \in lib.part)
            => (lib'.file[e] # "none" \/ e \in lib'.part)]_vars

----------------------------------------------------------------------------
\* docs/download-priority.md, Rule 4: "Resume > Priority > Fresh."
ResumeBeforePriority ==
    phase = "ordered" =>
        \A e, f \in missing :
            e \in lib.part /\ f \in lib.started \ lib.part => <<e, f>> \in before

\* docs/download-priority.md, Rule 5: "If the episode has already exhausted its
\* budget, it stays out of the missing list regardless of priority."
ExhaustedStaysOut ==
    phase # "loaded" => missing \cap Exhausted(lib, settings.retryFailed) = {}
============================================================================
