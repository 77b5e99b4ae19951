--------------------------- MODULE MCEpisodeQueue ---------------------------
(***************************************************************************)
(* Model checking of EpisodeQueue from every folder of a short season.     *)
(* The properties compare episodes in pairs, so two episodes already show  *)
(* every combination of files, records, counters and markers that can      *)
(* interact.                                                               *)
(***************************************************************************)
EXTENDS EpisodeQueue

CONSTANT Limits     \* the values of LIMIT_EPISODES tried

\* A counter only matters as below or at the budget; the markers of an earlier
\* run are overwritten by ResumeFirst, so one arbitrary value stands for all;
\* without a list the available episodes are not read.
MCLibraries ==
    {l \in [file : [Episodes -> {"none", "tiny", "full", "other"}],
            part : SUBSET Episodes,
            recorded : SUBSET Episodes,
            fails : [Episodes -> {0, MaxAttempts}],
            inProgress : {{1}},
            started : SUBSET Episodes,
            expired : SUBSET Episodes,
            listed : BOOLEAN,
            available : SUBSET Episodes,
            cursor : 1 .. (LastEpisode + 1)] :
        /\ l.expired \subseteq l.started
        /\ l.listed \/ l.available = {}}

MCInit ==
    /\ lib \in MCLibraries
    /\ settings \in [retryFailed : BOOLEAN, limit : Limits]
    /\ phase = "loaded"
    /\ missing = {}
    /\ before = {}

MCSpec == MCInit /\ [][Next]_vars
============================================================================
