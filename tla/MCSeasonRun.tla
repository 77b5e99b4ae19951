----------------------------- MODULE MCSeasonRun -----------------------------
(***************************************************************************)
(* Model checking of SeasonRun.  Two episodes are the fewest that start a  *)
(* pool; one round per phase already gives parallel, deferred, drained and *)
(* exhausted episodes; the second run starts from whatever the first left  *)
(* behind.  The first run finds a folder that is empty but for the files   *)
(* named by OldFiles.                                                      *)
(***************************************************************************)
EXTENDS SeasonRun

CONSTANT OldFiles       \* the episodes with a file or a .part at the start

MCInit ==
    /\ Init
    /\ \A e \in Episodes \ OldFiles : lib.file[e] = "none" /\ e \notin lib.part

MCSpec == MCInit /\ [][Next]_vars

LastRun == runs = MaxRuns

\* What the last run still does with the folder: its cursor and .part files are for
\* the next one, and nobody reads which markers have expired.
LibView ==
    [lib EXCEPT !.cursor = IF LastRun THEN 1 ELSE @, !.part = IF LastRun THEN {} ELSE @,
                !.expired = {}]

\* And with the state file: while it is on, nobody reads the records and started
\* markers that are in the file, and its closing save replaces them.
SavedView ==
    IF LastRun /\ phase # "off"
    THEN [saved EXCEPT !.recorded = {}, !.started = {}] ELSE saved

\* The limit is read by the pool's jobs only, the records that a save has copied go
\* nowhere but to the file, the count of attempts is read by nobody.
MCView ==
    <<LibView, SavedView,
      IF LastRun THEN NoCopies ELSE copied,
      IF phase \in {"parallel", "aborted"} THEN limit ELSE 1,
      faulty, phase, tasks, job, report, indeterminate, shutdown, interrupted, runs, ended>>

MCFairSpec == MCSpec /\ Fairness
============================================================================
