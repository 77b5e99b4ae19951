------------------------------ MODULE VideoFile ------------------------------
(***************************************************************************)
(* What a worker promises about the two files of its episode (or film),    *)
(* however it downloads: the final file comes into being whole, by a       *)
(* rename; what turns out to be no video is removed before the next stream *)
(* is tried; a search that ends leaves no file that has not passed; and    *)
(* the .part is given up only for a playlist or when it becomes the final  *)
(* file.                                                                   *)
(*                                                                         *)
(* Three mishaps excuse a file that has not passed, each for the job it    *)
(* hits and only at the moment it strikes: the process dies, Ctrl+C takes  *)
(* the main thread out of a download of its own, or the file system fails  *)
(* while the file is validated.                                            *)
(*                                                                         *)
(* SeasonRun's workers keep this promise, so the folder may rely on it;    *)
(* PartFile, which downloads bytes, keeps it too.                          *)
(***************************************************************************)
VARIABLES
    file,       \* the final file: none, too short for a video, a video
    part,       \* whether a .part holds bytes
    stage,      \* how far the worker is
    mishaps     \* what has befallen the folder

video == <<file, part, stage, mishaps>>

Files == {"none", "short", "video"}
Stages == {"off", "searching", "renamed", "done"}
Mishaps == {"error", "abort", "death"}

\* Whatever earlier runs and the user have left.
Init == file \in Files /\ part \in BOOLEAN /\ stage = "off" /\ mishaps = {}

----------------------------------------------------------------------------
\* A short file is removed, and the addons are asked for streams ...
Begin ==
    /\ stage = "off" /\ file # "video"
    /\ file' = "none" /\ stage' = "searching"
    /\ UNCHANGED part

\* ... or there are none.
FindNothing ==
    /\ stage = "off" /\ file # "video"
    /\ file' = "none"
    /\ UNCHANGED <<part, stage>>

Receive ==
    /\ stage = "searching"
    /\ part' = TRUE
    /\ UNCHANGED <<file, stage>>

\* A playlist starts from scratch, and what it leaves may be of no use.
Discard ==
    /\ stage = "searching"
    /\ part' = FALSE
    /\ UNCHANGED <<file, stage>>

\* An answer that is no video: what another process has put there goes, too.
Clear ==
    /\ stage = "searching"
    /\ file' = "none"
    /\ UNCHANGED <<part, stage>>

\* A file of no bytes counts as none.
Rename ==
    /\ stage = "searching"
    /\ file' \in Files /\ part' = FALSE
    /\ stage' = "renamed"

Accept ==
    /\ stage = "renamed" /\ file = "video"
    /\ stage' = "done"
    /\ UNCHANGED <<file, part>>

Invalidate ==
    /\ stage = "renamed"
    /\ file' = "none" /\ stage' = "searching"
    /\ UNCHANGED part

\* A playlist is validated before it is renamed.
Deliver ==
    /\ stage = "searching"
    /\ file' = "video" /\ part' = FALSE
    /\ stage' = "done"

\* No stream is left, Ctrl+C, or an error.
GiveUp ==
    /\ stage = "searching"
    /\ stage' = "off"
    /\ UNCHANGED <<file, part>>

Worker ==
    \/ Begin \/ FindNothing \/ Receive \/ Discard \/ Clear
    \/ Rename \/ Accept \/ Invalidate \/ Deliver \/ GiveUp

----------------------------------------------------------------------------
\* The result has been collected.
Collect ==
    /\ stage = "done" /\ stage' = "off"
    /\ UNCHANGED <<file, part>>

Strikes(what) == what \in mishaps' \ mishaps

\* The process dies, and with it bytes that were not flushed.
Crash ==
    /\ Strikes("death")
    /\ stage \in {"searching", "renamed"} /\ stage' = "off"
    /\ part' \in {part, FALSE}
    /\ UNCHANGED file

\* Ctrl+C hits the main thread in the download.
Drop ==
    /\ Strikes("abort")
    /\ stage \in {"searching", "renamed"} /\ stage' = "off"
    /\ UNCHANGED <<file, part>>

\* The file cannot be looked at: the next stream is tried, the file stays.
Escape ==
    /\ Strikes("error")
    /\ stage = "renamed" /\ stage' = "searching"
    /\ UNCHANGED <<file, part>>

\* A mishap hits something else, or is over.
Elsewhere == UNCHANGED <<file, part, stage>>

\* The next scan takes a short file for the beginning of a download.
Convert ==
    /\ stage = "off" /\ file = "short" /\ ~part
    /\ file' = "none" /\ part' = TRUE
    /\ UNCHANGED stage

Delete ==
    /\ stage \in {"off", "done"}
    /\ file' = "none" /\ stage' = "off"
    /\ UNCHANGED part

\* Another process delivers the same episode.
Arrive ==
    /\ stage \in {"off", "searching"} /\ file = "none"
    /\ file' = "video"
    /\ UNCHANGED <<part, stage>>

Environment ==
    \/ Collect \/ Crash \/ Drop \/ Escape \/ Elsewhere
    \/ Convert \/ Delete \/ Arrive

\* An error is not over while a worker sits on the short file it has left.
Lasts ==
    /\ mishaps' \subseteq Mishaps
    /\ "error" \in mishaps \ mishaps' => ~(stage' = "searching" /\ file' = "short")

Next == (Worker \/ Environment) /\ Lasts

Spec == Init /\ [][Next]_video

----------------------------------------------------------------------------
\* A worker that reports success has a video, one that is at a stream sits on no
\* short file but for an error, and the .part has become the file that is validated.
Promised ==
    /\ file \in Files /\ part \in BOOLEAN /\ stage \in Stages /\ mishaps \subseteq Mishaps
    /\ stage = "done" => file = "video"
    /\ stage = "searching" /\ "error" \notin mishaps => file # "short"
    /\ stage = "renamed" => ~part
============================================================================
