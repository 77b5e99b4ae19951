# A verification of py-stremio

py-stremio fills a media library: it scans the library's folders, asks Stremio
addons for streams of the missing episodes and films, and downloads them, in
several threads, under a terminal UI or from cron. This directory holds TLA+
models of the parts where its threads, its files and its restarts meet, the TLC
runs that check them on small instances, and theorems with proofs that TLAPS
checks for every value of the constants.

Paths below are relative to `src/`; `processing.py`, without a directory, is
`py_stremio/components/download/processing.py`.

## The system

| Component | State it keeps | Operations | Meets | What makes it correct |
|---|---|---|---|---|
| Season scan and queue (`processing.py`) | the missing episodes and their order | scan, budget reset, tiny-file conversion, resume and priority hoists, drop of existing files | state file, folder, config | no episode missed, queued twice, or queued though present; bytes on disk are kept |
| Season run (`process_season_folder`) | deque, futures, results, counters | parallel rounds, drain, result handling, leftovers, closing scan | worker threads, limit, Ctrl+C, state file | every episode accounted for once; what is reported is in the folder, and in the file of a closed run; every run ends |
| Episode worker (`_do_download_one_episode`) | its part of the shared `DownloadState` | existing-file check, markers, search and download | addons, streams, limiters | a crash at any step leaves a state the next run resumes from |
| State file (`state/app_state.py`) | items, failed_items, in_progress, started | load, save, mark, clear, prune | all threads of one folder, other processes | a marker is on disk before any byte; the file may lag behind the report while snapshots overtake one another or a write fails, and has caught up when the run is closed |
| Worker limit (`services/download.py`, `DynamicLimit`) | active counter, limit, waiters | acquire, release, dial | all folders' workers, key handler | no leaked slot, nobody waits for ever |
| Rate limiter (`addons/rate_limiter.py`) | per host: stamps, gap, ban | request, report_429, report_success, is_saturated | all search threads | window, gap and ban hold for the requests really sent |
| Stream download (`download/stream_download.py`) | `.part` and final file | range request, chunk loop, validation, rename | servers, bandwidth limiter, Ctrl+C | bytes are not lost; nothing invalid is left as final, unless its validation is cut off |
| HLS download (`hls_*.py`) | `.part`, ffmpeg process | segments or ffmpeg, finalise | servers | as above |
| Attempt loop (`stremio/stremio_client.py`) | error counters | strategies, streams in turn, debrid retry | stream download | permanent only when every stream was invalid |
| Addon search (`addons/addon_search_service.py`, `stremio/stremio_client.py`) | strategies, addons asked, streams found, verdicts | searches of the folder's servers, of the rest, of all, of the experimental addons; preflight | rate limiter, thread pool, Ctrl+C | everyone is asked once, and before a failure is reported |
| Stream selection (`download/stream_download.py`) | none | filters, suspects, sort | addon search | what is blamed is not tried |
| Bandwidth sharing (`download/bandwidth_service.py`) | registered threads, windows | register, wait_for, unregister, update | chunk loops, UI | shares add up, threads leave |
| Servers and config (`configs/config_file.py`, `processing.py`) | servers, disabled_servers, cursor | disable, verify, save | workers, metadata service | a server disabled at the start stays disabled |
| Movies (`process_movie_folder`) | as a season of one item | the same steps in one thread | the same | the file is what the run knew |
| Metadata service (`services/metadata.py`) | the config it has read | cached or asked, merge, write back | download runs, the user | what is listed stays listed |
| Scanner (`services/scanner.py`, `library/`) | folders | scan, create new seasons | metadata, download | |
| Addon validator (`addons/addon_validator.py`) | the addons file | ask every addon, remove the silent | the shutdown flag | |
| Download service (`DownloadService.run`) | report, folder pool | drop duplicates, process folders, record results | all of the above | every folder reported once |
| Collection, debrid, reports, UI | files, caches, screens | see `PROJECT.json` | | |

Hard behaviours: worker threads share one `DownloadState` and save it on their
own; the limit is dialed while they wait; Ctrl+C is seen at different moments by
different threads; a second cron job may work in the same folder; the process
may be killed between any two file operations and the next run starts from what
is on disk. `PROJECT.json` lists each such hazard at its line, with the
properties that would catch it going wrong.

## The modules

    EpisodeScan ── EpisodeQueue ── MCEpisodeQueue     (season_queue, queue_tiers, queue_budget)
        │              └─ EpisodeQueue_proofs ─ EpisodeScan_proofs
        └───────── SeasonRun ───── MCSeasonRun        (season_run, season_ends, season_attempts)
                     │ └─ SeasonRun_proofs
      VideoFile ◄────┘
    WorkerSlots ◄─ DynamicLimit ── MCDynamicLimit     (dynamic_limit)
                       └─ Limits_proofs
    RateLimiter ── MCRateLimiter                      (rate_limiter)
           └─ Limits_proofs
    VideoFile ◄─ PartFile ── MCPartFile               (part_file)
                     └─ PartFile_proofs
    FolderFiles ── MCFolderFiles                      (folder_files)
        └─ FolderFiles_proofs
    StreamSelection ── EpisodeSearch ── MCEpisodeSearch   (episode_search)
                           └─ EpisodeSearch_proofs
    LibraryRun ── MCLibraryRun                        (library_run)
         └─ LibraryRun_proofs

They are layers of one program, each taking the one below in coarser steps:
`LibraryRun` (commands and folders), `SeasonRun` and `FolderFiles` (one folder:
the first its episodes and attempts, the second its two files), `EpisodeSearch`
(one search), `PartFile` (one stream). `DynamicLimit` and `RateLimiter` are the
two objects that threads of all layers share.

**EpisodeScan** holds the data and the pure decisions: a folder is a record of
what is on disk, in the state file and in the config; `Missing`, `ConvertTiny`,
`AutoReset`, `PruneStarted`, `AddDownload`, `MarkFailed`, `RecordExisting` are
the functions of the same or similar name. File sizes are cut to what the code
distinguishes: none, shorter than `MIN_COMPLETED_VIDEO_SIZE_MB`, complete, or a
video of the episode under another name. A queue is a set and a strict order on
it, so a stable partition is one set comprehension (`Hoist`).

**EpisodeQueue** is `setup_season_folder` and `_drop_existing_episodes_from_task`
in four steps (`Scan`, `ResumeFirst`, `PriorityFirst`, `DropExisting`), from
every folder, record, marker, cursor and metadata list: the user edits these
files, and earlier versions and other processes leave them in any combination.

**SeasonRun** is `process_season_folder` with its workers over several runs of
the program. The main thread's position is `phase`, a worker's is `job[e]`;
`lib` is the folder and the state in memory, `saved` the state file, `copied[e]`
the records that a worker's running save has copied, `faulty` whether the file
system has failed in this run. The main
thread starts pool rounds (`StartRound`), collects one result at a time
(`Collect...`), leaves the pool (`LeaveParallel`), drains alone (`DrainNext`),
marks the leftovers and closes. A worker waits for a slot, checks the file,
marks the episode (`Begin`) and saves the mark (`SaveMarker`), is given streams
one after another (`Stream`, `Stall`, `DiscardPart`, `RejectResponse`; at the
first bytes `FirstBytes` and `SaveStarted`), renames, validates, and ends with
one of five outcomes. `RequestShutdown` is the flag, seen whenever a thread next
looks, and `ClearShutdown` the next command, which clears it under the threads
that still work; `KeyboardInterrupt` is the exception in the main thread;
`Crash` loses everything but the folder and `saved`; `FileArrives` is a second
process that finished the same episode. Preparation is one action here, built
from the same operators EpisodeQueue takes step by step.

A save is `save_state`: the records are copied first (`StartSave`), and written
later with the rest of the state as it is by then (`FinishSave`). So a worker's
save may put records on disk that are older than those the main thread has saved
and reported meanwhile. `Write` lets the file system fail: the error is reported
and forgotten, and the file stays as it was. A dictionary that another thread
changes under the serialisation is a RuntimeError in whoever saves: it ends the
worker, or at the first bytes its stream (`SaveRaises`), or the folder
(`CollectRaises`). The main thread's own saves are one step: the only records
that their copy could miss are those of `SkipExisting`, which no report counts.
`FolderFiles` takes every save apart.

**WorkerSlots** is what the code that calls `worker_semaphore` relies on;
**DynamicLimit** is the class, at the granularity of its lock: the comparison
with the limit (`Look`), the unlocked second look at the flag (`Full`, `Passed`),
the wait with timeout and the single notify. `ImplementsSlots` maps a job that
saw a free slot to a holder.

**RateLimiter** is one host's state and the threads that share it. Time is in
ticks, a time stamp is its age, and `sent`, which the code does not keep, are the
ages of the requests that really went out: the guarantees are about these.

**PartFile** is what happens to one episode's two files below a worker:
`_try_download_streams` with its counters, `download_stream_to_file`, the ffmpeg
and the segment downloader, and the RealDebrid retry, over any number of
searches. A file is the sequence of its chunks and a chunk is the release it came
from, so resuming one release with another is visible. `call` is the running (or
the last) call of `download_stream_to_file`: what it resumed (`before`) and what
vouches for the end of its body (`body`). `pc` is the place in it: a direct
download goes `connecting`, `receiving`, `received`, `promoted` (renamed, not yet
validated); ffmpeg is `muxing`, the segment downloader `fetching`. `Failed` is
the error handling shared by all failures: count once, then perhaps the retry.
Three things can cut off the validation of a renamed file, and none of them
removes it: `Crash`, `KeyboardInterrupt` in the main thread, which downloads films
and single-worker episodes itself, and `ValidationErrs`, an error of the file
system, which the handler does not expect. `unchecked` records that one of them
did. `Interrupt` is the cooperative check of the flag, which is not made there.
What servers answer is unconstrained. `SeasonRun` sees these steps as `Stream`,
`Stall`, `DiscardPart`, `Rename`, `Accept` and `Invalidate`.

**VideoFile** is where the two meet: what a worker promises about the two files of
its episode, however it downloads. The final file comes into being whole, by a
rename; what turns out to be no video is removed before the next stream is tried.
A file that has not passed stays only where one of three mishaps strikes, in the
step in which it strikes: the process dies (`Crash`), Ctrl+C takes the main thread
out of its own download (`Drop`), or the file system fails (`Escape`). `mishaps`
says which have befallen the folder, and each of these actions requires its own to
be new, so a living process cannot forget a job at another time. `PartFile`
implements it (`KeepsPromise`: a file is none, short or a video by its length, and
all of a search up to the rename is one stage), and so does `SeasonRun`, once for
every episode (`FilesAsPromised`), in which other workers, the main thread, later
runs and other processes are around.

**FolderFiles** has the two files in finer steps than `SeasonRun`: `save_state` is
the copy of the items (`StartSave`), the serialisation of everything else as it is
then, under the lock of the path (`Dump`, or `DumpRaises` when another thread
changes a dictionary meanwhile), and the replacement of the file (`Replace`),
which the file system may refuse. Workers and the main thread save from different
moments, so an older snapshot may be written last. `disabling` is the list of
disabled servers between the read and the assignment: workers do both under the
task's `config_lock`, `apply_result` under the run's, so an addition can be lost.
A folder of the kind `film` has the main thread only, and markers under keys that
its record does not clear. `MetadataReads` and `MetadataWrites` are the metadata
service of another process. `SeasonRun` keeps the order of the queue, attempts and
files half done, which are left out here. The `inconclusive` preflight is kept as
a choice although the code cannot produce it today (a finding), which only adds
behaviours.

**StreamSelection** has the pure functions of the stream selection. A stream is
a record of what the functions look for in its texts: the identity, the title's
verdict, season and episode tokens, languages, quality. The code sorts, drops
doubles and picks a best one; here that is a set of places and an order on it
(`Arranged`, `Earlier`, `Allowed`, `Better`), so that the result can be reasoned
about without an induction over the sort. **EpisodeSearch** is
`search_and_download` above `PartFile`: `ids` are the strategies left, `scope` the
addons that the present search asks, `waiting` the requests in its pool, `earlier`
the verdict of the folder's servers while the rest are asked. `Submit` sends all
requests, `Answer` takes the next one in any order, `SearchFailed` decides what
follows a search without a download, and with which verdict.

**LibraryRun** is the whole program above the folders: the commands of the menu
with their phases (`plan`), the pool of metadata threads, each a read
(`ReadConfig`) and a write (`WriteConfig`) of a config, the pool of folders with
their results and the report. `q`, Ctrl+C and a folder's exception leave the pool
without waiting, and the next command clears the flag: `job[r]` are the folders'
downloads of command `r`, and those of an earlier one go on beside it. Inside a
folder one step is one episode with the save of the config that was loaded, and
`DropResults` is the pool's loop that leaves at q: files of finished downloads are
there, but their results were not read and are in no report.

## The runs

| Run | Instance | Distinct states | Shows |
|---|---|---|---|
| `season_queue` | 2 episodes, budget 1, `LIMIT_EPISODES` 0 and 1, every folder | 1.8 M | the queue is right from any starting point |
| `season_run` | 2 episodes, 1 round per phase, pool 2, 2 program runs, one error of the file system and another process in the first | 1.8 M | accounting, markers, counters and what is kept over a run, its crash, and the next run |
| `season_ends` | the same with 1 program run and old files of episode 1, no errors, no other process, fair | 187 k | every run ends, if its streams do; the files of every episode as promised |
| `dynamic_limit` | 4 jobs, limit 1..2, fair | 6 k | slots, refinement, no one is stuck |
| `rate_limiter` | 3 threads, gap 2, window 9, cap 3, longest sleep 4, bans 2 to 8 | 48 k | pacing and progress |
| `part_file` | releases of 3, 2 and 1 chunks, a video has at least 2, 2 streams a search, fair | 105 k | the bytes, the verdict, the promise and the end of a search |
| `episode_search` | 2 configured addons, 1 stale server, 1 experimental, 5 answers | 324 k | who is asked, when a search gives up, what is tried |
| `folder_files` | 2 episodes or a film, 2 servers, 1 program run, 1 metadata run | 4.2 M | the two files against what the threads know |
| `library_run` | 2 shows of 2 seasons of 2 episodes, 1 film, 3 libraries, 2 commands | 655 k | the report, and the configs that many threads write back |
| `queue_tiers` | as `season_queue` | violated | Resume > Priority > Fresh is not what the code does |
| `queue_budget` | as `season_queue` | violated | an exhausted episode may be queued |
| `season_attempts` | as `season_run`, 1 program run | violated | more attempts than `MAX_DOWNLOAD_ATTEMPTS` |

Why the bounds are enough. The properties of the queue compare two episodes, and
each episode takes every combination of file, .part, record, counter and marker; a
counter matters only as below or at the budget. In a season run two episodes are
the fewest that start a pool, one round per phase already gives deferred, drained
and left-over episodes, and the second run starts from everything the first can
leave, a crash included. `season_run` starts from an empty folder (`OldFiles`), as
the first run already leaves every kind of file; `season_ends`, with one run,
starts from any files of one episode. `FaultyRuns` and `SharedRuns` bound in how
many runs, the first ones, the file system fails (once a run) and another process
delivers files: in `season_run` one, whose consequences the folder and the state
file carry into the second; in `season_ends` none, since the search for cycles
takes too long with more states. So TLC checks `FilesAsPromised` against Ctrl+C
and crashes; that it holds beside another process and a failing file system, too,
is what its theorem says. `season_run` uses the view `MCView`, which drops values
that no later step and no property of the run can tell apart: the count of
attempts, which only `season_attempts` reads, the limit outside the pool's phases
(the drain needs one slot, and `Setup` draws a new limit), the markers that the
preparation took for expired, and in the last run what only the preparation of a
next one would read: the cursor, the .part files, and the records and started
markers in the state file, which the closing save replaces. Four jobs and a limit
of at most two give a holder, a sleeper and a job at the lock while the limit is
dialed past both. The limiter's numbers keep the proportions of the real ones: gap
< longest sleep on the cap < window, and a ban that doubles before it reaches its
maximum. `part_file` has a longer and a shorter release, so that a .part can be
too long for the next one or be finished by it, and one below the minimum; two
streams let what one leaves meet the other, and the number of searches is not
bounded.

`folder_files` has one run of the program over everything that earlier ones can have
left (`MCEarlierRuns`: records of files that the user may delete before or during the
run), two workers and the main thread, which are all the writers there are, one
error of the file system, and one metadata run that has read the config before the
run saves; one that reads later knows what the run found, and its loss of a
later addition would be the same step again. Two servers are enough for one that
vanished and one that delivers. `episode_search` needs an addon of every kind
(asked by both searches, by one, only in the end) and answers that hold a plain
hit, a wrong show beside a right hash, an advisory row, a foreign language and a
twelfth episode that passes for the first. In `library_run` the libraries hold the
pairs of folders that meet: two folders of one season, a folder and a film, a
folder that does not load beside a new season. The pool of four metadata threads
does not limit three folders; two commands are the fewest with threads left over
from an earlier one, and one line of the addons file is asked or not.

All cfgs but those of `part_file`, `folder_files` and `episode_search` say
`CHECK_DEADLOCK FALSE`: preparation, a bounded number of runs or commands and a
set of jobs that were all served do stop.

**Fairness.** `SeasonRun`: weak fairness of the main thread and of each worker's
next step while it is not at a stream, since both are threads of the operating
system, and what they wait for there (locks, slots, the file system, addons'
answers) is held for a bounded time; strong fairness of `GiveUp`, since a worker's
list of streams is finite, so it cannot return to asking for the next one for
ever. That a stream ends is not assumed by the fairness: `RunEnds` has it as its
premise, for each episode. Nothing is assumed of the user, of other processes or
of crashes. `DynamicLimit`: weak fairness of the steps a thread takes by itself
and of the timeout; strong fairness of taking the lock, which Python's lock does
not order but does not withhold for ever either. A download ends (`Release`),
which `part_file` shows under its premise about ffmpeg. `RateLimiter`: the clock,
the end of sleeps and of requests (`addon_get` passes a timeout), and the lock as
above. `PartFile`: weak fairness of the downloading thread, since connecting and
reading have timeouts, except while ffmpeg is `muxing`: there the code blocks in a
readline without one (`hls_ffmpeg_download.py:220`, and when the progress has
ended in a read and a wait, :268-269), and an ffmpeg that falls silent for ever
holds the search for ever. `SearchEnds` therefore has []<>(pc # "muxing") as its
premise, and shows that nothing else can hold a search. It is what `RunEnds`'s
premise and `SeasonRun`'s assumption about `GiveUp` rest on: they are as good as
ffmpeg.

## The theorems

Assumptions are those the modules name: a season has at least one episode, the
budget is a natural number, jobs are a finite set, limits are positive, and the
gap is shorter than the window; a release and the shortest video have at least
one chunk; shows and films are finite sets, and the libraries, lookups, offers
and quality settings that a run is given are of their types. TLC evaluates them
in every run.

* **EpisodeScan_proofs** has the lemmas on the operators: each keeps the type of
  a folder, the hoist of a strict total order is one, a non-empty total order on
  episodes has a first element, the scan finds every wanted episode and admits
  an exhausted one only with history.
* **EpisodeQueue_proofs** proves every property of `season_queue` for any season
  length, budget, limit and folder, and `TypeOK` besides (proved outright, so no
  run repeats it; `DLTypeOK` of the worker limit likewise). `QueueInv` is the
  type, the total order, and the existence of its first element, which the cursor
  needs to stay in range. `ContentInv` says for every step what the queue holds
  relative to the folder as it is then (the scan and the drop happen two steps
  apart, and the tiny-file conversion in between changes the folder); the four
  content properties follow.
* **SeasonRun_proofs** proves `RunInv`: `TypeOK`, the accounting of episodes in
  every phase (strengthened by which job states a phase allows), markers in memory
  for whoever holds a slot and on disk for whoever downloads (every write takes
  the markers as they are in memory at that moment, whatever its records), files
  and records in memory of what is completed, that memory's counter exceeds the
  file's by at most one and only for failed episodes, and that what clears the
  counter of a failed episode records its video (`FailuresKept`), since the
  failure itself is saved only at the end. From it: `EveryEpisodeAccounted`,
  `ReportComplete`, `MarkedWhileDownloading`, `ReportedDownloadsKept`,
  `ReportedFailuresDurable` and, as an action property, `BudgetCountsFailedRuns`,
  for any season, pool, budget, number of runs and of faulty or shared ones.
  `DownloadsKept` says exactly as much as the code does: the video and the record
  in memory while the run is on, and the record in the file of a run whose closing
  save succeeded, with those of all other videos in the folder. It says nothing of
  the file in between, where an older snapshot or an error may leave a counted
  download out until the next save. `BudgetKept` ties every rise of a counter to
  an entry in the report's failures; that a search cut short by Ctrl+C can become
  such an entry is a finding. `FilesAsPromised` follows step by step: only the
  preparation moves files, those of idle episodes (`SetupFiles`), no other step of
  the main thread does (`MainFiles`), a worker stays away from other episodes'
  files (`OthersKeepPromise`), and the user's deletion finds nobody at work,
  because nothing is in flight between two runs (`Accounted`). A job that goes
  back to `off` or to the next stream with an unvalidated file needs a mishap that
  is new in that very step. So each episode is a `VideoFile`
  (`EveryEpisodeIsVideoFile`), and what follows from the promise alone holds of
  each (`NoShortFileInSearch`).
* **Limits_proofs** has both shared objects (`DynamicLimit` prefixes the names it
  shares with `RateLimiter`, as one module extends both). Of the worker limit it
  proves that the counter is the number of holders, and
  with it the refinement of `WorkerSlots` for any set of jobs: the abstract
  guard `Cardinality(holders) < limit` needs the counter to be exact and the
  lock to have one holder.
  Of the rate limiter it proves the ban and the gap for any number of threads and
  any numbers: `RateInv` adds that one thread has the lock, and that during the
  gap's sleep the rest of it and the age of the last request add up.
  `WindowNeverExceeded` adds the cap, assuming that a ban lasts at least the gap
  (60 seconds against 2 in the code; whether it is needed is open, the shorter
  bans tried with TLC kept the cap, too). A request goes out up to the gap after its
  stamp, so the stamp may leave the window before the request does. `CapInv` maps
  every request to its stamp (`Accounts`) and says of the late ones that another
  went out exactly the gap before (`Chained`): at most one request in the window
  has lost its stamp, and never when the window is full and a further request
  could find it there.
* **FolderFiles_proofs** proves both properties for any episodes, servers and
  numbers of runs. `TheFileKeepsUp` has two parts. The marker of a running download:
  snapshots may overtake each other, but whatever is written while an episode's
  worker is between its marking and its end was serialised from a memory that
  had the mark (`Marked`, `OnDisk`), since only the items are copied earlier; one
  dump at a time (`OneDumps`) makes the order of dumps that of replacements. The
  closed run: from the closing on no worker writes (`Calm`), so the last save
  is the main thread's and nothing changes memory behind it (`Closing`,
  `LastSave`). `VanishedStayDisabled` follows the list through the places where it
  is in flight: every list that a thread has computed, is saving, or has assigned
  contains the vanished servers (`InEveryList`, `InFile`), and before the
  preparation nothing is in flight (`AsLoaded`).
* **EpisodeSearch_proofs** proves `AskedOnce` and `GivesUpAfterEveryone` for any
  sets of addons, offers and settings. The invariant (`Progress`) computes who was
  asked for what from the strategies left and the present scope alone, so that
  a strategy that ends has asked everyone exactly once (`Searching`). Of what is
  tried it proves `BestAreTried`: of any streams and for any settings, those
  selected are allowed ones, each once, the best first, at most twenty, and none
  that is left out comes before one that is in. It rests on lemmas about
  arrangements (`Arranged...`: a strict total order on finitely many places gives
  every place exactly one rank) and on the sort keys being totally ordered. With it
  and the types (`Sound`) follows `SuspectsNotTried`.
* **PartFile_proofs** proves all its safety properties for any releases, sizes and
  number of streams. `FileInv` adds to them how far a call has been counted
  (`Counted`), which calls can be at which place (`CallShape`), and that the
  .part, while it is written, continues what the call resumed and stays within the
  release (`Written`), without which nothing is known at the rename. One lemma
  (`FailedKeepsInv`) serves the eleven ways to fail. `PartKept` goes through the
  nine steps that write the .part. `DownloadersKeepPromise` is the refinement of
  `VideoFile`: most steps are stutters, and every way to fail a stream leaves the
  thread at the next one or at its retry (`FailedGoesOn`). `NoInvalidFile` says
  that a final file outside `promoted` has passed, or that its own validation was
  cut off (`unchecked`): the only exceptions are the three steps that set it.
* **LibraryRun_proofs** proves the three properties of `library_run` for any shows,
  seasons, films, libraries and numbers of commands. `Phased`: a download is the
  last phase of its command (`Planned`), only a download gives its command's
  folders jobs (`Begun`), and while a folder is refreshed no folder of the same
  command is downloaded (`RefreshedAlone`): only threads of earlier commands can
  be beside it. `Counted`: the lines of the report are folders that are done, and
  the totals are sums over the lines, whatever the threads of earlier commands
  still bring. `Fresh` follows the config through the places where a copy lives:
  what a metadata thread has read and what a download has loaded agree with the
  file on what is wanted, unless a thread of an earlier command lingers at the same
  folder; a refresh itself only adds (`RefreshedKeeps`). From this comes the
  exception in `WantedKept`. The induction needs it in this width: an exception
  that TLC had confirmed for two commands was narrower and is violated by three,
  where threads of two earlier commands have loaded different configs.

Only model-checked is what holds under fairness (`RunEnds`, `ShutdownUnblocks`,
`EveryoneServed`, `CallEnds`, `SearchEnds`). Liveness and ENABLED are outside what
the prover supports, and so are induction over data and RECURSIVE operators; no
module here uses recursion.

## Findings

`PROJECT.json` lists where the code and its documentation disagree, three of
them with a run: the order of the tiers, the budget of resumed episodes, and the
number of attempts. The others were met while reading for the models: among them
the metadata service drops `experimental_addons_enabled`, a rate-limited host
passes for a dead one, the session's 4K switch ends in the config files, and the
markers of a film are never cleared.

## Not modelled

* **Bandwidth sharing.** It decides how long a thread sleeps; no file, record or
  verdict depends on it, and its arithmetic without real time would be restated
  rather than checked.
* **Two writers of one `.part`.** `SeasonRun` has a second process that delivers
  complete files; two processes in the same `.part` are outside, and so is a
  thread of an earlier command in the same file, which `LibraryRun` has as a
  step that brings the episode.
* **The preflight's probes**: staggered requests and a second round narrow the list of
  servers. Its verdict is a choice in `FolderFiles`.
* **What ffmpeg does while it is silent**: how long it may be, and whether the
  process ends, is left to the premise of `SearchEnds`. The stall check and the check
  of the flag are not reached then (a hazard in `PROJECT.json`).
* **Parsers and texts**: some 110 addons' answers, titles from directory names, the
  regular expressions behind `StreamSelection`'s records.
* **Debrid resolvers, the offline addon collection, rendering, the menus for
  finding addons, error reports**: requests, text processing and output without
  state that several actors share.

What would come next: a second writer of the `.part` in `PartFile`, and the
rate limiter's cap without its assumption on bans.
