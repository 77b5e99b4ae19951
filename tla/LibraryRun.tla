----------------------------- MODULE LibraryRun -----------------------------
(***************************************************************************)
(* The commands of the menu over a whole library: the scan, which creates  *)
(* the season folders of the year, the refresh of every folder's config    *)
(* from Cinemeta, the validation of the addons, and the download of what   *)
(* is missing, with its report.                                            *)
(*                                                                         *)
(* The threads of the metadata service and the folders' downloads take     *)
(* steps of their own.  A command that the user interrupts, or that an     *)
(* exception ends, leaves the threads of its folders at work: they run     *)
(* beside the next command, which clears the shutdown flag.                *)
(*                                                                         *)
(* Of a config only the fields that decide what is downloaded are kept; a  *)
(* title goes with its identity.  Inside a folder a download is one step   *)
(* here (SeasonRun, FolderFiles); the episodes that fail only count as     *)
(* not downloaded.                                                         *)
(***************************************************************************)
EXTENDS Integers, FiniteSets, Sequences, FiniteSetsExt

CONSTANTS Shows, Films, LastSeason, LastEpisode,
          Identities,      \* ids of IMDb
          AiredThisYear,   \* seasons with an episode of this year
          ImdbMaxSeason,   \* the last season of a show that IMDb has
          Lookups,         \* what Cinemeta finds for a season: results, best first
          Libraries,       \* what the user and earlier runs left
          Addons,          \* the lines of custom_addons.txt at the start
          MaxCommands      \* bound on the commands of one process

ASSUME LastEpisodeAssumption == LastEpisode \in Nat \ {0}
ASSUME AiredAssumption == AiredThisYear \subseteq Shows \X (1 .. LastSeason)
ASSUME ImdbAssumption == ImdbMaxSeason \in [Shows -> Nat]
ASSUME CommandsAssumption == MaxCommands \in Nat

Episodes == 1 .. LastEpisode
Series == Shows \X (1 .. LastSeason)
Folders == Series \cup Films
Runs == 1 .. MaxCommands

ASSUME FoldersAssumption ==
    /\ IsFiniteSet(Shows) /\ IsFiniteSet(Films) /\ LastSeason \in Nat
    /\ Films \cap Series = {}

NoId == "no id"

Configs == [enabled : BOOLEAN, id : Identities \cup {NoId}, count : 0 .. LastEpisode,
            listed : BOOLEAN, list : SUBSET Episodes,
            cursor : 0 .. (LastEpisode + 1), fresh : BOOLEAN]

ASSUME LibrariesAssumption ==
    Libraries \subseteq [exists : SUBSET Folders, broken : SUBSET Folders,
                         config : [Folders -> Configs], files : [Folders -> SUBSET Episodes]]

\* load_config of a folder without a file.  Zero is no episode_count.
DefaultConfig(f) ==
    [enabled |-> TRUE, id |-> NoId, count |-> 0, listed |-> FALSE, list |-> {},
     cursor |-> IF f \in Films THEN 0 ELSE 1, fresh |-> FALSE]

\* A row of Cinemeta: "Episode #N.M" or TBA without any data is no name.
Videos == [name : {"real", "numbered", "tba"}, released : {"past", "future", "unknown"}]

\* A result for a season: its rows, none if the request failed.
Results == [ok : BOOLEAN, id : Identities,
            videos : UNION {[S -> Videos] : S \in SUBSET Episodes}]

ASSUME LookupsAssumption == \A results \in Lookups : results \in Seq(Results) /\ results # <<>>

Phases == {"scan", "sync", "refresh", "validate", "download"}

\* The phases of the commands: download and sync use the cache, refresh does not.
Commands ==
    { <<"scan", "sync", "download">>, <<"scan", "sync", "validate", "download">>,
      <<"scan", "refresh">>, <<"scan", "refresh", "download">>,
      <<"download">>, <<"validate">> }

VARIABLES
    exists, broken,      \* folders; those whose config does not load
    config, files,
    addons,              \* the lines of the addons file
    plan, busy,          \* the phases to do; whether the first was begun
    ended,               \* the process is leaving
    run,                 \* number of the command
    folders, queue,      \* of the scan; of the download
    meta, read,          \* refreshes and the configs they have read
    job, loaded, todo, got,  \* folders' downloads, in each run
    pool,                \* the downloads run in a pool
    shutdown,
    lines, processed, skipped, downloaded, printed   \* the report

library == <<exists, broken, config, files, addons>>
main == <<plan, busy, ended, run, folders, queue, pool, shutdown>>
refreshes == <<meta, read>>
downloads == <<job, loaded, todo, got>>
report == <<lines, processed, skipped, downloaded, printed>>
vars == <<library, main, refreshes, downloads, report>>

Jobs == {"none", "queued", "running", "done", "skipped", "raised", "cancelled"}

TypeOK ==
    /\ exists \subseteq Folders /\ broken \subseteq Folders
    /\ config \in [Folders -> Configs]
    /\ files \in [Folders -> SUBSET Episodes]
    /\ addons \subseteq Addons
    /\ plan \in Seq(Phases)
    /\ run \in 0 .. MaxCommands
    /\ folders \subseteq Folders /\ queue \subseteq Folders
    /\ meta \in [Folders -> {"none", "queued", "cached", "read", "done"}]
    /\ read \in [Folders -> Configs]
    /\ job \in [Runs -> [Folders -> Jobs]]
    /\ loaded \in [Runs -> [Folders -> Configs]]
    /\ {todo, got} \subseteq [Runs -> [Folders -> SUBSET Episodes]]
    /\ lines \subseteq Folders
    /\ {processed, skipped, downloaded} \subseteq Nat
    /\ {busy, ended, pool, shutdown, printed} \subseteq BOOLEAN

Defaults == [f \in Folders |-> DefaultConfig(f)]

Init ==
    /\ \E left \in Libraries :
          /\ exists = left.exists /\ broken = left.broken
          /\ config = left.config /\ files = left.files
    /\ addons = Addons
    /\ plan = <<>> /\ busy = FALSE /\ ended = FALSE
    /\ run = 0
    /\ folders = {} /\ queue = {} /\ pool = FALSE /\ shutdown = FALSE
    /\ meta = [f \in Folders |-> "none"] /\ read = Defaults
    /\ job = [r \in Runs |-> [f \in Folders |-> "none"]]
    /\ loaded = [r \in Runs |-> Defaults]
    /\ todo = [r \in Runs |-> [f \in Folders |-> {}]] /\ got = todo
    /\ lines = {} /\ processed = 0 /\ skipped = 0 /\ downloaded = 0
    /\ printed = FALSE

Phase == IF plan = <<>> THEN "menu" ELSE Head(plan)

----------------------------------------------------------------------------
(***************************************************************************)
(* What the files of a folder and its config say.                          *)
(***************************************************************************)
\* detect_existing_season_episodes: of absolute numbers only a block counts.
Detected(present, count) ==
    LET local == {e \in present : e <= count}
        block == \A e \in Min(present) .. Max(present) : e \in present
    IN  IF present = {} \/ count = 0 THEN present
        ELSE IF local # {} THEN local
        ELSE IF block THEN 1 .. Min({Cardinality(present), count})
        ELSE {}

\* Slip: behind the missing one.
InferBehind(present, count) ==
    IF count = 0 THEN 0
    ELSE 1 + Min((1 .. count + 1) \ Detected(present, count))

\* infer_next_episode_download: the first missing one, zero when unknown.
InferNext(present, count) ==
    IF count = 0 THEN 0
    ELSE Min((1 .. count + 1) \ Detected(present, count))

\* The cursor is only raised.
RaiseCursor(c, present) ==
    [c EXCEPT !.cursor = Max({@, InferNext(present, c.count)})]

\* The episodes that the next scan of the folder looks for.
Missing(c, present) ==
    LET start == IF c.cursor > c.count THEN 1 ELSE c.cursor
        ahead == IF c.listed THEN c.list ELSE Episodes
    IN  ({e \in Episodes : e < start} \cup {e \in ahead : e >= start /\ e <= c.count})
            \ Detected(present, c.count)

----------------------------------------------------------------------------
(***************************************************************************)
(* The refresh of one config.                                              *)
(***************************************************************************)
\* An episode that has aired is there although nobody named it yet.
IsPlaceholder(v) == v.name = "numbered" \/ (v.name = "tba" /\ v.released # "past")
IsAvailable(v) == ~IsPlaceholder(v) /\ v.released # "future"
Aired(r) == {e \in DOMAIN r.videos : IsAvailable(r.videos[e])}

Found(r) == r.ok /\ Aired(r) # {}
NotFound(r) == r.ok /\ Aired(r) = {}

\* get_series_metadata: the first result that has the season, else the first.
Chosen(results) ==
    LET having == {i \in DOMAIN results : Found(results[i])}
    IN  results[IF having = {} THEN 1 ELSE Min(having)]

\* A smaller number of episodes does not replace the one that is set.
MergedCount(c, r) == IF Aired(r) = {} THEN c.count ELSE Max({c.count} \cup Aired(r))

\* Slip: the list of Cinemeta replaces the one that is set.
ReplacedList(c, r) == Aired(r)

\* Listed episodes stay, if the number of episodes was known too.
MergedList(c, r) ==
    IF c.count # 0 /\ c.listed
    THEN {e \in c.list \cup Aired(r) : e <= MergedCount(c, r)}
    ELSE Aired(r)

\* A season Cinemeta does not have changes nothing but the identity.
Merged(c, r) ==
    IF NotFound(r) THEN [c EXCEPT !.id = r.id]
    ELSE [c EXCEPT !.id = r.id, !.count = MergedCount(c, r),
                   !.listed = TRUE, !.list = MergedList(c, r)]

\* _metadata_cache_fresh, of a series and of a film.
CacheFresh(f, c) == c.fresh /\ c.id # NoId /\ (f \in Films \/ c.count # 0)

\* get_series_imdb_id: the search may fail or find nothing.
SeriesIds == {NoId} \cup Identities

\* What may be written for a series; any answer is stamped.
RefreshedSeries(c, present) ==
    LET raised == RaiseCursor(c, present)
        answers == {Merged(raised, Chosen(results)) : results \in Lookups}
        nothing == {IF id = NoId THEN raised ELSE [raised EXCEPT !.id = id] : id \in SeriesIds}
    IN  {RaiseCursor([a EXCEPT !.fresh = TRUE], present) : a \in answers \cup nothing}

\* get_movie_metadata: the id the config has, else of the best match, if any.
FilmIds(c) == IF c.id = NoId THEN {NoId} \cup Identities ELSE {c.id}

\* A film has no cursor, keeps the id it has, and is stamped with what is written.
RefreshedFilm(c) ==
    LET kept == [c EXCEPT !.cursor = 0]
    IN  {kept} \cup {[kept EXCEPT !.id = id, !.fresh = TRUE] : id \in FilmIds(c)}

Refreshed(f, c) ==
    IF meta[f] = "cached"
    THEN {IF f \in Films THEN [c EXCEPT !.cursor = 0] ELSE RaiseCursor(c, files[f])} \ {c}
    ELSE IF f \in Films THEN RefreshedFilm(c)
    ELSE RefreshedSeries(c, files[f])

----------------------------------------------------------------------------
(***************************************************************************)
(* The menu, the scan and the refresh.                                     *)
(***************************************************************************)
\* What the threads that are gone had in memory goes with them.
Forgotten(memory, empty) ==
    [r \in Runs |-> [f \in Folders |->
        IF job[r][f] = "running" THEN memory[r][f] ELSE empty[f]]]

\* The flag of an earlier interruption stays set.
Choose ==
    /\ plan = <<>> /\ ~ended
    /\ run < MaxCommands
    /\ run' = run + 1
    /\ plan' \in Commands
    /\ folders' = {} /\ queue' = {} /\ pool' = FALSE
    /\ job' = Forgotten(job, [f \in Folders |-> "none"])
    /\ loaded' = Forgotten(loaded, Defaults)
    /\ todo' = Forgotten(todo, [f \in Folders |-> {}])
    /\ got' = Forgotten(got, [f \in Folders |-> {}])
    /\ lines' = {} /\ processed' = 0 /\ skipped' = 0 /\ downloaded' = 0
    /\ printed' = FALSE
    /\ UNCHANGED <<library, busy, ended, shutdown, refreshes>>

LatestSeason(show) == Max({0} \cup {n \in 1 .. LastSeason : <<show, n>> \in exists})

\* get_current_year_series_seasons: IMDb must have the season too.
CurrentYearSeasons == {s \in AiredThisYear : s[2] <= ImdbMaxSeason[s[1]]}

\* Of a show with a folder, seasons above the latest that it has.
NewSeasons ==
    {s \in CurrentYearSeasons : /\ \E n \in 1 .. LastSeason : <<s[1], n>> \in exists
                               /\ s[2] > LatestSeason(s[1])}

\* Cinemeta or the data of IMDb may not be reached.
Scan ==
    /\ Phase = "scan"
    /\ \E created \in SUBSET NewSeasons : exists' = exists \cup created
    /\ folders' = exists'
    /\ plan' = Tail(plan)
    /\ UNCHANGED <<broken, config, files, addons, busy, ended, run, queue, pool, shutdown,
                   refreshes, downloads, report>>

BeginRefresh ==
    /\ Phase \in {"sync", "refresh"} /\ ~busy
    /\ shutdown' = FALSE /\ busy' = TRUE
    /\ meta' = [f \in Folders |-> IF f \in folders THEN "queued" ELSE "none"]
    /\ UNCHANGED <<library, plan, ended, run, folders, queue, pool, read, downloads, report>>

\* The films follow the series, one by one.
RefreshTurn(f) ==
    f \in Films => \A g \in Folders : g # f =>
        meta[g] \notin {"cached", "read"} /\ (g \in Series => meta[g] # "queued")

\* An exception is reported, and the folder left as it is.
ReadConfig(f) ==
    /\ meta[f] = "queued" /\ RefreshTurn(f)
    /\ IF f \in broken
       THEN meta' = [meta EXCEPT ![f] = "done"] /\ read' = read
       ELSE /\ meta' = [meta EXCEPT ![f] =
                           IF Phase = "sync" /\ CacheFresh(f, config[f]) THEN "cached" ELSE "read"]
            /\ read' = [read EXCEPT ![f] = config[f]]
    /\ UNCHANGED <<library, main, downloads, report>>

\* The file is written if something changed, and if it can be.
WriteConfig(f) ==
    /\ meta[f] \in {"cached", "read"}
    /\ meta' = [meta EXCEPT ![f] = "done"]
    /\ read' = [read EXCEPT ![f] = DefaultConfig(f)]
    /\ config' \in {config} \cup {[config EXCEPT ![f] = c] : c \in Refreshed(f, read[f])}
    /\ UNCHANGED <<exists, broken, files, addons, main, downloads, report>>

Refreshing == \E f \in Folders : meta[f] \in {"queued", "cached", "read"}

EndRefresh ==
    /\ Phase \in {"sync", "refresh"} /\ busy
    /\ ~Refreshing
    /\ meta' = [f \in Folders |-> "none"]
    /\ busy' = FALSE /\ plan' = Tail(plan)
    /\ UNCHANGED <<library, ended, run, folders, queue, pool, shutdown, read, downloads, report>>

\* check_addon_url: what an addon may answer; one of the two is enough.
Answers == [manifest : BOOLEAN, streams : BOOLEAN]
Works(answer) == answer.manifest \/ answer.streams

\* What does not answer is removed, all of it when the network is down.  With the
\* flag of an earlier interruption no result is looked at, and nothing removed.
Validate ==
    /\ Phase = "validate"
    /\ \E answer \in [addons -> Answers] :
          addons' = {addon \in addons : shutdown \/ Works(answer[addon])}
    /\ plan' = Tail(plan)
    /\ UNCHANGED <<exists, broken, config, files, busy, ended, run, folders, queue, pool, shutdown, refreshes,
                   downloads, report>>

----------------------------------------------------------------------------
(***************************************************************************)
(* The download.                                                           *)
(***************************************************************************)
\* Folders of one title and season are duplicates, whatever their names.
SameSeason(f, g) ==
    /\ f \in Series /\ g \in Series /\ f[2] = g[2]
    /\ IF config[f].id = NoId THEN f = g ELSE config[f].id = config[g].id

\* Files first, then whether the config is enabled.
Score(f) ==
    2 * Cardinality(IF config[f].count = 0 THEN {} ELSE Detected(files[f], config[f].count))
        + (IF config[f].enabled THEN 1 ELSE 0)

\* Of the best the first is taken, in the order of the directory.
Deduped(all) ==
    LET known == (all \cap Series) \ broken
        best == {f \in known : \A g \in known : SameSeason(f, g) => Score(g) <= Score(f)}
    IN  {(all \ known) \cup chosen : chosen \in
            {S \in SUBSET best : \A f \in best : Cardinality({g \in S : SameSeason(f, g)}) = 1}}

BeginDownload ==
    /\ Phase = "download" /\ ~busy
    /\ shutdown' = FALSE /\ busy' = TRUE
    /\ folders' = IF folders = {} THEN exists ELSE folders
    /\ queue' \in Deduped(folders')
    /\ pool' \in (IF Cardinality(queue') > 1 THEN BOOLEAN ELSE {FALSE})
    /\ job' = [job EXCEPT ![run] = [f \in Folders |-> IF f \in queue' THEN "queued" ELSE "none"]]
    /\ UNCHANGED <<library, plan, ended, run, refreshes, loaded, todo, got, report>>

Collectable(f) == f \in queue \ lines /\ job[run][f] \in {"done", "skipped", "raised", "cancelled"}

\* Without a pool the main thread does one folder after the other.
Turn(r, f) ==
    \/ r < run \/ pool \/ ended
    \/ /\ ~shutdown
       /\ \A g \in Folders : job[r][g] # "running" /\ ~Collectable(g)

\* A folder that is disabled, or of unknown length, is skipped.
Skipped(f) == ~config[f].enabled \/ (f \in Series /\ config[f].count = 0)

\* The cursor goes to the head of the queue, whose order is not kept here, or
\* behind a complete season that is not listed.
FirstCursor(c, wanted) ==
    IF wanted # {} THEN wanted
    ELSE {IF c.cursor <= c.count /\ ~c.listed THEN c.count + 1 ELSE c.cursor}

StartFolder(r, f) ==
    /\ job[r][f] = "queued" /\ Turn(r, f)
    /\ IF f \in broken \/ Skipped(f)
       THEN /\ job' = [job EXCEPT ![r][f] = IF f \in broken THEN "raised" ELSE "skipped"]
            /\ UNCHANGED <<config, loaded, todo>>
       ELSE /\ job' = [job EXCEPT ![r][f] = "running"]
            /\ todo' = [todo EXCEPT ![r][f] = IF f \in Films THEN {1} \ files[f]
                                              ELSE Missing(config[f], files[f])]
            /\ \E cursor \in IF f \in Films THEN {config[f].cursor}
                            ELSE FirstCursor(config[f], todo'[r][f]) :
                  /\ config' = [config EXCEPT ![f].cursor = cursor]
                  /\ loaded' = [loaded EXCEPT ![r][f] = config'[f]]
    /\ UNCHANGED <<exists, broken, files, addons, main, refreshes, got, report>>

\* The config that was loaded is saved, all of it.
SaveLoaded(r, f, cursor) ==
    /\ loaded' = [loaded EXCEPT ![r][f].cursor = cursor]
    /\ config' = [config EXCEPT ![f] = loaded'[r][f]]

\* The cursor is behind episode e, or at the first that did not arrive.
CursorsAfter(e, wanted, arrived) ==
    {e + 1} \cup {IF wanted \subseteq arrived THEN Max(wanted) + 1 ELSE Min(wanted \ arrived)}

\* The file arrives, its result is read and the cursor moves on.  Another thread
\* may bring the file too.
DownloadItem(r, f) ==
    /\ job[r][f] = "running"
    /\ \E e \in todo[r][f] \ got[r][f] :
          /\ files' = [files EXCEPT ![f] = @ \cup {e}]
          /\ got' = [got EXCEPT ![r][f] = @ \cup {e}]
          /\ \E cursor \in IF f \in Films THEN {0} ELSE CursorsAfter(e, todo[r][f], got'[r][f]) :
                SaveLoaded(r, f, cursor)
    /\ UNCHANGED <<exists, broken, addons, main, refreshes, job, todo, report>>

\* After q the results of a season's pool are not read any more: what has arrived
\* or still does is not counted, and the cursor stays.
DropResults(r, f) ==
    /\ job[r][f] = "running" /\ f \in Series
    /\ shutdown \/ r < run
    /\ todo[r][f] # got[r][f]
    /\ \E unread \in SUBSET (todo[r][f] \ got[r][f]) :
          files' = [files EXCEPT ![f] = @ \cup unread]
    /\ todo' = [todo EXCEPT ![r][f] = got[r][f]]
    /\ UNCHANGED <<exists, broken, config, addons, main, refreshes, job, loaded, got, report>>

\* A single worker sets the cursor to the episode it tries, in vain.
TryItem(r, f) ==
    /\ job[r][f] = "running" /\ f \in Series
    /\ \E e \in todo[r][f] \ got[r][f] : SaveLoaded(r, f, e)
    /\ UNCHANGED <<exists, broken, files, addons, main, refreshes, job, todo, got, report>>

\* It returns, or in an interruption it may raise instead.
LeaveFolder(r, f) ==
    /\ job[r][f] = "running"
    /\ \E how \in {"done"} \cup (IF shutdown THEN {"cancelled"} ELSE {}) :
          job' = [job EXCEPT ![r][f] = how]
    /\ loaded' = [loaded EXCEPT ![r][f] = DefaultConfig(f)]
    /\ todo' = [todo EXCEPT ![r][f] = {}]
    /\ UNCHANGED <<library, main, refreshes, got, report>>

\* Slip: a skipped folder is counted as processed as well.
CountEach(f) == processed' = processed + 1

CountProcessed(f) == processed' = processed + (IF job[run][f] = "skipped" THEN 0 ELSE 1)

\* record_result.  In an interruption a pool's results are not looked at.
Collect(f) ==
    /\ Phase = "download" /\ busy
    /\ Collectable(f) /\ job[run][f] \in {"done", "skipped"}
    /\ pool => ~shutdown
    /\ lines' = lines \cup {f}
    /\ CountProcessed(f)
    /\ skipped' = skipped + (IF job[run][f] = "skipped" THEN 1 ELSE 0)
    /\ downloaded' = downloaded + Cardinality(got[run][f])
    /\ UNCHANGED <<library, main, refreshes, downloads, printed>>

\* Futures that have not begun are cancelled.
Dropped(jobs) == [f \in Folders |-> IF jobs[f] = "queued" THEN "none" ELSE jobs[f]]

PrintReport ==
    /\ printed' = TRUE
    /\ busy' = FALSE /\ plan' = Tail(plan)
    /\ UNCHANGED <<library, ended, run, folders, queue, pool, shutdown, refreshes, loaded, todo,
                   got, lines, processed, skipped, downloaded>>

EndDownload ==
    /\ Phase = "download" /\ busy
    /\ lines = queue \/ (~pool /\ shutdown /\ \A f \in Folders : job[run][f] # "running"
                                                            /\ ~Collectable(f))
    /\ job' = [job EXCEPT ![run] = Dropped(@)]
    /\ PrintReport

\* q: at the next result the pool is left, and what runs in it goes on.
LeavePool ==
    /\ Phase = "download" /\ busy
    /\ pool /\ shutdown
    /\ \E f \in Folders : Collectable(f)
    /\ job' = [job EXCEPT ![run] = Dropped(@)]
    /\ PrintReport

\* The main thread is gone, but not the threads of its pools.
Leave ==
    /\ ended' = TRUE /\ plan' = <<>> /\ busy' = FALSE
    /\ folders' = {} /\ queue' = {} /\ pool' = FALSE
    /\ lines' = {} /\ processed' = 0 /\ skipped' = 0 /\ downloaded' = 0
    /\ printed' = FALSE
    /\ UNCHANGED <<library, run, read, loaded, todo, got>>

\* The exception of one folder ends the process without a report; a pool still
\* does what is queued.
FolderRaises ==
    /\ Phase = "download" /\ busy
    /\ \E f \in Folders : Collectable(f) /\ job[run][f] \in {"raised", "cancelled"}
    /\ pool => ~shutdown
    /\ job' = IF pool THEN job ELSE [job EXCEPT ![run] = Dropped(@)]
    /\ UNCHANGED <<meta, shutdown>>
    /\ Leave

\* The keyboard is read between ui.start and ui.stop, on a terminal.
KeysRead == Phase = "download" /\ busy

PressQ ==
    /\ KeysRead /\ ~shutdown
    /\ shutdown' = TRUE
    /\ UNCHANGED <<library, plan, busy, ended, run, folders, queue, pool, refreshes, downloads,
                   report>>

\* Ctrl+C, or the end of the menu: what has begun in a pool goes on.
KeyboardInterrupt ==
    /\ ~ended
    /\ shutdown' = TRUE
    /\ meta' = [f \in Folders |-> IF meta[f] \in {"cached", "read"} /\ f \in Series
                                  THEN meta[f] ELSE "none"]
    /\ job' = IF Phase # "download" \/ ~busy THEN job
              ELSE IF pool THEN [job EXCEPT ![run] = Dropped(@)]
              ELSE [job EXCEPT ![run] = [f \in Folders |-> "none"]]
    /\ Leave

Next ==
    \/ Choose \/ Scan \/ BeginRefresh \/ EndRefresh \/ Validate
    \/ BeginDownload \/ EndDownload \/ LeavePool \/ FolderRaises
    \/ PressQ \/ KeyboardInterrupt
    \/ \E f \in Folders : ReadConfig(f) \/ WriteConfig(f) \/ Collect(f)
    \/ \E r \in Runs, f \in Folders : 
        \/ StartFolder(r, f) \/ DownloadItem(r, f) \/ DropResults(r, f)
        \/ TryItem(r, f) \/ LeaveFolder(r, f)

Spec == Init /\ [][Next]_vars

----------------------------------------------------------------------------
(***************************************************************************)
(* Properties.                                                             *)
(***************************************************************************)
\* What this command's folders downloaded and, unless q came between, read.
Arrived == {p \in lines \X Episodes : p[2] \in got[run][p[1]]}

\* The report counts every folder of this command once, and of what arrived
\* only what their own threads brought and read, whatever the threads of an earlier
\* command still do; only an interruption leaves folders, or arrivals, out.
ReportExact ==
    printed =>
        /\ lines \subseteq queue /\ (~shutdown => lines = queue)
        /\ processed + skipped = Cardinality(lines)
        /\ downloaded = Cardinality(Arrived)

Wanted(c) == {e \in c.list : e <= c.count}

\* A folder that threads of an earlier command were still at when this one began.
Lingering(f) == \E r \in Runs : r < run /\ job[r][f] # "none"

\* An episode that a config lists stays listed, and the number of episodes is
\* not lowered, whatever Cinemeta answers and whichever threads write the config:
\* only where a thread of an earlier command lingers may the config that it had
\* loaded come back, or one that was read after it did.
WantedKept ==
    [][\A f \in Folders :
          config[f].count # 0 /\ config[f].listed =>
              \/ /\ config'[f].count >= config[f].count
                 /\ Wanted(config[f]) \subseteq Wanted(config'[f])
              \/ Lingering(f)]_vars

=============================================================================
