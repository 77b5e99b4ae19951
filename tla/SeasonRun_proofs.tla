-------------------------- MODULE SeasonRun_proofs --------------------------
(***************************************************************************)
(* Proofs about SeasonRun, for a season of any length, any retry budget,   *)
(* any number of workers and any number of runs.                           *)
(***************************************************************************)
EXTENDS SeasonRun, EpisodeScan_proofs, TLAPS

(***************************************************************************)
(* Where an episode of the task is.  Around the rounds this takes more     *)
(* than the properties say: nothing is in flight before and after them, a  *)
(* parallel round leaves nothing in `items', what has been reported is in  *)
(* flight no more even when the main thread has gone, and only a run that  *)
(* was interrupted stops its pool early or sees the flag, which the next   *)
(* command may have cleared meanwhile.                                     *)
(***************************************************************************)
Apart ==
    /\ queue \cap items = {} /\ queue \cap InFlight = {}
    /\ queue \cap completed = {} /\ queue \cap failed = {}
    /\ items \cap InFlight = {} /\ items \cap completed = {} /\ items \cap failed = {}
    /\ InFlight \cap completed = {} /\ InFlight \cap failed = {}
    /\ completed \cap failed = {}

Accounted ==
    /\ phase \in {"parallel", "drain"} =>
          missing = queue \cup items \cup InFlight \cup completed \cup failed
    /\ phase \in {"parallel", "drain", "stopping", "wrapup", "aborted"} => Apart
    /\ phase \in {"off", "wrapup", "closing"} => InFlight = {}
    /\ phase = "parallel" => items = {}
    /\ shutdown \/ phase = "stopping" => interrupted
    /\ phase = "wrapup" /\ ~interrupted => missing = queue \cup completed \cup failed
    /\ ReportComplete

\* Disjoint on the five places and on the three, without the indices.
LEMMA DisjointFive ==
    ASSUME NEW a, NEW b, NEW c, NEW d, NEW e
    PROVE  Disjoint(<<a, b, c, d, e>>) <=>
               /\ a \cap b = {} /\ a \cap c = {} /\ a \cap d = {} /\ a \cap e = {}
               /\ b \cap c = {} /\ b \cap d = {} /\ b \cap e = {}
               /\ c \cap d = {} /\ c \cap e = {} /\ d \cap e = {}
<1> DEFINE s == <<a, b, c, d, e>>
<1>1. DOMAIN s = 1 .. 5
    OBVIOUS
<1>2. s[1] = a /\ s[2] = b /\ s[3] = c /\ s[4] = d /\ s[5] = e
    OBVIOUS
<1> HIDE DEF s
<1>3. \A i \in 1 .. 5 : i = 1 \/ i = 2 \/ i = 3 \/ i = 4 \/ i = 5
    OBVIOUS
<1>4. 1 \in 1 .. 5 /\ 2 \in 1 .. 5 /\ 3 \in 1 .. 5 /\ 4 \in 1 .. 5 /\ 5 \in 1 .. 5
    OBVIOUS
<1>5. Disjoint(s) <=> \A i, j \in 1 .. 5 : i # j => s[i] \cap s[j] = {}
    BY <1>1 DEF Disjoint
<1>6. ASSUME Disjoint(s)
      PROVE  /\ a \cap b = {} /\ a \cap c = {} /\ a \cap d = {} /\ a \cap e = {}
             /\ b \cap c = {} /\ b \cap d = {} /\ b \cap e = {}
             /\ c \cap d = {} /\ c \cap e = {} /\ d \cap e = {}
    BY <1>2, <1>4, <1>5, <1>6
<1>7. ASSUME /\ a \cap b = {} /\ a \cap c = {} /\ a \cap d = {} /\ a \cap e = {}
             /\ b \cap c = {} /\ b \cap d = {} /\ b \cap e = {}
             /\ c \cap d = {} /\ c \cap e = {} /\ d \cap e = {},
             NEW i \in 1 .. 5, NEW j \in 1 .. 5, i # j
      PROVE  s[i] \cap s[j] = {}
    BY <1>2, <1>3, <1>7
<1>8. Disjoint(s) <=> /\ a \cap b = {} /\ a \cap c = {} /\ a \cap d = {} /\ a \cap e = {}
                      /\ b \cap c = {} /\ b \cap d = {} /\ b \cap e = {}
                      /\ c \cap d = {} /\ c \cap e = {} /\ d \cap e = {}
    BY <1>5, <1>6, <1>7
<1>. QED BY <1>8 DEF s

\* The accounting is kept by every step: an episode only moves from one place
\* to the next.
LEMMA AccountedInit == Init => Accounted
BY DEF Init, Accounted, ReportComplete, InFlight, NoJobs, Apart

LEMMA AccountedMain == TypeOK /\ Accounted /\ Main => Accounted'
<1> SUFFICES ASSUME TypeOK, Accounted, Main
             PROVE  Accounted'
    OBVIOUS
<1> USE DEF tasks, report, controls, disk
<1>1. CASE Setup
    <2>1. InFlight' = {}
        BY <1>1 DEF Setup, Accounted, InFlight
    <2>2. /\ completed' = {} /\ failed' = {} /\ items' = {} /\ queue' = missing'
          /\ \/ phase' \in {"parallel", "drain"}
             \/ phase' = "off" /\ missing' = {}
          /\ shutdown' = FALSE
        BY <1>1 DEF Setup
    <2>. QED BY <2>1, <2>2 DEF Accounted, Apart, ReportComplete
<1>2. CASE StartRound
    <2>1. InFlight' = queue /\ queue \in SUBSET Episodes
        BY <1>2 DEF StartRound, InFlight, TypeOK
    <2>. QED BY <1>2, <2>1 DEF StartRound, Accounted, Apart, ReportComplete
<1>3. CASE LeaveParallel
    <2>1. InFlight' = InFlight
        BY <1>3 DEF LeaveParallel, InFlight
    <2>. QED BY <1>3, <2>1 DEF LeaveParallel, Accounted, Apart, ReportComplete
<1>4. CASE StartDrainRound
    <2>1. InFlight' = InFlight
        BY <1>4 DEF StartDrainRound, InFlight
    <2>. QED BY <1>4, <2>1 DEF StartDrainRound, Accounted, Apart, ReportComplete
<1>5. CASE DrainInterrupted
    <2>1. InFlight' = InFlight
        BY <1>5 DEF DrainInterrupted, InFlight
    <2>. QED BY <1>5, <2>1 DEF DrainInterrupted, Accounted, Apart, ReportComplete
<1>6. CASE FinishDrain
    <2>1. InFlight' = InFlight
        BY <1>6 DEF FinishDrain, InFlight
    <2>. QED BY <1>6, <2>1 DEF FinishDrain, Accounted, Apart, ReportComplete
<1>7. CASE ShutdownBreak
    <2>1. InFlight' = InFlight
        BY <1>7 DEF ShutdownBreak, InFlight
    <2>. QED BY <1>7, <2>1 DEF ShutdownBreak, Accounted, Apart, ReportComplete
<1>8. CASE PoolStopped
    <2>1. InFlight' = {}
        BY <1>8 DEF PoolStopped, InFlight, NoJobs
    <2>. QED BY <1>8, <2>1 DEF PoolStopped, Accounted, Apart, ReportComplete
<1>9. CASE MarkLeftovers
    <2>1. InFlight' = InFlight
        BY <1>9 DEF MarkLeftovers, InFlight
    <2>. QED BY <1>9, <2>1 DEF MarkLeftovers, Accounted, Apart, ReportComplete
<1>10. CASE Close
    <2>1. InFlight' = InFlight
        BY <1>10 DEF Close, InFlight
    <2>. QED BY <1>10, <2>1 DEF Close, Accounted, Apart, ReportComplete
<1>11. CASE AbortedExit
    <2>1. InFlight' = {}
        BY <1>11 DEF AbortedExit, Exit, InFlight, NoJobs
    <2>. QED BY <1>11, <2>1 DEF AbortedExit, Exit, Accounted, Apart, ReportComplete
<1>12. ASSUME NEW e \in Episodes, DrainNext(e)
       PROVE  Accounted'
    <2>1. InFlight' = {e}
        BY <1>12 DEF DrainNext, InFlight, TypeOK
    <2>. QED BY <1>12, <2>1 DEF DrainNext, Accounted, Apart, ReportComplete
<1>13. ASSUME NEW e \in Episodes,
              CollectSuccess(e) \/ CollectFailure(e) \/ CollectRetry(e)
                  \/ CollectException(e) \/ CollectRaises(e)
       PROVE  Accounted'
    <2>1. /\ job' = [job EXCEPT ![e] = "idle"] /\ job[e] # "idle"
          /\ phase \in {"parallel", "drain"}
        BY <1>13 DEF CollectSuccess, CollectFailure, CollectRetry, CollectException,
                     CollectRaises, Collecting
    <2>2. InFlight' = InFlight \ {e} /\ e \in InFlight
        BY <2>1 DEF InFlight, TypeOK
    <2>3. CASE CollectSuccess(e)
        BY <2>1, <2>2, <2>3 DEF CollectSuccess, Accounted, Apart, ReportComplete
    <2>4. CASE CollectFailure(e)
        BY <2>1, <2>2, <2>4 DEF CollectFailure, Accounted, Apart, ReportComplete
    <2>5. CASE CollectRetry(e)
        BY <2>1, <2>2, <2>5 DEF CollectRetry, Accounted, Apart, ReportComplete
    <2>6. CASE CollectException(e) \/ CollectRaises(e)
        BY <2>1, <2>2, <2>6 DEF CollectException, CollectRaises, Abandon, Accounted, Apart,
                                ReportComplete
    <2>. QED BY <1>13, <2>3, <2>4, <2>5, <2>6
<1>. QED BY <1>1, <1>2, <1>3, <1>4, <1>5, <1>6, <1>7, <1>8, <1>9, <1>10, <1>11,
            <1>12, <1>13 DEF Main

\* A worker's step moves its own episode from one state to another; the episode
\* stays in flight until the main thread collects it.
LEMMA WorkerMoves ==
    ASSUME TypeOK, NEW e \in Episodes, Worker(e)
    PROVE  /\ UNCHANGED workerUnchanged
           /\ InFlight' = InFlight
           /\ \A f \in Episodes \ {e} : job'[f] = job[f]
           /\ e \in InFlight
<1> USE DEF Worker, SlotRefused, SkipExisting, HasSlot, Begin, SaveMarker, Stream, FirstBytes,
            SaveStarted, SaveRaises, RejectResponse, Stall, DiscardPart, Rename, Accept,
            Invalidate, ValidationErrs, GiveUp, Raise, Interrupt
<1>1. UNCHANGED workerUnchanged
    OBVIOUS
<1>2. job[e] # "idle"
    BY DEF Saving
<1>3. \E s \in JobStates \ {"idle"} : job' = [job EXCEPT ![e] = s]
    <2>1. CASE RejectResponse(e)
        BY <1>2, <2>1 DEF TypeOK
    <2>2. CASE SaveRaises(e)
        <3>1. \E s \in {"raised", "active"} : job' = [job EXCEPT ![e] = s]
            BY <2>2 DEF TypeOK
        <3>. QED BY <3>1 DEF JobStates, Running, Downloading, Finished
    <2>3. CASE ~RejectResponse(e) /\ ~SaveRaises(e)
        BY <2>3 DEF JobStates, Running, Downloading, Finished
    <2>. QED BY <2>1, <2>2, <2>3
<1>. QED BY <1>1, <1>2, <1>3 DEF InFlight, TypeOK

LEMMA AccountedNext == TypeOK /\ Accounted /\ [Next]_vars => Accounted'
<1> SUFFICES ASSUME TypeOK, Accounted, [Next]_vars
             PROVE  Accounted'
    OBVIOUS
<1> USE DEF tasks, report, controls, disk
<1>1. CASE Main
    BY <1>1, AccountedMain
<1>2. ASSUME NEW e \in Episodes, Worker(e)
      PROVE  Accounted'
    BY <1>2, WorkerMoves DEF workerUnchanged, Accounted, Apart, ReportComplete
<1>3. CASE Environment
    <2>1. CASE KeyboardInterrupt
        <3>1. InFlight' \subseteq InFlight
            BY <2>1 DEF KeyboardInterrupt, InFlight, NoJobs
        <3>2. phase # "off" /\ phase # "aborted"
            BY <2>1 DEF KeyboardInterrupt
        <3>3. InFlight \cap completed = {} /\ InFlight \cap failed = {}
              /\ completed \cap failed = {}
            BY <3>2 DEF Accounted, Apart, ReportComplete, TypeOK, Phases
        <3>. QED BY <2>1, <3>1, <3>3
                 DEF KeyboardInterrupt, Abandon, Accounted, Apart, ReportComplete
    <2>2. CASE Crash
        <3>1. InFlight' = {}
            BY <2>2 DEF Crash, Exit, InFlight, NoJobs
        <3>. QED BY <2>2, <3>1 DEF Crash, Exit, Accounted, Apart, ReportComplete
    <2>3. CASE Dial \/ RequestShutdown \/ ClearShutdown
                   \/ \E e \in Episodes : FileArrives(e) \/ UserDeletes(e)
        <3> USE DEF Dial, RequestShutdown, ClearShutdown, FileArrives, UserDeletes
        <3>1. InFlight' = InFlight
            BY <2>3 DEF InFlight
        <3>2. phase' = phase /\ missing' = missing /\ queue' = queue /\ items' = items
              /\ completed' = completed /\ failed' = failed /\ ended' = ended
            BY <2>3
        <3>3. \/ UNCHANGED <<shutdown, interrupted>>
              \/ phase # "off" /\ shutdown' = TRUE /\ interrupted' = TRUE
              \/ phase # "off" /\ shutdown' = FALSE /\ interrupted' = interrupted
            BY <2>3
        <3>. QED BY <3>1, <3>2, <3>3 DEF Accounted, Apart, ReportComplete
    <2>. QED BY <1>3, <2>1, <2>2, <2>3 DEF Environment
<1>4. CASE UNCHANGED vars
    BY <1>4 DEF vars, Accounted, Apart, ReportComplete, InFlight
<1>. QED BY <1>1, <1>2, <1>3, <1>4 DEF Next
----------------------------------------------------------------------------
(***************************************************************************)
(* Types.  The cursor needs the accounting: it moves to the first episode  *)
(* of the task that is left, or behind the last one.                       *)
(***************************************************************************)
LEMMA StateOfType ==
    ASSUME NEW l \in Libraries
    PROVE  StateOf(l) \in StateFiles
BY DEF StateOf, StateFiles, Libraries

LEMMA LoadedType ==
    ASSUME NEW l \in Libraries, NEW s \in StateFiles
    PROVE  /\ Loaded(l, s) \in Libraries
           /\ Loaded(l, s).fails = s.fails /\ Loaded(l, s).recorded = s.recorded
           /\ Loaded(l, s).file = l.file /\ Loaded(l, s).part = l.part
BY DEF Loaded, StateFiles, Libraries

LEMMA MarkFailedFields ==
    ASSUME NEW l \in Libraries, NEW gone \in SUBSET Episodes
    PROVE  LET c == MarkFailed(l, gone)
           IN /\ c \in Libraries
              /\ c.file = l.file /\ c.part = l.part /\ c.recorded = l.recorded
              /\ c.inProgress = l.inProgress \ gone
              /\ \A e \in Episodes :
                    c.fails[e] = IF e \in gone THEN l.fails[e] + 1 ELSE l.fails[e]
<1>1. [e \in Episodes |-> IF e \in gone THEN l.fails[e] + 1 ELSE l.fails[e]]
          \in [Episodes -> Nat]
    BY DEF Libraries
<1>. QED BY <1>1 DEF MarkFailed, Libraries

\* setup_season_folder in one step, as EpisodeQueue proves it in four.
LEMMA PrepareFields ==
    ASSUME NEW l \in Libraries, NEW aged \in SUBSET Episodes, NEW old \in SUBSET Episodes
    PROVE  LET p == Prepare(l, aged, old)
           IN /\ p.found \in SUBSET Episodes
              /\ p.state \in StateFiles
              /\ p.lib \in Libraries
              /\ p.lib.recorded = l.recorded /\ p.state.recorded = l.recorded
              /\ p.lib.fails = p.state.fails
              /\ \A e \in Episodes : p.lib.fails[e] <= l.fails[e]
<1> DEFINE aging == [l EXCEPT !.expired = old]
           seen == AutoReset(aging, aged)
           found == Missing(seen, FALSE, 0)
           moved == ConvertTiny(seen)
           synced == SyncInProgress(moved)
           pruned == PruneStarted(synced)
           resume == AfterResume(found, synced)
           order == AfterPriority(found, pruned, resume)
           cursor == IF found # {} THEN First(found, order)
                     ELSE IF pruned.cursor <= LastEpisode THEN LastEpisode + 1
                     ELSE pruned.cursor
           p == Prepare(l, aged, old)
<1>1. p = [found |-> found, state |-> StateOf(synced),
           lib |-> [pruned EXCEPT !.cursor = cursor]]
    BY DEF Prepare
<1>2. aging \in Libraries /\ aging.fails = l.fails /\ aging.recorded = l.recorded
    BY DEF Libraries
<1> HIDE DEF aging
<1>3. /\ seen \in Libraries /\ seen.recorded = l.recorded
      /\ \A e \in Episodes : seen.fails[e] <= l.fails[e]
    <2>1. seen \in Libraries
        BY <1>2, AutoResetType
    <2>2. seen.recorded = l.recorded
        BY <1>2 DEF AutoReset, Libraries
    <2>3. ASSUME NEW e \in Episodes
          PROVE  seen.fails[e] <= l.fails[e]
        <3>1. seen.fails[e] \in {0, aging.fails[e]}
            BY <1>2 DEF AutoReset, Libraries
        <3>. QED BY <1>2, <3>1 DEF Libraries
    <2>. QED BY <2>1, <2>2, <2>3
<1>4. found \in SUBSET Episodes
    BY <1>3, MissingType
<1> HIDE DEF seen, found
<1>5. moved \in Libraries /\ moved.recorded = seen.recorded /\ moved.fails = seen.fails
    BY <1>3, ConvertTinyType DEF ConvertTiny, Libraries
<1> HIDE DEF moved
<1>6. synced \in Libraries /\ synced.recorded = moved.recorded /\ synced.fails = moved.fails
    BY <1>5, SyncInProgressType DEF SyncInProgress, Libraries
<1> HIDE DEF synced
<1>7. pruned \in Libraries /\ pruned.recorded = synced.recorded /\ pruned.fails = synced.fails
    BY <1>6, PruneStartedType, PruneStartedFields
<1>8. HasFirst(found, order)
    <2>1. HasFirst(found, resume)
        BY <1>4, AscendingFirst, HoistFirst DEF AfterResume
    <2>. QED BY <2>1, HoistFirst DEF AfterPriority
<1> HIDE DEF pruned, order
<1>9. cursor \in 1 .. (LastEpisode + 1)
    <2>1. found # {} => First(found, order) \in Episodes
        BY <1>4, <1>8, FirstInQueue
    <2>. QED BY <1>7, <2>1, LastEpisodeAssumption DEF Libraries, Episodes
<1> HIDE DEF cursor
<1>10. /\ p.lib \in Libraries
       /\ p.lib.recorded = pruned.recorded /\ p.lib.fails = pruned.fails
    BY <1>1, <1>7, <1>9 DEF Libraries
<1>11. p.found = found /\ p.state = StateOf(synced)
    BY <1>1
<1>12. p.state \in StateFiles
    BY <1>6, <1>11, StateOfType
<1>13. p.state.recorded = synced.recorded /\ p.state.fails = synced.fails
    BY <1>11 DEF StateOf
<1> HIDE DEF p
<1>14. \A e \in Episodes : p.lib.fails[e] <= l.fails[e]
    BY <1>3, <1>5, <1>6, <1>7, <1>10
<1>. QED BY <1>3, <1>4, <1>5, <1>6, <1>7, <1>10, <1>11, <1>12, <1>13, <1>14 DEF p

\* A non-empty set of episodes has a smallest and a largest one.
LEMMA SmallestExists ==
    ASSUME NEW S \in SUBSET Episodes, S # {}
    PROVE  \E m \in S : \A f \in S : m <= f
<1>1. PICK e \in S : \A f \in S \ {e} : <<e, f>> \in Ascending(S)
    BY AscendingFirst DEF HasFirst
<1>2. ASSUME NEW f \in S
      PROVE  e <= f
    <2>1. e \in Int /\ f \in Int
        BY DEF Episodes
    <2>2. f # e => e < f
        BY <1>1 DEF Ascending
    <2>. QED BY <2>1, <2>2
<1>. QED BY <1>2

LEMMA SmallestEpisode ==
    ASSUME NEW S \in SUBSET Episodes, S # {}
    PROVE  (CHOOSE m \in S : \A f \in S : m <= f) \in S
BY SmallestExists

LEMMA LargestEpisode ==
    ASSUME NEW S \in SUBSET Episodes, S # {}
    PROVE  (CHOOSE m \in S : \A f \in S : f <= m) \in S
<1> DEFINE Flip(e) == LastEpisode + 1 - e
           T == {e \in Episodes : Flip(e) \in S}
<1>1. \A e \in Episodes : Flip(e) \in Episodes /\ Flip(Flip(e)) = e
    BY LastEpisodeAssumption DEF Episodes
<1>2. \A e \in S : Flip(e) \in T
    BY <1>1
<1>3. PICK t \in T : \A u \in T : t <= u
    BY <1>2, SmallestExists
<1>4. ASSUME NEW f \in S
      PROVE  f <= Flip(t)
    <2>1. t <= Flip(f)
        BY <1>2, <1>3
    <2>2. t \in Int /\ f \in Int
        BY DEF Episodes
    <2>. QED BY <2>1, <2>2, LastEpisodeAssumption
<1>. QED BY <1>4

LEMMA FreshStart ==
    /\ [e \in Episodes |-> 0] \in [Episodes -> Nat]
    /\ NoJobs \in [Episodes -> JobStates]
    /\ NoCopies \in [Episodes -> SUBSET Episodes]
    /\ 0 \in 0 .. MaxAttempts
BY MaxAttemptsAssumption DEF NoJobs, NoCopies, JobStates

\* What is written is a state file, whether it is written or not.
LEMMA WriteType ==
    ASSUME TypeOK, NEW state \in StateFiles, Write(state)
    PROVE  saved' \in StateFiles /\ faulty' \in BOOLEAN
BY DEF Write, TypeOK

LEMMA FinishSaveType ==
    ASSUME TypeOK, NEW e \in Episodes, FinishSave(e)
    PROVE  /\ saved' \in StateFiles /\ faulty' \in BOOLEAN
           /\ copied' \in [Episodes -> SUBSET Episodes]
<1>1. StateOf(lib) \in StateFiles /\ copied[e] \in SUBSET Episodes
    BY StateOfType DEF TypeOK
<1>2. [StateOf(lib) EXCEPT !.recorded = copied[e]] \in StateFiles
    BY <1>1 DEF StateFiles
<1>3. saved' \in StateFiles /\ faulty' \in BOOLEAN
    BY <1>2, WriteType DEF FinishSave
<1>4. copied' \in [Episodes -> SUBSET Episodes]
    BY DEF FinishSave, TypeOK
<1>. QED BY <1>3, <1>4

LEMMA StartSaveType ==
    ASSUME TypeOK, NEW e \in Episodes, StartSave(e), lib' \in Libraries
    PROVE  /\ saved' \in StateFiles /\ faulty' \in BOOLEAN
           /\ copied' \in [Episodes -> SUBSET Episodes]
<1>1. lib'.recorded \in SUBSET Episodes
    BY DEF Libraries
<1>. QED BY <1>1 DEF StartSave, TypeOK

LEMMA TypeInit == Init => TypeOK
<1> SUFFICES ASSUME Init PROVE TypeOK
    OBVIOUS
<1>1. lib \in Libraries
    <2>1. PICK file \in [Episodes -> {"none", "tiny", "full"}], part \in SUBSET Episodes :
              lib = [file |-> file, part |-> part, recorded |-> {},
                     fails |-> [e \in Episodes |-> 0], inProgress |-> {}, started |-> {},
                     expired |-> {}, listed |-> FALSE, available |-> {}, cursor |-> 1]
        BY DEF Init
    <2>2. file \in [Episodes -> {"none", "tiny", "full", "other"}]
        OBVIOUS
    <2>3. 1 \in 1 .. (LastEpisode + 1)
        BY LastEpisodeAssumption
    <2>. QED BY <2>1, <2>2, <2>3, FreshStart DEF Libraries
<1>2. saved \in StateFiles
    BY <1>1, StateOfType DEF Init
<1>3. /\ phase = "off" /\ round = 0 /\ missing = {} /\ queue = {} /\ items = {}
      /\ job = NoJobs /\ completed = {} /\ failed = {} /\ attempts = [e \in Episodes |-> 0]
      /\ indeterminate = FALSE /\ limit = 1 /\ shutdown = FALSE /\ runs = 0
      /\ ended = "never" /\ copied = NoCopies /\ faulty = FALSE /\ interrupted = FALSE
    BY DEF Init
<1>4. limit \in 1 .. Pool /\ runs \in 0 .. MaxRuns
    BY <1>3, PoolAssumption, MaxRunsAssumption
<1>5. job \in [Episodes -> JobStates] /\ attempts \in [Episodes -> Nat]
          /\ round \in 0 .. MaxAttempts /\ copied \in [Episodes -> SUBSET Episodes]
    BY <1>3, FreshStart
<1>. QED BY <1>1, <1>2, <1>3, <1>4, <1>5 DEF TypeOK, Phases

\* The preparation of a run, its pieces named: what it finds, what it saves on the
\* way, and what it ends with.
LEMMA SetupPieces ==
    ASSUME TypeOK, Setup
    PROVE  \E aged \in SUBSET Episodes, old \in SUBSET Episodes :
            LET ready == Prepare(lib, aged, old)
                there == AlreadyThere(ready.lib, ready.found)
                kept == AddDownload(ready.lib, there \ ready.lib.recorded)
                left == ready.found \ there
                closed == RecordExisting(kept, {})
                opening == IF there # {} THEN StateOf(kept) ELSE ready.state
                last == IF left = {} THEN StateOf(closed) ELSE opening
                previous == IF left = {} THEN opening
                            ELSE IF there # {} THEN ready.state ELSE saved
            IN /\ missing' = left
               /\ \/ saved' = last /\ faulty' = FALSE
                  \/ saved' = previous /\ faulty' = TRUE
               /\ \/ /\ left = {} /\ lib' = Loaded(closed, saved') /\ phase' = "off"
                     /\ ended' = IF faulty' THEN "unsaved" ELSE "closed"
                  \/ /\ left # {} /\ lib' = kept /\ phase' \in {"parallel", "drain"}
                     /\ ended' = "never"
<1>1. lib.started \in SUBSET Episodes
    BY DEF TypeOK, Libraries
<1>2. {e \in Episodes : lib.fails[e] > 0} \in SUBSET Episodes
    OBVIOUS
<1>3. PICK aged \in SUBSET {e \in Episodes : lib.fails[e] > 0}, old \in SUBSET lib.started :
            LET ready == Prepare(lib, aged, old)
                there == AlreadyThere(ready.lib, ready.found)
                kept == AddDownload(ready.lib, there \ ready.lib.recorded)
                left == ready.found \ there
                closed == RecordExisting(kept, {})
                opening == IF there # {} THEN StateOf(kept) ELSE ready.state
                last == IF left = {} THEN StateOf(closed) ELSE opening
                previous == IF left = {} THEN opening
                            ELSE IF there # {} THEN ready.state ELSE saved
            IN /\ missing' = left
               /\ queue' = left /\ items' = {}
               /\ \/ saved' = last /\ faulty' = FALSE
                  \/ runs < FaultyRuns /\ saved' = previous /\ faulty' = TRUE
               /\ IF left = {}
                  THEN /\ lib' = Loaded(closed, saved')
                       /\ phase' = "off"
                       /\ ended' = IF faulty' THEN "unsaved" ELSE "closed"
                  ELSE /\ lib' = kept
                       /\ phase' = IF limit' > 1 /\ Cardinality(left) > 1
                                   THEN "parallel" ELSE "drain"
                       /\ ended' = "never"
    BY DEF Setup
<1> DEFINE ready == Prepare(lib, aged, old)
           there == AlreadyThere(ready.lib, ready.found)
           kept == AddDownload(ready.lib, there \ ready.lib.recorded)
           left == ready.found \ there
           closed == RecordExisting(kept, {})
           opening == IF there # {} THEN StateOf(kept) ELSE ready.state
           last == IF left = {} THEN StateOf(closed) ELSE opening
           previous == IF left = {} THEN opening
                       ELSE IF there # {} THEN ready.state ELSE saved
<1>4. /\ missing' = left
      /\ \/ saved' = last /\ faulty' = FALSE
         \/ saved' = previous /\ faulty' = TRUE
      /\ \/ /\ left = {} /\ lib' = Loaded(closed, saved') /\ phase' = "off"
            /\ ended' = IF faulty' THEN "unsaved" ELSE "closed"
         \/ /\ left # {} /\ lib' = kept /\ phase' \in {"parallel", "drain"}
            /\ ended' = "never"
    <2> HIDE DEF last, previous, closed, kept, left
    <2>. QED BY <1>3 DEF last, previous, closed, kept, left, opening, there, ready
<1>5. aged \in SUBSET Episodes /\ old \in SUBSET Episodes
    BY <1>1, <1>2
<1>. QED BY <1>4, <1>5

\* The pieces are what they should be, and only lower what has failed.
LEMMA PieceTypes ==
    ASSUME NEW l \in Libraries, NEW aged \in SUBSET Episodes, NEW old \in SUBSET Episodes
    PROVE  LET ready == Prepare(l, aged, old)
               there == AlreadyThere(ready.lib, ready.found)
               kept == AddDownload(ready.lib, there \ ready.lib.recorded)
               closed == RecordExisting(kept, {})
           IN /\ ready.found \in SUBSET Episodes /\ ready.state \in StateFiles
              /\ kept \in Libraries /\ closed \in Libraries
              /\ StateOf(kept) \in StateFiles /\ StateOf(closed) \in StateFiles
<1> DEFINE ready == Prepare(l, aged, old)
           there == AlreadyThere(ready.lib, ready.found)
           kept == AddDownload(ready.lib, there \ ready.lib.recorded)
           closed == RecordExisting(kept, {})
<1>1. ready.found \in SUBSET Episodes /\ ready.lib \in Libraries /\ ready.state \in StateFiles
    BY PrepareFields
<1> HIDE DEF ready
<1>2. there \in SUBSET Episodes
    BY <1>1 DEF AlreadyThere
<1> HIDE DEF there
<1>3. kept \in Libraries
    BY <1>1, <1>2, AddDownloadType
<1> HIDE DEF kept
<1>4. closed \in Libraries
    BY <1>3, RecordExistingType
<1> HIDE DEF closed
<1>5. StateOf(kept) \in StateFiles /\ StateOf(closed) \in StateFiles
    BY <1>3, <1>4, StateOfType
<1>. QED BY <1>1, <1>3, <1>4, <1>5 DEF closed, kept, there, ready

LEMMA TypeMain == TypeOK /\ Accounted /\ Main => TypeOK'
<1> SUFFICES ASSUME TypeOK, Accounted, Main
             PROVE  TypeOK'
    OBVIOUS
<1> USE MaxAttemptsAssumption, MaxRunsAssumption, PoolAssumption
<1> USE DEF TypeOK, tasks, report, controls, disk, Phases
<1>1. CASE Setup
    <2>1. PICK aged \in SUBSET Episodes, old \in SUBSET Episodes :
            LET ready == Prepare(lib, aged, old)
                there == AlreadyThere(ready.lib, ready.found)
                kept == AddDownload(ready.lib, there \ ready.lib.recorded)
                left == ready.found \ there
                closed == RecordExisting(kept, {})
                opening == IF there # {} THEN StateOf(kept) ELSE ready.state
                last == IF left = {} THEN StateOf(closed) ELSE opening
                previous == IF left = {} THEN opening
                            ELSE IF there # {} THEN ready.state ELSE saved
            IN /\ missing' = left
               /\ \/ saved' = last /\ faulty' = FALSE
                  \/ saved' = previous /\ faulty' = TRUE
               /\ \/ /\ left = {} /\ lib' = Loaded(closed, saved') /\ phase' = "off"
                     /\ ended' = IF faulty' THEN "unsaved" ELSE "closed"
                  \/ /\ left # {} /\ lib' = kept /\ phase' \in {"parallel", "drain"}
                     /\ ended' = "never"
        BY <1>1, SetupPieces
    <2> DEFINE ready == Prepare(lib, aged, old)
               there == AlreadyThere(ready.lib, ready.found)
               kept == AddDownload(ready.lib, there \ ready.lib.recorded)
               closed == RecordExisting(kept, {})
    <2>2. /\ ready.found \in SUBSET Episodes /\ ready.state \in StateFiles
          /\ kept \in Libraries /\ closed \in Libraries
          /\ StateOf(kept) \in StateFiles /\ StateOf(closed) \in StateFiles
        BY PieceTypes
    <2>3. /\ saved' \in {StateOf(closed), StateOf(kept), ready.state, saved}
          /\ faulty' \in BOOLEAN
          /\ lib' = kept \/ lib' = Loaded(closed, saved')
          /\ missing' = ready.found \ there
          /\ phase' \in {"off", "parallel", "drain"} /\ ended' \in {"never", "closed", "unsaved"}
        BY <2>1
    <2> HIDE DEF ready, there, kept, closed
    <2>4. saved' \in StateFiles
        BY <2>2, <2>3
    <2>5. lib' \in Libraries
        BY <2>2, <2>3, <2>4, LoadedType
    <2>6. missing' \in SUBSET Episodes /\ queue' = missing' /\ items' = {}
        BY <1>1, <2>2, <2>3 DEF Setup
    <2>8. limit' \in 1 .. Pool /\ indeterminate' \in BOOLEAN /\ shutdown' = FALSE
             /\ interrupted' = FALSE
             /\ runs' = runs + 1 /\ runs < MaxRuns /\ round' = 0 /\ completed' = {}
             /\ failed' = {} /\ attempts' = [e \in Episodes |-> 0] /\ job' = job
             /\ copied' = copied
        BY <1>1 DEF Setup
    <2>9. runs' \in 0 .. MaxRuns /\ attempts' \in [Episodes -> Nat]
             /\ round' \in 0 .. MaxAttempts
        BY <2>8, FreshStart
    <2>. QED BY <2>3, <2>4, <2>5, <2>6, <2>8, <2>9
<1>2. CASE StartRound
    BY <1>2 DEF StartRound, JobStates
<1>3. CASE LeaveParallel
    BY <1>3 DEF LeaveParallel
<1>4. CASE StartDrainRound
    BY <1>4 DEF StartDrainRound
<1>5. CASE DrainInterrupted
    BY <1>5 DEF DrainInterrupted
<1>6. CASE FinishDrain
    BY <1>6 DEF FinishDrain
<1>7. CASE ShutdownBreak
    BY <1>7 DEF ShutdownBreak, JobStates, Finished
<1>8. CASE PoolStopped
    BY <1>8 DEF PoolStopped, NoJobs, JobStates
<1>9. CASE MarkLeftovers
    <2>1. lib' \in Libraries
        BY <1>9, MarkFailedFields DEF MarkLeftovers
    <2>. QED BY <1>9, <2>1 DEF MarkLeftovers
<1>10. CASE Close
    <2> DEFINE closed == RecordExisting(lib, {})
    <2>1. closed \in Libraries
        BY RecordExistingType
    <2>2. Write(StateOf(closed)) /\ lib' = Loaded(closed, saved')
             /\ ended' \in {"closed", "unsaved"}
        BY <1>10 DEF Close
    <2> HIDE DEF closed
    <2>3. saved' \in StateFiles /\ faulty' \in BOOLEAN
        BY <2>1, <2>2, StateOfType, WriteType
    <2>4. lib' \in Libraries
        BY <2>1, <2>2, <2>3, LoadedType
    <2>. QED BY <1>10, <2>2, <2>3, <2>4, FreshStart DEF Close
<1>11. CASE AbortedExit
    <2>1. lib' \in Libraries
        BY <1>11, LoadedType DEF AbortedExit, Exit
    <2>. QED BY <1>11, <2>1, FreshStart DEF AbortedExit, Exit
<1>12. ASSUME NEW e \in Episodes, DrainNext(e)
       PROVE  TypeOK'
    <2>1. lib' \in Libraries
        <3>1. e \in 1 .. (LastEpisode + 1)
            BY LastEpisodeAssumption DEF Episodes
        <3>. QED BY <1>12, <3>1 DEF DrainNext, Libraries
    <2>. QED BY <1>12, <2>1 DEF DrainNext, JobStates
<1>13. ASSUME NEW e \in Episodes, CollectSuccess(e)
       PROVE  TypeOK'
    <2> DEFINE done == completed \cup {e}
               pending == missing \ done
               recorded == AddDownload(lib, {e})
               next == IF phase = "drain" THEN e + 1
                       ELSE IF pending = {}
                            THEN 1 + CHOOSE m \in missing : \A f \in missing : f <= m
                       ELSE CHOOSE m \in pending : \A f \in pending : m <= f
    <2>1. lib' = [recorded EXCEPT !.cursor = next] /\ Write(StateOf(recorded))
             /\ completed' = done
        BY <1>13 DEF CollectSuccess
    <2>2. recorded \in Libraries
        BY AddDownloadType
    <2>3. phase # "drain" => e \in missing
        BY <1>13 DEF CollectSuccess, Collecting, Accounted, InFlight
    <2>4. phase # "drain" => (CHOOSE m \in missing : \A f \in missing : f <= m) \in Episodes
        BY <2>3, LargestEpisode
    <2>5. pending # {} => (CHOOSE m \in pending : \A f \in pending : m <= f) \in Episodes
        <3>1. pending \in SUBSET Episodes
            OBVIOUS
        <3> HIDE DEF pending
        <3>. QED BY <3>1, SmallestEpisode
    <2>6. next \in 1 .. (LastEpisode + 1)
        BY <2>4, <2>5, LastEpisodeAssumption DEF Episodes
    <2> HIDE DEF next, recorded
    <2>7. lib' \in Libraries
        BY <2>1, <2>2, <2>6 DEF Libraries
    <2>8. saved' \in StateFiles /\ faulty' \in BOOLEAN
        BY <2>1, <2>2, StateOfType, WriteType
    <2>. QED BY <1>13, <2>1, <2>7, <2>8 DEF CollectSuccess, JobStates
<1>14. ASSUME NEW e \in Episodes, CollectFailure(e)
       PROVE  TypeOK'
    <2>1. lib' \in Libraries
        BY <1>14, MarkFailedFields DEF CollectFailure
    <2>. QED BY <1>14, <2>1 DEF CollectFailure, JobStates
<1>15. ASSUME NEW e \in Episodes, CollectRetry(e)
       PROVE  TypeOK'
    BY <1>15 DEF CollectRetry, JobStates
<1>16. ASSUME NEW e \in Episodes, CollectException(e)
       PROVE  TypeOK'
    BY <1>16 DEF CollectException, Abandon, JobStates
<1>17. ASSUME NEW e \in Episodes, CollectRaises(e)
       PROVE  TypeOK'
    <2>1. lib' \in Libraries
        BY <1>17, AddDownloadType DEF CollectRaises
    <2>. QED BY <1>17, <2>1 DEF CollectRaises, Abandon, JobStates
<1>. QED BY <1>1, <1>2, <1>3, <1>4, <1>5, <1>6, <1>7, <1>8, <1>9, <1>10, <1>11,
            <1>12, <1>13, <1>14, <1>15, <1>16, <1>17 DEF Main

LEMMA TypeWorker ==
    ASSUME TypeOK, NEW e \in Episodes, Worker(e)
    PROVE  TypeOK'
<1> USE DEF TypeOK, tasks, report, controls, disk, workerUnchanged, JobStates, Running,
            Downloading, Finished
<1>1. CASE SlotRefused(e)
    BY <1>1 DEF SlotRefused
<1>2. CASE SkipExisting(e)
    <2>1. lib' \in Libraries
        BY <1>2, AddDownloadType DEF SkipExisting
    <2>. QED BY <1>2, <2>1 DEF SkipExisting
<1>3. CASE Begin(e)
    <2>1. lib' \in Libraries
        BY <1>3 DEF Begin, Libraries
    <2>2. saved' \in StateFiles /\ faulty' \in BOOLEAN /\ copied' \in [Episodes -> SUBSET Episodes]
        BY <1>3, <2>1, StartSaveType DEF Begin
    <2>3. job' \in [Episodes -> JobStates] /\ attempts' \in [Episodes -> Nat]
        BY <1>3 DEF Begin
    <2>4. UNCHANGED workerUnchanged
        BY <1>3 DEF Begin
    <2>. QED BY <2>1, <2>2, <2>3, <2>4
<1>4. CASE Stream(e)
    <2>1. lib' \in Libraries
        BY <1>4 DEF Stream, Libraries
    <2>. QED BY <1>4, <2>1 DEF Stream
<1>12. CASE FirstBytes(e)
    <2>1. lib' \in Libraries
        BY <1>12 DEF FirstBytes, Libraries
    <2>2. saved' \in StateFiles /\ faulty' \in BOOLEAN /\ copied' \in [Episodes -> SUBSET Episodes]
        BY <1>12, <2>1, StartSaveType DEF FirstBytes
    <2>. QED BY <1>12, <2>1, <2>2 DEF FirstBytes
<1>13. CASE SaveMarker(e) \/ SaveStarted(e)
    <2>1. saved' \in StateFiles /\ faulty' \in BOOLEAN /\ copied' \in [Episodes -> SUBSET Episodes]
        BY <1>13, FinishSaveType DEF SaveMarker, SaveStarted
    <2>2. job' \in [Episodes -> JobStates]
        BY <1>13 DEF SaveMarker, SaveStarted
    <2>3. UNCHANGED <<lib, attempts, workerUnchanged>>
        BY <1>13 DEF SaveMarker, SaveStarted
    <2>. QED BY <2>1, <2>2, <2>3
<1>14. CASE SaveRaises(e)
    <2>1. job' \in [Episodes -> JobStates]
        BY <1>14 DEF SaveRaises
    <2>. QED BY <1>14, <2>1 DEF SaveRaises
<1>15. CASE ValidationErrs(e)
    BY <1>15 DEF ValidationErrs
<1>5. CASE RejectResponse(e)
    <2>1. lib' \in Libraries
        BY <1>5 DEF RejectResponse, Libraries
    <2>. QED BY <1>5, <2>1 DEF RejectResponse
<1>6. CASE Stall(e)
    BY <1>6 DEF Stall
<1>7. CASE DiscardPart(e)
    <2>1. lib' \in Libraries
        BY <1>7 DEF DiscardPart, Libraries
    <2>. QED BY <1>7, <2>1 DEF DiscardPart
<1>8. CASE Rename(e)
    <2>1. PICK size \in {"tiny", "full"} :
              lib' = [lib EXCEPT !.part = @ \ {e}, !.file[e] = size]
        BY <1>8 DEF Rename
    <2>2. lib' \in Libraries
        BY <2>1 DEF Libraries
    <2>. QED BY <1>8, <2>2 DEF Rename
<1>9. CASE Accept(e)
    BY <1>9 DEF Accept
<1>10. CASE Invalidate(e)
    <2>1. lib' \in Libraries
        BY <1>10 DEF Invalidate, Libraries
    <2>. QED BY <1>10, <2>1 DEF Invalidate
<1>11. CASE GiveUp(e) \/ Raise(e) \/ Interrupt(e)
    BY <1>11 DEF GiveUp, Raise, Interrupt
<1>. QED BY <1>1, <1>2, <1>3, <1>4, <1>5, <1>6, <1>7, <1>8, <1>9, <1>10, <1>11, <1>12,
            <1>13, <1>14, <1>15 DEF Worker

LEMMA TypeNext == TypeOK /\ Accounted /\ [Next]_vars => TypeOK'
<1> SUFFICES ASSUME TypeOK, Accounted, [Next]_vars
             PROVE  TypeOK'
    OBVIOUS
<1> USE DEF TypeOK, tasks, report, controls, disk, Phases
<1>1. CASE Dial \/ RequestShutdown \/ ClearShutdown
    BY <1>1 DEF Dial, RequestShutdown, ClearShutdown
<1>2. CASE KeyboardInterrupt
    <2>1. job' \in [Episodes -> JobStates] /\ copied' \in [Episodes -> SUBSET Episodes]
        BY <1>2, FreshStart DEF KeyboardInterrupt
    <2>. QED BY <1>2, <2>1, MaxAttemptsAssumption DEF KeyboardInterrupt, Abandon
<1>3. CASE Crash
    <2>1. lib' \in Libraries
        BY <1>3, LoadedType DEF Crash, Exit
    <2>. QED BY <1>3, <2>1, FreshStart DEF Crash, Exit
<1>4. ASSUME NEW e \in Episodes, FileArrives(e) \/ UserDeletes(e)
      PROVE  TypeOK'
    <2>1. lib' \in Libraries
        BY <1>4 DEF FileArrives, UserDeletes, Libraries
    <2>. QED BY <1>4, <2>1 DEF FileArrives, UserDeletes
<1>5. CASE UNCHANGED vars
    BY <1>5 DEF vars
<1>. QED BY <1>1, <1>2, <1>3, <1>4, <1>5, TypeMain, TypeWorker DEF Next, Environment

----------------------------------------------------------------------------
(***************************************************************************)
(* What the state file says.                                               *)
(***************************************************************************)
\* Whoever holds a slot is marked in memory, too, so that no save of another
\* worker or of the main thread takes the marker away.
Writing == {e \in Episodes : job[e] \in Downloading}

Marked ==
    /\ Holding \subseteq lib.inProgress
    /\ MarkedWhileDownloading

LEMMA StateOfFields ==
    ASSUME NEW l
    PROVE  /\ StateOf(l).recorded = l.recorded /\ StateOf(l).fails = l.fails
           /\ StateOf(l).inProgress = l.inProgress
BY DEF StateOf

LEMMA AddDownloadMarkers ==
    ASSUME NEW l \in Libraries, NEW done \in SUBSET Episodes
    PROVE  AddDownload(l, done).inProgress = l.inProgress \ done
<1> DEFINE m == ClearMarkers(l, done)
<1>1. m \in Libraries /\ m.inProgress = l.inProgress \ done
    BY ClearMarkersFields DEF ClearMarkers, Libraries
<1>2. AddDownload(l, done) = [m EXCEPT !.recorded = @ \cup done]
    BY DEF AddDownload
<1> HIDE DEF m
<1>. QED BY <1>1, <1>2 DEF Libraries

\* A save writes everything, or the file system fails and is known to have failed.
LEMMA WriteOutcomes ==
    ASSUME NEW state, Write(state)
    PROVE  \/ saved' = state /\ faulty' = faulty
           \/ saved' = saved /\ faulty' = TRUE
BY DEF Write

\* What a worker's save writes, its copy of the records apart, is what memory says.
LEMMA FinishSaveFields ==
    ASSUME TypeOK, NEW e \in Episodes, FinishSave(e)
    PROVE  \/ /\ saved'.fails = lib.fails /\ saved'.inProgress = lib.inProgress
             /\ faulty' = faulty
           \/ saved' = saved /\ faulty' = TRUE
<1> DEFINE state == [StateOf(lib) EXCEPT !.recorded = copied[e]]
<1>1. state.fails = lib.fails /\ state.inProgress = lib.inProgress
    BY DEF StateOf
<1>2. Write(state)
    BY DEF FinishSave
<1> HIDE DEF state
<1>. QED BY <1>1, <1>2, WriteOutcomes

LEMMA MarkedNext ==
    TypeOK /\ Accounted /\ Marked /\ [Next]_vars => Marked'
<1> SUFFICES ASSUME TypeOK, Accounted, Marked, [Next]_vars
             PROVE  Marked'
    OBVIOUS
<1> USE DEF Marked, MarkedWhileDownloading, Writing, disk
<1>1. ASSUME Holding' = {}
      PROVE  Marked'
    BY <1>1 DEF Holding, Running
<1>2. ASSUME Holding' \subseteq Holding, Writing' \subseteq Writing,
             lib'.inProgress = lib.inProgress, saved'.inProgress = saved.inProgress,
             faulty' = faulty \/ faulty' = TRUE
      PROVE  Marked'
    BY <1>2
<1>3. Holding \subseteq InFlight /\ Writing \subseteq Holding /\ Writing' \subseteq Holding'
    BY DEF Holding, InFlight, Running, Downloading
<1>4. CASE Main
    <2>1. CASE Setup \/ MarkLeftovers \/ Close
        <3>1. InFlight = {} /\ job' = job
            BY <2>1 DEF Setup, MarkLeftovers, Close, Accounted
        <3>. QED BY <1>1, <1>3, <3>1 DEF Holding
    <2>2. CASE PoolStopped \/ AbortedExit
        BY <1>1, <2>2 DEF PoolStopped, AbortedExit, Exit, NoJobs, Holding, Running, Downloading
    <2>3. CASE StartRound \/ LeaveParallel \/ StartDrainRound \/ DrainInterrupted
                   \/ FinishDrain \/ ShutdownBreak
        <3>1. lib' = lib /\ saved' = saved /\ faulty' = faulty
            BY <2>3 DEF StartRound, LeaveParallel, StartDrainRound, DrainInterrupted,
                   FinishDrain, ShutdownBreak
        <3>2. Holding' \subseteq Holding /\ Writing' \subseteq Writing
            BY <2>3 DEF StartRound, LeaveParallel, StartDrainRound, DrainInterrupted,
                   FinishDrain, ShutdownBreak, Holding, Running, Downloading, TypeOK
        <3>. QED BY <1>2, <3>1, <3>2
    <2>4. ASSUME NEW e \in Episodes, DrainNext(e)
          PROVE  Marked'
        <3>1. saved' = saved /\ faulty' = faulty /\ lib'.inProgress = lib.inProgress
            BY <2>4 DEF DrainNext, TypeOK, Libraries
        <3>2. Holding' \subseteq Holding /\ Writing' \subseteq Writing
            BY <2>4 DEF DrainNext, Holding, Running, Downloading, TypeOK
        <3>. QED BY <1>2, <3>1, <3>2
    <2>5. ASSUME NEW e \in Episodes, CollectRetry(e) \/ CollectException(e)
          PROVE  Marked'
        <3>1. saved' = saved /\ faulty' = faulty /\ lib' = lib
            BY <2>5 DEF CollectRetry, CollectException
        <3>2. Holding' \subseteq Holding /\ Writing' \subseteq Writing
            BY <2>5 DEF CollectRetry, CollectException, Holding, Running, Downloading, TypeOK
        <3>. QED BY <1>2, <3>1, <3>2
    <2>6. ASSUME NEW e \in Episodes, CollectSuccess(e)
          PROVE  Marked'
        <3> DEFINE recorded == AddDownload(lib, {e})
        <3>1. Holding' = Holding \ {e} /\ Writing' = Writing \ {e}
            BY <2>6 DEF CollectSuccess, Holding, Running, Downloading, TypeOK
        <3>2. PICK c : lib' = [recorded EXCEPT !.cursor = c]
            BY <2>6 DEF CollectSuccess
        <3>3. Write(StateOf(recorded))
            BY <2>6 DEF CollectSuccess
        <3>4. recorded \in Libraries /\ recorded.inProgress = lib.inProgress \ {e}
            BY AddDownloadType, AddDownloadMarkers DEF TypeOK
        <3> HIDE DEF recorded
        <3>5. lib'.inProgress = lib.inProgress \ {e}
            BY <3>2, <3>4 DEF Libraries
        <3>6. saved'.inProgress = lib.inProgress \ {e} \/ faulty' = TRUE
            BY <3>3, <3>4, StateOfFields, WriteOutcomes
        <3>. QED BY <1>3, <3>1, <3>5, <3>6
    <2>7. ASSUME NEW e \in Episodes, CollectFailure(e) \/ CollectRaises(e)
          PROVE  Marked'
        <3>1. /\ Holding' = Holding \ {e} /\ e \notin Holding /\ Writing' = Writing
              /\ saved' = saved /\ faulty' = faulty
            BY <2>7 DEF CollectFailure, CollectRaises, Holding, Running, Downloading, TypeOK
        <3>2. lib'.inProgress = lib.inProgress \ {e} \/ lib' = lib
            BY <2>7, MarkFailedFields, AddDownloadMarkers DEF CollectFailure, CollectRaises, TypeOK
        <3>. QED BY <3>1, <3>2
    <2>. QED BY <1>4, <2>1, <2>2, <2>3, <2>4, <2>5, <2>6, <2>7 DEF Main
<1>5. ASSUME NEW e \in Episodes, Worker(e)
      PROVE  Marked'
    <2> USE DEF Holding, Running, Downloading, TypeOK
    <2>1. CASE \/ SlotRefused(e) \/ Stall(e) \/ Accept(e) \/ GiveUp(e) \/ Raise(e) \/ Interrupt(e)
               \/ SaveRaises(e) \/ ValidationErrs(e)
        <3> USE DEF SlotRefused, Stall, Accept, GiveUp, Raise, Interrupt, SaveRaises,
                    ValidationErrs
        <3>1. saved' = saved /\ lib' = lib /\ (faulty' = faulty \/ faulty' = TRUE)
            BY <2>1
        <3>2. Holding' \subseteq Holding /\ Writing' \subseteq Writing
            BY <2>1 DEF Saving
        <3>. QED BY <1>2, <3>1, <3>2
    <2>2. CASE \/ Stream(e) \/ FirstBytes(e) \/ RejectResponse(e) \/ DiscardPart(e) \/ Rename(e)
               \/ Invalidate(e)
        <3> USE DEF Stream, FirstBytes, StartSave, RejectResponse, DiscardPart, Rename, Invalidate
        <3>1. saved' = saved /\ faulty' = faulty /\ lib'.inProgress = lib.inProgress
            BY <2>2 DEF Libraries
        <3>2. Holding' \subseteq Holding /\ Writing' \subseteq Writing
            BY <2>2
        <3>. QED BY <1>2, <3>1, <3>2
    <2>3. CASE SkipExisting(e)
        <3>1. /\ saved' = saved /\ faulty' = faulty
              /\ Holding' = Holding /\ e \notin Holding /\ Writing' = Writing
              /\ lib' = AddDownload(lib, {e} \ lib.recorded)
            BY <2>3 DEF SkipExisting, HasSlot
        <3>2. lib'.inProgress = lib.inProgress \ ({e} \ lib.recorded)
            BY <3>1, AddDownloadMarkers
        <3>. QED BY <3>1, <3>2
    <2>4. CASE Begin(e)
        <3>1. /\ Holding' = Holding \cup {e} /\ Writing' = Writing
              /\ saved' = saved /\ faulty' = faulty
            BY <2>4 DEF Begin, HasSlot, StartSave
        <3>2. lib'.inProgress = lib.inProgress \cup {e}
            BY <2>4 DEF Begin, Libraries
        <3>. QED BY <3>1, <3>2
    <2>5. CASE SaveMarker(e) \/ SaveStarted(e)
        <3>1. Holding' = Holding /\ lib' = lib /\ FinishSave(e)
            BY <2>5 DEF SaveMarker, SaveStarted
        <3>2. \/ saved'.inProgress = lib.inProgress
              \/ faulty' = TRUE
            BY <3>1, FinishSaveFields
        <3>. QED BY <1>3, <3>1, <3>2
    <2>. QED BY <1>5, <2>1, <2>2, <2>3, <2>4, <2>5 DEF Worker
<1>6. CASE Environment
    <2>1. CASE Crash
        BY <1>1, <2>1 DEF Crash, Exit, NoJobs, Holding, Running, Downloading
    <2>2. CASE Dial \/ RequestShutdown \/ ClearShutdown \/ KeyboardInterrupt
        <3>1. /\ lib' = lib /\ saved' = saved /\ faulty' = faulty
              /\ Holding' \subseteq Holding /\ Writing' \subseteq Writing
            BY <2>2 DEF Dial, RequestShutdown, ClearShutdown, KeyboardInterrupt, NoJobs,
                   Holding, Running, Downloading
        <3>. QED BY <1>2, <3>1
    <2>3. ASSUME NEW e \in Episodes, FileArrives(e) \/ UserDeletes(e)
          PROVE  Marked'
        <3>1. /\ saved' = saved /\ faulty' = faulty /\ lib'.inProgress = lib.inProgress
              /\ Holding' = Holding /\ Writing' = Writing
            BY <2>3 DEF FileArrives, UserDeletes, TypeOK, Libraries, Holding
        <3>. QED BY <1>2, <3>1
    <2>. QED BY <1>6, <2>1, <2>2, <2>3 DEF Environment
<1>7. CASE UNCHANGED vars
    BY <1>7 DEF vars, Holding
<1>. QED BY <1>4, <1>5, <1>6, <1>7 DEF Next

----------------------------------------------------------------------------
(***************************************************************************)
(* Results.  A success is in memory and its video in the folder from       *)
(* before it is counted, until the closing scan and save record all that   *)
(* there is; what memory counts as failed and the state file does not yet  *)
(* is one failure of an episode the report has.                            *)
(***************************************************************************)
Durable ==
    /\ ReportedDownloadsKept
    /\ \A e \in Episodes : job[e] = "ok" => lib.file[e] = "full"

Budgeted ==
    \A e \in Episodes :
        /\ lib.fails[e] <= saved.fails[e] + 1
        /\ lib.fails[e] > saved.fails[e] => phase # "off" /\ e \in failed

\* What a step does to the counters, in memory and in the file.
OneFailure ==
    \A e \in Episodes :
        /\ phase # "off" /\ phase' # "off" /\ lib'.fails[e] > lib.fails[e] =>
              /\ lib'.fails[e] = lib.fails[e] + 1
              /\ e \in failed' \ failed
        /\ saved'.fails[e] > saved.fails[e] =>
              /\ saved'.fails[e] = saved.fails[e] + 1
              /\ e \in failed'

LEMMA RecordExistingResults ==
    ASSUME NEW l \in Libraries
    PROVE  LET c == RecordExisting(l, {})
           IN /\ c \in Libraries /\ c.file = l.file
              /\ l.recorded \cup Final(l) \subseteq c.recorded
              /\ \A e \in Episodes : c.fails[e] <= l.fails[e]
<1> DEFINE a == AddDownload(l, Final(l) \ l.recorded)
<1>1. /\ a \in Libraries /\ a.file = l.file
      /\ a.recorded = l.recorded \cup (Final(l) \ l.recorded)
      /\ \A e \in Episodes :
            a.fails[e] = IF e \in Final(l) \ l.recorded THEN 0 ELSE l.fails[e]
    BY AddDownloadFields DEF Final
<1>2. RecordExisting(l, {}) = ClearMarkers(a, {})
    BY DEF RecordExisting
<1> HIDE DEF a
<1>3. /\ RecordExisting(l, {}).recorded = a.recorded
      /\ \A e \in Episodes : RecordExisting(l, {}).fails[e] = a.fails[e]
    BY <1>1, <1>2, ClearMarkersFields
<1>4. \A e \in Episodes : a.fails[e] <= l.fails[e]
    BY <1>1 DEF Libraries
<1>5. \A e \in Episodes : RecordExisting(l, {}).fails[e] <= l.fails[e]
    BY <1>3, <1>4
<1>. QED BY <1>1, <1>3, <1>5, RecordExistingType, RecordExistingFields

\* Preparing a run raises no counter, and a season that is complete is closed with
\* every video on record.
LEMMA SetupResults ==
    ASSUME TypeOK, Setup
    PROVE  /\ \A e \in Episodes :
                 /\ saved' = saved \/ saved'.fails[e] <= lib.fails[e]
                 /\ \/ lib'.fails[e] <= saved'.fails[e]
                    \/ saved' = saved /\ lib'.fails[e] <= lib.fails[e]
           /\ phase' = "off" /\ ended' = "closed" =>
                 \A e \in Episodes : lib'.file[e] = "full" => e \in saved'.recorded
<1>1. PICK aged \in SUBSET Episodes, old \in SUBSET Episodes :
            LET ready == Prepare(lib, aged, old)
                there == AlreadyThere(ready.lib, ready.found)
                kept == AddDownload(ready.lib, there \ ready.lib.recorded)
                left == ready.found \ there
                closed == RecordExisting(kept, {})
                opening == IF there # {} THEN StateOf(kept) ELSE ready.state
                last == IF left = {} THEN StateOf(closed) ELSE opening
                previous == IF left = {} THEN opening
                            ELSE IF there # {} THEN ready.state ELSE saved
            IN /\ missing' = left
               /\ \/ saved' = last /\ faulty' = FALSE
                  \/ saved' = previous /\ faulty' = TRUE
               /\ \/ /\ left = {} /\ lib' = Loaded(closed, saved') /\ phase' = "off"
                     /\ ended' = IF faulty' THEN "unsaved" ELSE "closed"
                  \/ /\ left # {} /\ lib' = kept /\ phase' \in {"parallel", "drain"}
                     /\ ended' = "never"
    BY SetupPieces
<1> DEFINE ready == Prepare(lib, aged, old)
           there == AlreadyThere(ready.lib, ready.found)
           kept == AddDownload(ready.lib, there \ ready.lib.recorded)
           closed == RecordExisting(kept, {})
<1>2. \/ /\ lib' = Loaded(closed, saved')
         /\ saved' \in {StateOf(closed), StateOf(kept), ready.state}
         /\ ended' = "closed" => saved' = StateOf(closed)
      \/ /\ lib' = kept /\ saved' \in {StateOf(kept), ready.state, saved}
         /\ phase' # "off"
    BY <1>1
<1>3. /\ kept \in Libraries /\ closed \in Libraries /\ ready.state \in StateFiles
      /\ StateOf(kept) \in StateFiles /\ StateOf(closed) \in StateFiles
    BY PieceTypes DEF TypeOK
<1>4. /\ ready.found \in SUBSET Episodes /\ ready.lib \in Libraries
      /\ ready.state.fails = ready.lib.fails
      /\ \A e \in Episodes : ready.lib.fails[e] <= lib.fails[e]
    BY PrepareFields DEF TypeOK
<1> HIDE DEF ready
<1>5. there \in SUBSET Episodes
    BY <1>4 DEF AlreadyThere
<1>6. \A e \in Episodes :
          kept.fails[e] = IF e \in there \ ready.lib.recorded THEN 0 ELSE ready.lib.fails[e]
    BY <1>4, <1>5, AddDownloadFields
<1> HIDE DEF there, kept
<1>7. closed.file = kept.file /\ Final(kept) \subseteq closed.recorded
          /\ \A e \in Episodes : closed.fails[e] <= kept.fails[e]
    BY <1>3, RecordExistingResults
<1> HIDE DEF closed
<1>8. \A e \in Episodes :
          /\ closed.fails[e] \in Nat /\ kept.fails[e] \in Nat
          /\ ready.state.fails[e] \in Nat /\ lib.fails[e] \in Nat
    BY <1>3 DEF TypeOK, Libraries, StateFiles
<1>9. \A e \in Episodes :
          /\ closed.fails[e] <= kept.fails[e]
          /\ kept.fails[e] <= ready.state.fails[e]
          /\ ready.state.fails[e] <= lib.fails[e]
    <2> SUFFICES ASSUME NEW e \in Episodes
                 PROVE  kept.fails[e] <= ready.state.fails[e]
        BY <1>4, <1>7
    <2>. QED BY <1>4, <1>6, <1>8
<1>10. \A e \in Episodes :
           /\ StateOf(closed).fails[e] <= lib.fails[e]
           /\ StateOf(kept).fails[e] <= lib.fails[e]
           /\ ready.state.fails[e] <= lib.fails[e]
           /\ kept.fails[e] <= StateOf(kept).fails[e]
           /\ kept.fails[e] <= ready.state.fails[e]
           /\ kept.fails[e] <= lib.fails[e]
    BY <1>8, <1>9 DEF StateOf
<1>11. CASE /\ lib' = Loaded(closed, saved')
            /\ saved' \in {StateOf(closed), StateOf(kept), ready.state}
            /\ ended' = "closed" => saved' = StateOf(closed)
    <2>1. saved' \in StateFiles
        BY <1>3, <1>11
    <2>2. lib'.fails = saved'.fails /\ lib'.file = kept.file
        BY <1>3, <1>7, <1>11, <2>1, LoadedType
    <2>3. \A e \in Episodes : saved'.fails[e] <= lib.fails[e] /\ lib'.fails[e] <= saved'.fails[e]
        BY <1>10, <1>11, <2>1, <2>2 DEF StateFiles
    <2>4. ended' = "closed" => saved'.recorded = closed.recorded
        BY <1>11, StateOfFields
    <2>5. \A e \in Episodes : lib'.file[e] = "full" => e \in Final(kept)
        BY <2>2 DEF Final
    <2>6. ended' = "closed" => \A e \in Episodes : lib'.file[e] = "full" => e \in saved'.recorded
        BY <1>7, <2>4, <2>5
    <2>. QED BY <2>3, <2>6
<1>12. CASE /\ lib' = kept /\ saved' \in {StateOf(kept), ready.state, saved}
            /\ phase' # "off"
    BY <1>10, <1>12
<1>. QED BY <1>2, <1>11, <1>12

\* A worker touches the file and the record of its own episode only, and never
\* raises a counter; what it saves are memory's counters.
LEMMA WorkerResults ==
    ASSUME TypeOK, NEW e \in Episodes, Worker(e)
    PROVE  /\ \A f \in Episodes \ {e} : lib'.file[f] = lib.file[f]
           /\ job'[e] = "ok" => lib'.file[e] = "full"
           /\ lib.recorded \subseteq lib'.recorded
           /\ \A f \in Episodes : lib'.fails[f] <= lib.fails[f]
           /\ saved' = saved \/ saved'.fails = lib'.fails
<1> DEFINE Lowered == \A f \in Episodes : lib'.fails[f] <= lib.fails[f]
<1> USE DEF disk
<1>1. /\ lib \in Libraries /\ job \in [Episodes -> JobStates]
      /\ \A f \in Episodes : lib.fails[f] \in Nat
    BY DEF TypeOK, Libraries
<1>2. CASE \/ SlotRefused(e) \/ Stall(e) \/ Accept(e) \/ GiveUp(e) \/ Raise(e) \/ Interrupt(e)
           \/ SaveMarker(e) \/ SaveStarted(e) \/ SaveRaises(e) \/ ValidationErrs(e)
    <2>1. lib' = lib
        BY <1>2 DEF SlotRefused, Stall, Accept, GiveUp, Raise, Interrupt, SaveMarker,
               SaveStarted, SaveRaises, ValidationErrs
    <2>2. job'[e] = "ok" => lib.file[e] = "full"
        BY <1>1, <1>2 DEF SlotRefused, Stall, Accept, GiveUp, Raise, Interrupt, SaveMarker,
               SaveStarted, SaveRaises, ValidationErrs
    <2>3. saved' = saved \/ saved'.fails = lib.fails
        BY <1>2, FinishSaveFields DEF SlotRefused, Stall, Accept, GiveUp, Raise, Interrupt,
               SaveMarker, SaveStarted, SaveRaises, ValidationErrs
    <2>4. Lowered
        BY <1>1, <2>1
    <2>. QED BY <2>1, <2>2, <2>3, <2>4
<1>3. CASE RejectResponse(e) \/ DiscardPart(e) \/ Rename(e) \/ Invalidate(e)
    <2>1. /\ saved' = saved /\ job'[e] # "ok"
          /\ lib'.recorded = lib.recorded /\ lib'.fails = lib.fails
        BY <1>1, <1>3 DEF RejectResponse, DiscardPart, Rename, Invalidate, Libraries
    <2>2. \E x : lib'.file = [lib.file EXCEPT ![e] = x]
        <3>1. CASE RejectResponse(e) \/ Invalidate(e)
            <4>1. lib' = [lib EXCEPT !.file[e] = "none"]
                BY <3>1 DEF RejectResponse, Invalidate
            <4>2. lib'.file = [lib.file EXCEPT ![e] = "none"]
                BY <1>1, <4>1 DEF Libraries
            <4>. QED BY <4>2
        <3>2. CASE DiscardPart(e)
            <4>1. lib'.file = lib.file
                BY <1>1, <3>2 DEF DiscardPart, Libraries
            <4>2. lib.file = [lib.file EXCEPT ![e] = lib.file[e]]
                BY <1>1 DEF Libraries
            <4>. QED BY <4>1, <4>2
        <3>3. CASE Rename(e)
            <4>1. PICK size \in {"tiny", "full"} :
                      lib' = [lib EXCEPT !.part = @ \ {e}, !.file[e] = size]
                BY <3>3 DEF Rename
            <4>2. lib'.file = [lib.file EXCEPT ![e] = size]
                BY <1>1, <4>1 DEF Libraries
            <4>. QED BY <4>2
        <3>. QED BY <1>3, <3>1, <3>2, <3>3
    <2>3. \A f \in Episodes \ {e} : lib'.file[f] = lib.file[f]
        BY <1>1, <2>2 DEF Libraries
    <2>4. Lowered
        BY <1>1, <2>1
    <2>. QED BY <2>1, <2>3, <2>4
<1>4. CASE SkipExisting(e)
    <2>1. /\ saved' = saved /\ job'[e] # "ok"
          /\ lib' = AddDownload(lib, {e} \ lib.recorded)
        BY <1>1, <1>4 DEF SkipExisting
    <2>2. /\ lib'.file = lib.file /\ lib.recorded \subseteq lib'.recorded
          /\ \A f \in Episodes : lib'.fails[f] = 0 \/ lib'.fails[f] = lib.fails[f]
        BY <1>1, <2>1, AddDownloadFields
    <2>3. Lowered
        BY <1>1, <2>2
    <2>. QED BY <2>1, <2>2, <2>3
<1>5. CASE Begin(e)
    <2>1. saved' = saved /\ job'[e] # "ok"
        BY <1>1, <1>5 DEF Begin, StartSave
    <2>2. /\ lib'.recorded = lib.recorded /\ lib'.fails = lib.fails
          /\ lib'.file = [lib.file EXCEPT ![e] = "none"]
        BY <1>1, <1>5 DEF Begin, Libraries
    <2>3. \A f \in Episodes \ {e} : lib'.file[f] = lib.file[f]
        BY <1>1, <2>2 DEF Libraries
    <2>4. Lowered
        BY <1>1, <2>2
    <2>. QED BY <2>1, <2>2, <2>3, <2>4
<1>6. CASE Stream(e) \/ FirstBytes(e)
    <2>1. saved' = saved /\ job'[e] # "ok"
        BY <1>1, <1>6 DEF Stream, FirstBytes, StartSave
    <2>2. /\ lib'.recorded = lib.recorded /\ lib'.fails = lib.fails
          /\ lib'.file = lib.file
        BY <1>1, <1>6 DEF Stream, FirstBytes, Libraries
    <2>3. Lowered
        BY <1>1, <2>2
    <2>. QED BY <2>1, <2>2, <2>3
<1>. QED BY <1>2, <1>3, <1>4, <1>5, <1>6 DEF Worker

LEMMA DurableNext ==
    TypeOK /\ Accounted /\ Durable /\ [Next]_vars => Durable'
<1> SUFFICES ASSUME TypeOK, Accounted, Durable, [Next]_vars
             PROVE  Durable'
    OBVIOUS
<1> USE DEF Durable, ReportedDownloadsKept, tasks, report, controls, disk
<1>1. ASSUME completed' = {}, \A e \in Episodes : job'[e] # "ok",
             phase' # "off" \/ ended' # "closed"
      PROVE  Durable'
    BY <1>1
<1>2. ASSUME completed' = completed, phase # "off", phase' # "off",
             lib'.file = lib.file, lib.recorded \subseteq lib'.recorded,
             \A e \in Episodes : job'[e] = "ok" => job[e] = "ok"
      PROVE  Durable'
    BY <1>2
<1>3. CASE Main
    <2>1. CASE Setup
        <3>1. \A e \in Episodes : job'[e] = "idle"
            BY <2>1 DEF Setup, Accounted, InFlight
        <3>2. completed' = {}
            BY <2>1 DEF Setup
        <3>. QED BY <2>1, <3>1, <3>2, SetupResults
    <2>2. CASE AbortedExit
        BY <1>1, <2>2 DEF AbortedExit, Exit, NoJobs
    <2>3. CASE StartRound \/ LeaveParallel \/ StartDrainRound \/ DrainInterrupted
                   \/ FinishDrain \/ ShutdownBreak \/ PoolStopped
        <3>1. lib' = lib /\ completed' = completed /\ phase # "off" /\ phase' # "off"
            BY <2>3 DEF StartRound, LeaveParallel, StartDrainRound, DrainInterrupted,
                   FinishDrain, ShutdownBreak, PoolStopped
        <3>2. \A e \in Episodes : job'[e] = "ok" => job[e] = "ok"
            BY <2>3 DEF StartRound, LeaveParallel, StartDrainRound, DrainInterrupted,
                   FinishDrain, ShutdownBreak, PoolStopped, NoJobs
        <3>. QED BY <1>2, <3>1, <3>2
    <2>4. CASE MarkLeftovers
        <3>1. completed' = completed /\ job' = job /\ phase # "off" /\ phase' # "off"
            BY <2>4 DEF MarkLeftovers
        <3>2. lib'.file = lib.file /\ lib'.recorded = lib.recorded
            BY <2>4, MarkFailedFields DEF MarkLeftovers, TypeOK
        <3>. QED BY <1>2, <3>1, <3>2
    <2>5. CASE Close
        <3> DEFINE closed == RecordExisting(lib, {})
        <3>1. /\ completed' = completed /\ job' = job /\ phase # "off" /\ phase' = "off"
              /\ lib' = Loaded(closed, saved') /\ Write(StateOf(closed))
              /\ ended' = "closed" => saved' = StateOf(closed)
            BY <2>5 DEF Close
        <3>2. closed \in Libraries /\ closed.file = lib.file
              /\ lib.recorded \cup Final(lib) \subseteq closed.recorded
            BY RecordExistingResults DEF TypeOK
        <3> HIDE DEF closed
        <3>3. saved' \in StateFiles
            BY <3>1, <3>2, StateOfType, WriteType
        <3>4. lib'.file = lib.file
            BY <3>1, <3>2, <3>3, LoadedType
        <3>5. ended' = "closed" => saved'.recorded = closed.recorded
            BY <3>1, StateOfFields
        <3>6. {e \in Episodes : lib.file[e] = "full"} \subseteq Final(lib)
            BY DEF Final
        <3>. QED BY <3>1, <3>2, <3>4, <3>5, <3>6
    <2>6. ASSUME NEW e \in Episodes, DrainNext(e)
          PROVE  Durable'
        <3>1. completed' = completed /\ phase # "off" /\ phase' # "off"
                  /\ \A f \in Episodes : job'[f] = "ok" => job[f] = "ok"
            BY <2>6 DEF DrainNext, TypeOK
        <3>2. lib'.file = lib.file /\ lib'.recorded = lib.recorded
            BY <2>6 DEF DrainNext, TypeOK, Libraries
        <3>. QED BY <1>2, <3>1, <3>2
    <2>7. ASSUME NEW e \in Episodes, CollectSuccess(e)
          PROVE  Durable'
        <3> DEFINE recorded == AddDownload(lib, {e})
        <3>1. /\ phase' = phase /\ phase # "off" /\ job[e] = "ok"
              /\ completed' = completed \cup {e}
              /\ \A f \in Episodes : job'[f] = "ok" => job[f] = "ok"
            BY <2>7 DEF CollectSuccess, Collecting, TypeOK
        <3>2. PICK c : lib' = [recorded EXCEPT !.cursor = c]
            BY <2>7 DEF CollectSuccess
        <3>3. /\ recorded \in Libraries /\ recorded.file = lib.file
              /\ recorded.recorded = lib.recorded \cup {e}
            BY AddDownloadFields DEF TypeOK
        <3> HIDE DEF recorded
        <3>4. lib'.file = lib.file /\ lib'.recorded = lib.recorded \cup {e}
            BY <3>2, <3>3 DEF Libraries
        <3>. QED BY <3>1, <3>4
    <2>8. ASSUME NEW e \in Episodes,
                 CollectFailure(e) \/ CollectRetry(e) \/ CollectException(e)
          PROVE  Durable'
        <3>1. completed' = completed /\ phase # "off" /\ phase' # "off"
                  /\ \A f \in Episodes : job'[f] = "ok" => job[f] = "ok"
            BY <2>8 DEF CollectFailure, CollectRetry, CollectException, Collecting, Abandon,
                   TypeOK
        <3>2. lib'.file = lib.file /\ lib'.recorded = lib.recorded
            BY <2>8, MarkFailedFields
               DEF CollectFailure, CollectRetry, CollectException, TypeOK
        <3>. QED BY <1>2, <3>1, <3>2
    <2>9. ASSUME NEW e \in Episodes, CollectRaises(e)
          PROVE  Durable'
        <3>1. completed' = completed /\ phase # "off" /\ phase' # "off"
                  /\ \A f \in Episodes : job'[f] = "ok" => job[f] = "ok"
            BY <2>9 DEF CollectRaises, Abandon, TypeOK
        <3>2. lib'.file = lib.file /\ lib'.recorded = lib.recorded \cup {e}
            BY <2>9, AddDownloadFields DEF CollectRaises, TypeOK
        <3>. QED BY <1>2, <3>1, <3>2
    <2>. QED BY <1>3, <2>1, <2>2, <2>3, <2>4, <2>5, <2>6, <2>7, <2>8, <2>9 DEF Main
<1>4. ASSUME NEW e \in Episodes, Worker(e)
      PROVE  Durable'
    <2>1. /\ completed' = completed /\ phase' = phase /\ e \in InFlight
          /\ \A f \in Episodes \ {e} : job'[f] = job[f]
        BY <1>4, WorkerMoves DEF workerUnchanged
    <2>2. phase # "off" /\ e \notin completed
        BY <2>1 DEF Accounted, Apart, TypeOK, Phases
    <2>3. /\ \A f \in Episodes \ {e} : lib'.file[f] = lib.file[f]
          /\ job'[e] = "ok" => lib'.file[e] = "full"
          /\ lib.recorded \subseteq lib'.recorded
        BY <1>4, WorkerResults
    <2>4. \A f \in completed : f \in Episodes \ {e}
        BY <2>2 DEF TypeOK
    <2>. QED BY <2>1, <2>2, <2>3, <2>4
<1>5. CASE Environment
    <2>1. CASE Crash
        BY <1>1, <2>1 DEF Crash, Exit, NoJobs
    <2>2. CASE Dial \/ RequestShutdown \/ ClearShutdown \/ KeyboardInterrupt
        <3>1. lib' = lib /\ completed' = completed /\ phase # "off" /\ phase' # "off"
                  /\ \A e \in Episodes : job'[e] = "ok" => job[e] = "ok"
            BY <2>2 DEF Dial, RequestShutdown, ClearShutdown, KeyboardInterrupt, Abandon, NoJobs
        <3>. QED BY <1>2, <3>1
    <2>3. ASSUME NEW e \in Episodes, FileArrives(e)
          PROVE  Durable'
        <3>1. /\ completed' = completed /\ job' = job /\ phase' = phase /\ phase # "off"
              /\ lib.file[e] = "none" /\ lib' = [lib EXCEPT !.file[e] = "full"]
            BY <2>3 DEF FileArrives
        <3>2. lib'.recorded = lib.recorded
                  /\ \A f \in Episodes : lib.file[f] = "full" => lib'.file[f] = "full"
            BY <3>1 DEF TypeOK, Libraries
        <3>3. completed \subseteq Episodes
            BY DEF TypeOK
        <3>. QED BY <3>1, <3>2, <3>3
    <2>4. ASSUME NEW e \in Episodes, UserDeletes(e)
          PROVE  Durable'
        <3>1. /\ saved' = saved /\ completed' = completed /\ job' = job /\ ended' = ended
              /\ phase = "off" /\ phase' = "off" /\ lib' = [lib EXCEPT !.file[e] = "none"]
            BY <2>4 DEF UserDeletes
        <3>2. \A f \in Episodes : lib'.file[f] = "full" => lib.file[f] = "full"
            BY <3>1 DEF TypeOK, Libraries
        <3>3. \A f \in Episodes : job[f] # "ok"
            BY <3>1 DEF Accounted, InFlight
        <3>. QED BY <3>1, <3>2, <3>3
    <2>. QED BY <1>5, <2>1, <2>2, <2>3, <2>4 DEF Environment
<1>6. CASE UNCHANGED vars
    BY <1>6 DEF vars
<1>. QED BY <1>3, <1>4, <1>5, <1>6 DEF Next

LEMMA BudgetedNext ==
    TypeOK /\ Accounted /\ Budgeted /\ [Next]_vars => Budgeted' /\ OneFailure
<1> SUFFICES ASSUME TypeOK, Accounted, Budgeted, [Next]_vars
             PROVE  Budgeted' /\ OneFailure
    OBVIOUS
<1> USE DEF Budgeted, OneFailure, tasks, report, controls, disk
<1> DEFINE Lowered == \A e \in Episodes : lib'.fails[e] <= lib.fails[e]
<1>1. \A e \in Episodes : lib.fails[e] \in Nat /\ saved.fails[e] \in Nat
    BY DEF TypeOK, Libraries, StateFiles
<1>2. \A e \in Episodes : lib'.fails[e] \in Nat /\ saved'.fails[e] \in Nat
    BY TypeNext DEF TypeOK, Libraries, StateFiles
<1>3. ASSUME saved'.fails = saved.fails, Lowered,
             failed' = failed, phase # "off" => phase' # "off"
      PROVE  Budgeted' /\ OneFailure
    BY <1>1, <1>2, <1>3
<1>4. ASSUME saved'.fails = lib'.fails, Lowered, failed' = failed
      PROVE  Budgeted' /\ OneFailure
    BY <1>1, <1>2, <1>4
<1>5. ASSUME saved'.fails = saved.fails, lib'.fails = saved.fails, phase' = "off"
      PROVE  Budgeted' /\ OneFailure
    BY <1>1, <1>5
<1>6. CASE Main
    <2>1. CASE Setup
        <3>1. phase = "off"
            BY <2>1 DEF Setup
        <3>2. ASSUME NEW e \in Episodes
              PROVE  saved'.fails[e] <= saved.fails[e] /\ lib'.fails[e] <= saved'.fails[e]
            <4>1. lib.fails[e] <= saved.fails[e]
                BY <1>1, <3>1
            <4>2. saved' = saved \/ saved'.fails[e] <= lib.fails[e]
                BY <2>1, SetupResults
            <4>3. \/ lib'.fails[e] <= saved'.fails[e]
                  \/ saved' = saved /\ lib'.fails[e] <= lib.fails[e]
                BY <2>1, SetupResults
            <4>. QED BY <1>1, <1>2, <4>1, <4>2, <4>3
        <3>. QED BY <1>1, <1>2, <3>1, <3>2
    <2>2. CASE AbortedExit
        <3>1. saved' = saved /\ lib'.fails = saved.fails /\ phase' = "off"
            BY <2>2, LoadedType DEF AbortedExit, Exit, TypeOK
        <3>. QED BY <1>5, <3>1
    <2>3. CASE StartRound \/ LeaveParallel \/ StartDrainRound \/ DrainInterrupted
                   \/ FinishDrain \/ ShutdownBreak \/ PoolStopped
        <3>1. lib' = lib /\ saved' = saved /\ failed' = failed /\ phase' # "off"
            BY <2>3 DEF StartRound, LeaveParallel, StartDrainRound, DrainInterrupted,
                   FinishDrain, ShutdownBreak, PoolStopped
        <3>. QED BY <1>1, <1>3, <3>1
    <2>4. CASE MarkLeftovers
        <3>1. saved' = saved /\ phase # "off" /\ phase' # "off" /\ failed \subseteq failed'
            BY <2>4 DEF MarkLeftovers
        <3>2. CASE lib' = lib
            BY <1>1, <3>1, <3>2
        <3>3. CASE lib' = MarkFailed(lib, queue) /\ failed' = failed \cup queue
            <4>1. queue \cap failed = {}
                BY <2>4 DEF MarkLeftovers, Accounted, Apart
            <4>2. \A e \in Episodes :
                      lib'.fails[e] = IF e \in queue THEN lib.fails[e] + 1 ELSE lib.fails[e]
                BY <3>3, MarkFailedFields DEF TypeOK
            <4>. QED BY <1>1, <3>1, <3>3, <4>1, <4>2
        <3>. QED BY <2>4, <3>2, <3>3 DEF MarkLeftovers
    <2>5. CASE Close
        <3> DEFINE closed == RecordExisting(lib, {})
        <3>1. /\ failed' = failed /\ phase' = "off"
              /\ lib' = Loaded(closed, saved') /\ Write(StateOf(closed))
            BY <2>5 DEF Close
        <3>2. closed \in Libraries /\ \A e \in Episodes : closed.fails[e] <= lib.fails[e]
            BY RecordExistingResults DEF TypeOK
        <3> HIDE DEF closed
        <3>3. saved' \in StateFiles
            BY <3>1, <3>2, StateOfType, WriteType
        <3>4. lib'.fails = saved'.fails
            BY <3>1, <3>2, <3>3, LoadedType
        <3>5. CASE saved' = StateOf(closed)
            <4>1. saved'.fails = closed.fails
                BY <3>5, StateOfFields
            <4>. QED BY <1>4, <3>1, <3>2, <3>4, <4>1
        <3>6. CASE saved' = saved
            BY <1>5, <3>1, <3>4, <3>6
        <3>. QED BY <3>1, <3>5, <3>6, WriteOutcomes
    <2>6. ASSUME NEW e \in Episodes, DrainNext(e)
          PROVE  Budgeted' /\ OneFailure
        <3>1. saved' = saved /\ failed' = failed /\ phase' # "off"
            BY <2>6 DEF DrainNext
        <3>2. lib'.fails = lib.fails
            BY <2>6 DEF DrainNext, TypeOK, Libraries
        <3>. QED BY <1>1, <1>3, <3>1, <3>2
    <2>7. ASSUME NEW e \in Episodes, CollectSuccess(e)
          PROVE  Budgeted' /\ OneFailure
        <3> DEFINE recorded == AddDownload(lib, {e})
        <3>1. failed' = failed /\ phase' # "off" /\ Write(StateOf(recorded))
            BY <2>7 DEF CollectSuccess, Collecting
        <3>2. PICK c : lib' = [recorded EXCEPT !.cursor = c]
            BY <2>7 DEF CollectSuccess
        <3>3. /\ recorded \in Libraries
              /\ \A f \in Episodes : recorded.fails[f] = 0 \/ recorded.fails[f] = lib.fails[f]
            BY AddDownloadFields DEF TypeOK
        <3> HIDE DEF recorded
        <3>4. lib'.fails = recorded.fails
            BY <3>2, <3>3 DEF Libraries
        <3>5. Lowered
            BY <1>1, <3>3, <3>4
        <3>6. saved'.fails = lib'.fails \/ saved' = saved
            BY <3>1, <3>4, StateOfFields, WriteOutcomes
        <3>. QED BY <1>3, <1>4, <3>1, <3>5, <3>6
    <2>8. ASSUME NEW e \in Episodes, CollectFailure(e)
          PROVE  Budgeted' /\ OneFailure
        <3>1. /\ saved' = saved /\ failed' = failed \cup {e} /\ phase # "off" /\ phase' # "off"
              /\ lib' = lib \/ lib' = MarkFailed(lib, {e})
            BY <2>8 DEF CollectFailure, Collecting
        <3>2. e \notin failed
            BY <2>8 DEF CollectFailure, Collecting, Accounted, Apart, InFlight
        <3>3. \A f \in Episodes :
                  \/ lib'.fails[f] = lib.fails[f]
                  \/ f = e /\ lib'.fails[f] = lib.fails[f] + 1
            BY <3>1, MarkFailedFields DEF TypeOK
        <3>. QED BY <1>1, <3>1, <3>2, <3>3
    <2>9. ASSUME NEW e \in Episodes, CollectRetry(e) \/ CollectException(e)
          PROVE  Budgeted' /\ OneFailure
        <3>1. saved' = saved /\ lib' = lib /\ failed' = failed /\ phase' # "off"
            BY <2>9 DEF CollectRetry, CollectException, Collecting, Abandon
        <3>. QED BY <1>1, <1>3, <3>1
    <2>10. ASSUME NEW e \in Episodes, CollectRaises(e)
          PROVE  Budgeted' /\ OneFailure
        <3>1. saved' = saved /\ failed' = failed /\ phase' # "off"
            BY <2>10 DEF CollectRaises, Abandon
        <3>2. \A f \in Episodes : lib'.fails[f] = 0 \/ lib'.fails[f] = lib.fails[f]
            BY <2>10, AddDownloadFields DEF CollectRaises, TypeOK
        <3>3. Lowered
            BY <1>1, <3>2
        <3>. QED BY <1>3, <3>1, <3>3
    <2>. QED BY <1>6, <2>1, <2>2, <2>3, <2>4, <2>5, <2>6, <2>7, <2>8, <2>9, <2>10 DEF Main
<1>7. ASSUME NEW e \in Episodes, Worker(e)
      PROVE  Budgeted' /\ OneFailure
    <2>1. failed' = failed /\ phase' = phase
        BY <1>7, WorkerMoves DEF workerUnchanged
    <2>2. Lowered /\ (saved' = saved \/ saved'.fails = lib'.fails)
        BY <1>7, WorkerResults
    <2>. QED BY <1>3, <1>4, <2>1, <2>2
<1>8. CASE Environment
    <2>1. CASE Crash
        <3>1. saved' = saved /\ lib'.fails = saved.fails /\ phase' = "off"
            BY <2>1, LoadedType DEF Crash, Exit, TypeOK
        <3>. QED BY <1>5, <3>1
    <2>2. CASE ~Crash
        <3>1. saved' = saved /\ failed' = failed /\ (phase # "off" => phase' # "off")
            BY <1>8, <2>2 DEF Environment, Dial, RequestShutdown, ClearShutdown,
                   KeyboardInterrupt, Abandon, FileArrives, UserDeletes
        <3>2. lib'.fails = lib.fails
            BY <1>8, <2>2 DEF Environment, Dial, RequestShutdown, ClearShutdown,
                   KeyboardInterrupt, Abandon, FileArrives, UserDeletes, TypeOK, Libraries
        <3>. QED BY <1>1, <1>3, <3>1, <3>2
    <2>. QED BY <2>1, <2>2
<1>9. CASE UNCHANGED vars
    BY <1>1, <1>3, <1>9 DEF vars
<1>. QED BY <1>6, <1>7, <1>8, <1>9 DEF Next

----------------------------------------------------------------------------
(***************************************************************************)
(* A failure that has been counted stays in memory until the closing save: *)
(* what clears the counter of an episode records its video.                *)
(***************************************************************************)
Registered(l, e) == l.fails[e] > 0 \/ e \in l.recorded

FailuresKept ==
    /\ phase # "off" /\ ~indeterminate => \A e \in failed : Registered(lib, e)
    /\ ReportedFailuresDurable

LEMMA AddDownloadRegisters ==
    ASSUME NEW l \in Libraries, NEW done \in SUBSET Episodes, NEW e \in Episodes,
           Registered(l, e)
    PROVE  Registered(AddDownload(l, done), e)
BY AddDownloadFields DEF Registered

LEMMA RecordExistingRegisters ==
    ASSUME NEW l \in Libraries, NEW e \in Episodes, Registered(l, e)
    PROVE  Registered(RecordExisting(l, {}), e)
<1> DEFINE a == AddDownload(l, Final(l) \ l.recorded)
<1>1. a \in Libraries /\ Registered(a, e)
    BY AddDownloadFields, AddDownloadRegisters DEF Final
<1>2. RecordExisting(l, {}) = ClearMarkers(a, {})
    BY DEF RecordExisting
<1> HIDE DEF a
<1>. QED BY <1>1, <1>2, ClearMarkersFields DEF Registered

LEMMA WorkerRegisters ==
    ASSUME TypeOK, NEW e \in Episodes, Worker(e), NEW f \in Episodes, Registered(lib, f)
    PROVE  Registered(lib', f)
<1>1. CASE SkipExisting(e)
    <2>1. lib' = AddDownload(lib, {e} \ lib.recorded)
        BY <1>1 DEF SkipExisting
    <2>. QED BY <2>1, AddDownloadRegisters DEF TypeOK
<1>2. CASE ~SkipExisting(e)
    <2>1. lib'.fails = lib.fails /\ lib'.recorded = lib.recorded
        BY <1>2 DEF Worker, SlotRefused, Begin, SaveMarker, Stream, FirstBytes, SaveStarted,
               SaveRaises, RejectResponse, Stall, DiscardPart, Rename, Accept, Invalidate,
               ValidationErrs, GiveUp, Raise, Interrupt, TypeOK, Libraries
    <2>. QED BY <2>1 DEF Registered
<1>. QED BY <1>1, <1>2

LEMMA FailuresNext ==
    TypeOK /\ Accounted /\ FailuresKept /\ [Next]_vars => FailuresKept'
<1> SUFFICES ASSUME TypeOK, Accounted, FailuresKept, [Next]_vars
             PROVE  FailuresKept'
    OBVIOUS
<1> USE DEF tasks, report, controls, disk
<1>1. lib \in Libraries /\ failed \in SUBSET Episodes /\ queue \in SUBSET Episodes
      /\ \A e \in Episodes : lib.fails[e] \in Nat
    BY DEF TypeOK, Libraries
<1>2. ASSUME failed' = {}
      PROVE  FailuresKept'
    BY <1>2 DEF FailuresKept, ReportedFailuresDurable
<1>3. ASSUME phase # "off", phase' # "off", indeterminate' = indeterminate,
             failed' = failed, \A e \in Episodes : Registered(lib, e) => Registered(lib', e)
      PROVE  FailuresKept'
    BY <1>1, <1>3 DEF FailuresKept, ReportedFailuresDurable
<1>4. CASE Main
    <2>1. CASE Setup \/ AbortedExit
        BY <1>2, <2>1 DEF Setup, AbortedExit, Exit
    <2>2. CASE StartRound \/ LeaveParallel \/ StartDrainRound \/ DrainInterrupted
                   \/ FinishDrain \/ ShutdownBreak \/ PoolStopped
        BY <1>3, <2>2 DEF StartRound, LeaveParallel, StartDrainRound, DrainInterrupted,
               FinishDrain, ShutdownBreak, PoolStopped
    <2>3. CASE MarkLeftovers
        <3>1. /\ phase # "off" /\ phase' = "closing" /\ indeterminate' = indeterminate
              /\ \/ failed' = failed /\ lib' = lib
                 \/ indeterminate
                 \/ failed' = failed \cup queue /\ lib' = MarkFailed(lib, queue)
            BY <2>3 DEF MarkLeftovers
        <3>2. \A e \in Episodes :
                  /\ Registered(lib, e) => Registered(MarkFailed(lib, queue), e)
                  /\ e \in queue => Registered(MarkFailed(lib, queue), e)
            BY <1>1, MarkFailedFields DEF Registered
        <3>. QED BY <1>1, <3>1, <3>2 DEF FailuresKept, ReportedFailuresDurable
    <2>4. CASE Close
        <3> DEFINE closed == RecordExisting(lib, {})
        <3>1. /\ phase # "off" /\ phase' = "off" /\ indeterminate' = indeterminate
              /\ failed' = failed
              /\ ended' = "closed" => saved' = StateOf(closed)
            BY <2>4 DEF Close
        <3>2. \A e \in Episodes : Registered(lib, e) => Registered(closed, e)
            BY <1>1, RecordExistingRegisters
        <3> HIDE DEF closed
        <3>3. ended' = "closed" => saved'.fails = closed.fails /\ saved'.recorded = closed.recorded
            BY <3>1, StateOfFields
        <3>. QED BY <1>1, <3>1, <3>2, <3>3 DEF FailuresKept, ReportedFailuresDurable, Registered
    <2>5. ASSUME NEW e \in Episodes, DrainNext(e)
          PROVE  FailuresKept'
        <3>1. lib'.fails = lib.fails /\ lib'.recorded = lib.recorded
            BY <1>1, <2>5 DEF DrainNext, Libraries
        <3>. QED BY <1>3, <2>5, <3>1 DEF DrainNext, Registered
    <2>6. ASSUME NEW e \in Episodes, CollectSuccess(e)
          PROVE  FailuresKept'
        <3> DEFINE recorded == AddDownload(lib, {e})
        <3>1. PICK c : lib' = [recorded EXCEPT !.cursor = c]
            BY <2>6 DEF CollectSuccess
        <3>2. recorded \in Libraries
              /\ \A f \in Episodes : Registered(lib, f) => Registered(recorded, f)
            BY <1>1, AddDownloadFields, AddDownloadRegisters
        <3> HIDE DEF recorded
        <3>3. lib'.fails = recorded.fails /\ lib'.recorded = recorded.recorded
            BY <3>1, <3>2 DEF Libraries
        <3>4. \A f \in Episodes : Registered(lib, f) => Registered(lib', f)
            BY <3>2, <3>3 DEF Registered
        <3>. QED BY <1>3, <2>6, <3>4 DEF CollectSuccess, Collecting
    <2>7. ASSUME NEW e \in Episodes, CollectFailure(e)
          PROVE  FailuresKept'
        <3>1. /\ phase # "off" /\ phase' = phase /\ indeterminate' = indeterminate
              /\ failed' = failed \cup {e}
              /\ indeterminate \/ lib' = MarkFailed(lib, {e})
            BY <2>7 DEF CollectFailure, Collecting
        <3>2. \A f \in Episodes :
                  /\ Registered(lib, f) => Registered(MarkFailed(lib, {e}), f)
                  /\ f = e => Registered(MarkFailed(lib, {e}), f)
            BY <1>1, MarkFailedFields DEF Registered
        <3>. QED BY <1>1, <3>1, <3>2 DEF FailuresKept, ReportedFailuresDurable
    <2>8. ASSUME NEW e \in Episodes, CollectRetry(e) \/ CollectException(e)
          PROVE  FailuresKept'
        BY <1>3, <2>8 DEF CollectRetry, CollectException, Collecting, Abandon
    <2>9. ASSUME NEW e \in Episodes, CollectRaises(e)
          PROVE  FailuresKept'
        <3>1. \A f \in Episodes : Registered(lib, f) => Registered(lib', f)
            BY <1>1, <2>9, AddDownloadRegisters DEF CollectRaises
        <3>. QED BY <1>3, <2>9, <3>1 DEF CollectRaises, Abandon
    <2>. QED BY <1>4, <2>1, <2>2, <2>3, <2>4, <2>5, <2>6, <2>7, <2>8, <2>9 DEF Main
<1>5. ASSUME NEW e \in Episodes, Worker(e)
      PROVE  FailuresKept'
    <2>1. /\ phase' = phase /\ failed' = failed /\ indeterminate' = indeterminate
          /\ ended' = ended
        BY <1>5, WorkerMoves DEF workerUnchanged
    <2>2. \A f \in Episodes : Registered(lib, f) => Registered(lib', f)
        BY <1>5, WorkerRegisters
    <2>3. phase # "off"
        BY <1>5, WorkerMoves DEF Accounted
    <2>. QED BY <1>3, <2>1, <2>2, <2>3
<1>6. CASE Environment
    <2>1. CASE Crash
        BY <1>2, <2>1 DEF Crash, Exit
    <2>2. CASE Dial \/ RequestShutdown \/ ClearShutdown \/ KeyboardInterrupt
        BY <1>3, <2>2 DEF Dial, RequestShutdown, ClearShutdown, KeyboardInterrupt, Abandon
    <2>3. ASSUME NEW e \in Episodes, FileArrives(e)
          PROVE  FailuresKept'
        <3>1. lib'.fails = lib.fails /\ lib'.recorded = lib.recorded
            BY <1>1, <2>3 DEF FileArrives, Libraries
        <3>. QED BY <1>3, <2>3, <3>1 DEF FileArrives, Registered
    <2>4. ASSUME NEW e \in Episodes, UserDeletes(e)
          PROVE  FailuresKept'
        BY <2>4 DEF UserDeletes, FailuresKept, ReportedFailuresDurable
    <2>. QED BY <1>6, <2>1, <2>2, <2>3, <2>4 DEF Environment
<1>7. CASE UNCHANGED vars
    BY <1>7 DEF vars, FailuresKept, ReportedFailuresDurable
<1>. QED BY <1>4, <1>5, <1>6, <1>7 DEF Next

----------------------------------------------------------------------------
RunInv == TypeOK /\ Accounted /\ Marked /\ Durable /\ Budgeted /\ FailuresKept

LEMMA RunInvInit == Init => RunInv
<1> SUFFICES ASSUME Init PROVE RunInv
    OBVIOUS
<1>1. TypeOK /\ Accounted
    BY TypeInit, AccountedInit
<1>2. /\ job = NoJobs /\ completed = {} /\ saved = StateOf(lib) /\ phase = "off"
      /\ ended = "never"
    BY DEF Init
<1>3. Marked /\ Durable
    BY <1>2 DEF Marked, MarkedWhileDownloading, Durable, ReportedDownloadsKept, Holding,
           Running, Downloading, NoJobs
<1>4. Budgeted
    BY <1>1, <1>2, StateOfFields DEF Budgeted, TypeOK, Libraries
<1>5. FailuresKept
    BY DEF Init, FailuresKept, ReportedFailuresDurable
<1>. QED BY <1>1, <1>3, <1>4, <1>5 DEF RunInv

LEMMA RunInvNext == RunInv /\ [Next]_vars => RunInv' /\ (OneFailure \/ UNCHANGED vars)
BY TypeNext, AccountedNext, MarkedNext, DurableNext, BudgetedNext, FailuresNext
   DEF RunInv

LEMMA RunInvAlways == Spec => []RunInv
BY RunInvInit, RunInvNext, PTL DEF Spec

\* The main thread, the workers and the state file stay well-typed over any
\* number of runs; the cursor always names an episode or the end of the season.
THEOREM RunTypeCorrect == Spec => []TypeOK
<1>1. RunInv => TypeOK
    BY DEF RunInv
<1>. QED BY <1>1, RunInvAlways, PTL

\* No episode of the task is lost or in two places while the rounds run, however
\* results, Ctrl+C and the dial of the worker limit interleave.
THEOREM EpisodesAccounted == Spec => []EveryEpisodeAccounted
<1>1. RunInv => EveryEpisodeAccounted
    BY DisjointFive DEF RunInv, Accounted, Apart, EveryEpisodeAccounted
<1>. QED BY <1>1, RunInvAlways, PTL

\* A run nobody interrupted reports every episode of its task exactly once.
THEOREM ReportIsComplete == Spec => []ReportComplete
<1>1. RunInv => ReportComplete
    BY DEF RunInv, Accounted
<1>. QED BY <1>1, RunInvAlways, PTL

\* A crash at any step finds the in_progress marker of every running download in
\* the state file, unless the file system has failed, whatever older copies of the
\* records the workers write.
THEOREM DownloadsMarked == Spec => []MarkedWhileDownloading
<1>1. RunInv => MarkedWhileDownloading
    BY DEF RunInv, Marked
<1>. QED BY <1>1, RunInvAlways, PTL

\* What the report counts as downloaded is in the folder and on record in memory
\* while the run is on, and a closed run has it, and every other video, in the state
\* file, although a worker's older save may have taken the record out in between.
THEOREM DownloadsKept == Spec => []ReportedDownloadsKept
<1>1. RunInv => ReportedDownloadsKept
    BY DEF RunInv, Durable
<1>. QED BY <1>1, RunInvAlways, PTL

\* What the report of a closed run counts as failed is counted in the state file,
\* too, unless the run was rate limited or the video has been recorded.
THEOREM FailuresDurable == Spec => []ReportedFailuresDurable
<1>1. RunInv => ReportedFailuresDurable
    BY DEF RunInv, FailuresKept
<1>. QED BY <1>1, RunInvAlways, PTL

\* In a run a failure counter rises once, by one, and only when the report counts
\* its episode as failed; the state file's counter follows by one, not more, however
\* saves overtake one another and whatever crashes lose.
THEOREM BudgetKept == Spec => BudgetCountsFailedRuns
<1> DEFINE Step ==
        \A e \in Episodes :
            /\ phase # "off" /\ phase' # "off" /\ lib'.fails[e] > lib.fails[e] =>
                  /\ lib'.fails[e] = lib.fails[e] + 1
                  /\ e \in failed' \ failed
            /\ saved'.fails[e] > saved.fails[e] =>
                  /\ saved'.fails[e] = saved.fails[e] + 1
                  /\ e \in failed'
<1>1. RunInv /\ [Next]_vars => [Step]_vars
    BY RunInvNext DEF OneFailure
<1>. QED BY <1>1, RunInvAlways, PTL DEF Spec, BudgetCountsFailedRuns

----------------------------------------------------------------------------
(***************************************************************************)
(* The promise of VideoFile, for each episode.  The main thread moves no   *)
(* file but in its preparation, and takes an episode from a worker only    *)
(* when the worker is through with it, its process ends, or Ctrl+C takes   *)
(* the main thread out of a download of its own.  A step of the season is  *)
(* a move of the worker or of the world around it, and no error ends under *)
(* a worker that is at a stream.                                           *)
(***************************************************************************)
LEMMA SeenStage ==
    ASSUME NEW e
    PROVE  /\ job[e] \in Running \ {"renamed"} => StageOf(e) = "searching"
           /\ job[e] = "renamed" => StageOf(e) = "renamed"
           /\ job[e] = "ok" => StageOf(e) = "done"
           /\ job[e] \in JobStates \ (Running \cup {"ok"}) => StageOf(e) = "off"
           /\ job'[e] \in Running \ {"renamed"} => StageOf(e)' = "searching"
           /\ job'[e] = "renamed" => StageOf(e)' = "renamed"
           /\ job'[e] = "ok" => StageOf(e)' = "done"
           /\ job'[e] \in JobStates \ (Running \cup {"ok"}) => StageOf(e)' = "off"
           /\ job'[e] = job[e] => StageOf(e)' = StageOf(e)
           /\ StageOf(e) \in {"off", "searching", "renamed", "done"}
           /\ StageOf(e) = "renamed" => job[e] = "renamed"
BY DEF StageOf, JobStates, Running, Downloading, Finished

LEMMA SeenFile ==
    ASSUME NEW e
    PROVE  /\ lib.file[e] = "full" <=> FileOf(e) = "video"
           /\ lib.file[e] = "tiny" <=> FileOf(e) = "short"
           /\ lib.file[e] = "none" => FileOf(e) = "none"
           /\ lib'.file[e] = "full" <=> FileOf(e)' = "video"
           /\ lib'.file[e] = "tiny" <=> FileOf(e)' = "short"
           /\ lib'.file[e] = "none" => FileOf(e)' = "none"
           /\ lib'.file[e] = lib.file[e] => FileOf(e)' = FileOf(e)
           /\ FileOf(e) \in {"none", "short", "video"}
           /\ FileOf(e)' \in {"none", "short", "video"}
BY DEF FileOf

LEMMA SeenMishaps ==
    /\ Mishaps' \subseteq {"error", "abort", "death"}
    /\ "death" \in Mishaps <=> phase = "off" /\ ended = "crashed"
    /\ "death" \in Mishaps' <=> phase' = "off" /\ ended' = "crashed"
    /\ "abort" \in Mishaps <=> phase = "aborted"
    /\ "abort" \in Mishaps' <=> phase' = "aborted"
    /\ "error" \in Mishaps => faulty = TRUE
    /\ faulty = FALSE => "error" \notin Mishaps
    /\ faulty' = TRUE => "error" \in Mishaps'
BY DEF Mishaps

Move(e) == Video(e)!Worker \/ Video(e)!Environment

\* A step that leaves the files alone keeps the promise: the search goes on, or
\* ends, but not while a file waits to be validated.
LEMMA FilesAlone ==
    ASSUME NEW e \in Episodes, lib'.file[e] = lib.file[e], e \in lib'.part <=> e \in lib.part,
           \/ job'[e] = job[e]
           \/ job[e] # "renamed" /\ job'[e] \in JobStates \ (Running \cup {"ok"})
    PROVE  Move(e)
<1>1. FileOf(e)' = FileOf(e) /\ (e \in lib.part)' = (e \in lib.part)
    BY SeenFile
<1>2. \/ StageOf(e)' = StageOf(e)
      \/ StageOf(e)' = "off" /\ StageOf(e) # "renamed"
    BY SeenStage
<1>3. CASE StageOf(e)' = StageOf(e)
    BY <1>1, <1>3 DEF Move, Video!Environment, Video!Elsewhere
<1>4. CASE StageOf(e)' # StageOf(e)
    <2>1. StageOf(e) \in {"searching", "done"} /\ StageOf(e)' = "off"
        BY <1>2, <1>4, SeenStage
    <2>. QED BY <1>1, <2>1 DEF Move, Video!Worker, Video!Environment, Video!GiveUp,
                               Video!Collect
<1>. QED BY <1>3, <1>4

\* A search that goes on, whatever is saved meanwhile.
LEMMA StillSearching ==
    ASSUME NEW e \in Episodes, lib'.file[e] = lib.file[e], e \in lib'.part <=> e \in lib.part,
           job[e] \in Running \ {"renamed"}, job'[e] \in Running \ {"renamed"}
    PROVE  Move(e)
<1>1. FileOf(e)' = FileOf(e) /\ (e \in lib.part)' = (e \in lib.part)
    BY SeenFile
<1>2. StageOf(e)' = StageOf(e)
    BY SeenStage
<1>. QED BY <1>1, <1>2 DEF Move, Video!Environment, Video!Elsewhere

\* The preparation moves the short files of some episodes to their .part.
LEMMA SetupFiles ==
    ASSUME TypeOK, Setup, NEW e \in Episodes
    PROVE  \/ lib'.file[e] = lib.file[e] /\ (e \in lib'.part <=> e \in lib.part)
           \/ /\ lib.file[e] = "tiny" /\ e \notin lib.part
              /\ lib'.file[e] = "none" /\ e \in lib'.part
<1>1. PICK aged \in SUBSET Episodes, old \in SUBSET Episodes :
        LET ready == Prepare(lib, aged, old)
            there == AlreadyThere(ready.lib, ready.found)
            kept == AddDownload(ready.lib, there \ ready.lib.recorded)
            closed == RecordExisting(kept, {})
        IN lib' = Loaded(closed, saved') \/ lib' = kept
    BY SetupPieces
<1> DEFINE aging == [lib EXCEPT !.expired = old]
           seen == AutoReset(aging, aged)
           moving == (Candidates(seen) \cap TinyUntracked(seen)) \ seen.part
           moved == ConvertTiny(seen)
           synced == SyncInProgress(moved)
           pruned == PruneStarted(synced)
           ready == Prepare(lib, aged, old)
           there == AlreadyThere(ready.lib, ready.found)
           kept == AddDownload(ready.lib, there \ ready.lib.recorded)
<1>2. aging \in Libraries /\ aging.file = lib.file /\ aging.part = lib.part
    BY DEF TypeOK, Libraries
<1> HIDE DEF aging
<1>3. seen \in Libraries /\ seen.file = lib.file /\ seen.part = lib.part
    BY <1>2, AutoResetType DEF AutoReset, Libraries
<1> HIDE DEF seen
<1>4. /\ moved \in Libraries /\ moved.part = seen.part \cup moving
      /\ moved.file[e] = IF e \in moving THEN "none" ELSE seen.file[e]
    BY <1>3, ConvertTinyType DEF ConvertTiny, Libraries
<1>5. e \in moving => lib.file[e] = "tiny" /\ e \notin lib.part
    BY <1>3 DEF TinyUntracked
<1> HIDE DEF moved, moving
<1>6. synced \in Libraries /\ synced.file = moved.file /\ synced.part = moved.part
    BY <1>4, SyncInProgressType DEF SyncInProgress, Libraries
<1> HIDE DEF synced
<1>7. pruned \in Libraries /\ pruned.file = moved.file /\ pruned.part = moved.part
    BY <1>6, PruneStartedType, PruneStartedFields
<1>8. \E c : ready.lib = [pruned EXCEPT !.cursor = c]
    BY DEF Prepare, pruned, synced, moved, seen, aging
<1>9. ready.lib \in Libraries /\ ready.found \in SUBSET Episodes
    BY PrepareFields DEF TypeOK
<1> HIDE DEF pruned, ready
<1>10. ready.lib.file = moved.file /\ ready.lib.part = moved.part
    BY <1>7, <1>8 DEF Libraries
<1>11. there \in SUBSET Episodes
    BY <1>9 DEF AlreadyThere
<1> HIDE DEF there
<1>12. kept \in Libraries /\ kept.file = moved.file /\ kept.part = moved.part
    BY <1>9, <1>10, <1>11, AddDownloadFields
<1> DEFINE closed == RecordExisting(kept, {})
<1>13. lib' = Loaded(closed, saved') \/ lib' = kept
    BY <1>1 DEF kept, there, ready
<1> HIDE DEF kept
<1>14. closed \in Libraries /\ closed.file = moved.file /\ closed.part = moved.part
    BY <1>12, RecordExistingResults, RecordExistingFields
<1> HIDE DEF closed
<1>15. Loaded(closed, saved').file = closed.file /\ Loaded(closed, saved').part = closed.part
    BY <1>14 DEF Loaded, Libraries
<1>16. lib'.file = moved.file /\ lib'.part = moved.part
    BY <1>12, <1>13, <1>14, <1>15
<1>. QED BY <1>3, <1>4, <1>5, <1>16

\* No other step of the main thread moves a file, and none sets a worker to work
\* on one, or takes it from a file that it validates.
LEMMA MainFiles ==
    ASSUME TypeOK, Main
    PROVE  /\ ~Setup => lib'.file = lib.file /\ lib'.part = lib.part
           /\ Setup => job' = job
           /\ \A e \in Episodes :
                 \/ job'[e] = job[e]
                 \/ job[e] # "renamed" /\ job'[e] \in JobStates \ (Running \cup {"ok"})
<1> DEFINE Alone == lib'.file = lib.file /\ lib'.part = lib.part
           Rests == \A e \in Episodes :
                        \/ job'[e] = job[e]
                        \/ /\ job[e] # "renamed"
                           /\ job'[e] \in JobStates \ (Running \cup {"ok"})
<1> USE DEF JobStates, Running, Downloading, Finished, NoJobs, InFlight
<1>1. CASE Setup
    BY <1>1 DEF Setup
<1>2. CASE AbortedExit
    <2>1. Alone
        BY <1>2 DEF AbortedExit, Exit, Loaded, TypeOK, Libraries
    <2>2. ~Setup
        BY <1>2 DEF AbortedExit, Setup
    <2>3. Rests
        BY <1>2 DEF AbortedExit, Exit
    <2>. QED BY <2>1, <2>2, <2>3
<1>3. CASE StartRound \/ LeaveParallel \/ StartDrainRound \/ DrainInterrupted
               \/ FinishDrain \/ ShutdownBreak \/ PoolStopped
    <2>1. Alone /\ phase # "off"
        BY <1>3 DEF StartRound, LeaveParallel, StartDrainRound, DrainInterrupted,
                    FinishDrain, ShutdownBreak, PoolStopped
    <2>2. Rests
        BY <1>3 DEF StartRound, LeaveParallel, StartDrainRound, DrainInterrupted,
                    FinishDrain, ShutdownBreak, PoolStopped
    <2>. QED BY <2>1, <2>2 DEF Setup
<1>4. CASE MarkLeftovers
    BY <1>4, MarkFailedFields DEF MarkLeftovers, TypeOK
<1>5. CASE Close
    <2> DEFINE closed == RecordExisting(lib, {})
    <2>1. lib' = Loaded(closed, saved') /\ job' = job /\ phase # "off"
        BY <1>5 DEF Close
    <2>2. closed \in Libraries /\ closed.file = lib.file /\ closed.part = lib.part
        BY RecordExistingResults, RecordExistingFields DEF TypeOK
    <2> HIDE DEF closed
    <2>3. Alone
        BY <2>1, <2>2 DEF Loaded, Libraries
    <2>. QED BY <2>1, <2>3 DEF Setup
<1>6. ASSUME NEW e \in Episodes, DrainNext(e)
      PROVE  Alone /\ Rests
    <2>1. Alone
        BY <1>6 DEF DrainNext, TypeOK, Libraries
    <2>. QED BY <1>6, <2>1 DEF DrainNext, TypeOK
<1>7. ASSUME NEW e \in Episodes, CollectSuccess(e)
      PROVE  Alone /\ Rests
    <2> DEFINE recorded == AddDownload(lib, {e})
    <2>1. PICK c : lib' = [recorded EXCEPT !.cursor = c]
        BY <1>7 DEF CollectSuccess
    <2>2. recorded \in Libraries /\ recorded.file = lib.file /\ recorded.part = lib.part
        BY AddDownloadFields DEF TypeOK
    <2> HIDE DEF recorded
    <2>3. Alone
        BY <2>1, <2>2 DEF Libraries
    <2>. QED BY <1>7, <2>3 DEF CollectSuccess, TypeOK
<1>8. ASSUME NEW e \in Episodes,
             CollectFailure(e) \/ CollectRetry(e) \/ CollectException(e) \/ CollectRaises(e)
      PROVE  Alone /\ Rests
    <2>1. Alone
        BY <1>8, MarkFailedFields, AddDownloadFields
           DEF CollectFailure, CollectRetry, CollectException, CollectRaises, TypeOK
    <2>. QED BY <1>8, <2>1 DEF CollectFailure, CollectRetry, CollectException, CollectRaises,
                               TypeOK
<1>. QED BY <1>1, <1>2, <1>3, <1>4, <1>5, <1>6, <1>7, <1>8 DEF Main

\* A worker's own step is one of the promise, or none of its business.
LEMMA WorkerKeepsPromise ==
    ASSUME TypeOK, NEW e \in Episodes, Worker(e)
    PROVE  Move(e)
<1> USE SeenFile, SeenStage DEF Move, Video!Worker, disk
<1>1. lib \in Libraries /\ job \in [Episodes -> JobStates]
    BY DEF TypeOK
<1>2. CASE SlotRefused(e) \/ GiveUp(e) \/ Raise(e) \/ Interrupt(e)
    <2>1. lib' = lib /\ job[e] # "renamed" /\ job'[e] \in JobStates \ (Running \cup {"ok"})
        BY <1>1, <1>2 DEF SlotRefused, GiveUp, Raise, Interrupt,
                          JobStates, Running, Downloading, Finished
    <2>. QED BY <2>1, FilesAlone
<1>3. CASE SkipExisting(e)
    <2>1. lib'.file = lib.file /\ lib'.part = lib.part
        BY <1>1, <1>3, AddDownloadFields DEF SkipExisting
    <2>2. job[e] # "renamed" /\ job'[e] \in JobStates \ (Running \cup {"ok"})
        BY <1>1, <1>3 DEF SkipExisting, HasSlot, JobStates, Running, Downloading, Finished
    <2>. QED BY <2>1, <2>2, FilesAlone
<1>4. CASE Begin(e)
    <2>1. lib'.file[e] = "none" /\ lib'.part = lib.part
        BY <1>1, <1>4 DEF Begin, Libraries
    <2>2. lib.file[e] # "full" /\ job[e] = "queued" /\ job'[e] = "marking"
        BY <1>1, <1>4 DEF Begin, HasSlot
    <2>3. StageOf(e) = "off" /\ StageOf(e)' = "searching"
        BY <2>2 DEF JobStates, Running, Downloading, Finished
    <2>. QED BY <2>1, <2>2, <2>3 DEF Video!Begin
<1>5. CASE Stream(e) \/ FirstBytes(e)
    <2>1. lib'.file = lib.file /\ e \in lib'.part
        <3>1. CASE Stream(e)
            BY <1>1, <3>1 DEF Stream, Libraries
        <3>2. CASE FirstBytes(e)
            <4>1. lib' = [lib EXCEPT !.part = @ \cup {e}, !.started = @ \cup {e}]
                BY <3>2 DEF FirstBytes
            <4>. QED BY <1>1, <4>1 DEF Libraries
        <3>. QED BY <1>5, <3>1, <3>2
    <2>2. job[e] = "active" /\ job'[e] \in {"streaming", "noting"}
        BY <1>1, <1>5 DEF Stream, FirstBytes
    <2>3. StageOf(e) = "searching" /\ StageOf(e)' = "searching"
        BY <2>2 DEF Running, Downloading
    <2>. QED BY <2>1, <2>3 DEF Video!Receive
<1>6. CASE RejectResponse(e)
    <2>1. lib'.file[e] = "none" /\ lib'.part = lib.part
        BY <1>1, <1>6 DEF RejectResponse, Libraries
    <2>2. job[e] = "active" /\ job'[e] = "active"
        BY <1>1, <1>6 DEF RejectResponse
    <2>3. StageOf(e) = "searching" /\ StageOf(e)' = "searching"
        BY <2>2 DEF Running, Downloading
    <2>. QED BY <2>1, <2>3 DEF Video!Clear
<1>7. CASE Stall(e) \/ SaveMarker(e) \/ SaveStarted(e)
    <2>1. /\ lib' = lib
          /\ job[e] \in Running \ {"renamed"} /\ job'[e] \in Running \ {"renamed"}
        BY <1>1, <1>7 DEF Stall, SaveMarker, SaveStarted, Running, Downloading
    <2>. QED BY <2>1, StillSearching
<1>12. CASE SaveRaises(e)
    <2>1. lib' = lib /\ job[e] \in Running \ {"renamed"}
        BY <1>1, <1>12 DEF SaveRaises, Saving, Running, Downloading
    <2>2. \/ job'[e] \in Running \ {"renamed"}
          \/ job'[e] \in JobStates \ (Running \cup {"ok"})
        BY <1>1, <1>12 DEF SaveRaises, JobStates, Running, Downloading, Finished
    <2>. QED BY <2>1, <2>2, StillSearching, FilesAlone
<1>8. CASE DiscardPart(e)
    <2>1. lib'.file = lib.file /\ e \notin lib'.part
        BY <1>1, <1>8 DEF DiscardPart, Libraries
    <2>2. job[e] \in {"active", "streaming"} /\ job'[e] = "active"
        BY <1>1, <1>8 DEF DiscardPart
    <2>3. StageOf(e) = "searching" /\ StageOf(e)' = "searching"
        BY <2>2 DEF Running, Downloading
    <2>. QED BY <2>1, <2>3 DEF Video!Discard
<1>9. CASE Rename(e)
    <2>1. e \notin lib'.part
        BY <1>1, <1>9 DEF Rename, Libraries
    <2>2. job[e] = "streaming" /\ job'[e] = "renamed"
        BY <1>1, <1>9 DEF Rename
    <2>3. StageOf(e) = "searching" /\ StageOf(e)' = "renamed"
        BY <2>2 DEF Running, Downloading
    <2>. QED BY <2>1, <2>3 DEF Video!Rename, Video!Files
<1>10. CASE Accept(e)
    <2>1. lib' = lib /\ lib.file[e] = "full" /\ job[e] = "renamed" /\ job'[e] = "ok"
        BY <1>1, <1>10 DEF Accept
    <2>. QED BY <2>1 DEF Video!Accept
<1>11. CASE Invalidate(e)
    <2>1. lib'.file[e] = "none" /\ lib'.part = lib.part
        BY <1>1, <1>11 DEF Invalidate, Libraries
    <2>2. job[e] = "renamed" /\ job'[e] = "active"
        BY <1>1, <1>11 DEF Invalidate
    <2>3. StageOf(e) = "renamed" /\ StageOf(e)' = "searching"
        BY <2>2 DEF Running, Downloading
    <2>. QED BY <2>1, <2>3 DEF Video!Invalidate
<1>13. CASE ValidationErrs(e)
    <2>1. lib' = lib /\ job[e] = "renamed" /\ job'[e] = "active"
        BY <1>1, <1>13 DEF ValidationErrs
    <2>2. StageOf(e) = "renamed" /\ StageOf(e)' = "searching"
        BY <2>1 DEF Running, Downloading
    <2>3. faulty = FALSE /\ faulty' = TRUE
        BY <1>13 DEF ValidationErrs, MayFail, TypeOK
    <2>4. "error" \in Mishaps' \ Mishaps
        BY <2>3, SeenMishaps
    <2>. QED BY <2>1, <2>2, <2>4 DEF Video!Environment, Video!Escape, Video!Strikes
<1>. QED BY <1>2, <1>3, <1>4, <1>5, <1>6, <1>7, <1>8, <1>9, <1>10, <1>11, <1>12, <1>13
         DEF Worker

\* The workers of other episodes stay away from its files.
LEMMA OthersKeepPromise ==
    ASSUME TypeOK, NEW e \in Episodes, NEW f \in Episodes \ {e}, Worker(f)
    PROVE  Move(e)
<1>1. lib'.file[e] = lib.file[e] /\ job'[e] = job[e]
    BY WorkerResults, WorkerMoves
<1>2. e \in lib'.part <=> e \in lib.part
    <2>1. lib \in Libraries
        BY DEF TypeOK
    <2>2. CASE SkipExisting(f)
        BY <2>1, <2>2, AddDownloadFields DEF SkipExisting
    <2>3. CASE Stream(f) \/ FirstBytes(f) \/ DiscardPart(f) \/ Rename(f)
        <3>1. lib'.part = lib.part \cup {f} \/ lib'.part = lib.part \ {f}
            BY <2>1, <2>3 DEF Stream, FirstBytes, DiscardPart, Rename, Libraries
        <3>. QED BY <3>1
    <2>4. CASE Begin(f) \/ RejectResponse(f) \/ Invalidate(f)
        BY <2>1, <2>4 DEF Begin, RejectResponse, Invalidate, Libraries
    <2>5. CASE \/ SlotRefused(f) \/ Stall(f) \/ Accept(f) \/ GiveUp(f) \/ Raise(f)
               \/ Interrupt(f) \/ SaveMarker(f) \/ SaveStarted(f) \/ SaveRaises(f)
               \/ ValidationErrs(f)
        BY <2>5 DEF SlotRefused, Stall, Accept, GiveUp, Raise, Interrupt, SaveMarker,
               SaveStarted, SaveRaises, ValidationErrs
    <2>. QED BY <2>2, <2>3, <2>4, <2>5 DEF Worker
<1>. QED BY <1>1, <1>2, FilesAlone

LEMMA EnvironmentKeepsPromise ==
    ASSUME TypeOK, Accounted, NEW e \in Episodes, Environment
    PROVE  Move(e)
<1> USE SeenFile, SeenStage DEF Move, Video!Environment, Video!Strikes
<1>1. lib \in Libraries /\ job \in [Episodes -> JobStates]
    BY DEF TypeOK
<1>2. CASE Dial \/ RequestShutdown \/ ClearShutdown
    BY <1>2, FilesAlone DEF Dial, RequestShutdown, ClearShutdown
<1>3. CASE KeyboardInterrupt \/ Crash
    <2>1. lib'.file = lib.file /\ lib'.part = lib.part
        BY <1>1, <1>3 DEF KeyboardInterrupt, Crash, Exit, Loaded, Libraries
    <2>2. job'[e] = job[e] \/ job'[e] \in JobStates \ (Running \cup {"ok"})
        BY <1>3 DEF KeyboardInterrupt, Crash, Exit, NoJobs, JobStates, Running, Downloading,
               Finished
    <2>3. CASE job'[e] = job[e] \/ job[e] # "renamed"
        BY <2>1, <2>2, <2>3, FilesAlone
    <2>4. CASE job'[e] # job[e] /\ job[e] = "renamed"
        <3>1. StageOf(e) = "renamed" /\ StageOf(e)' = "off"
            BY <2>2, <2>4
        <3>2. FileOf(e)' = FileOf(e) /\ (e \in lib.part)' = (e \in lib.part)
            BY <2>1
        <3>3. CASE KeyboardInterrupt
            <4>1. "abort" \in Mishaps' \ Mishaps
                BY <3>3, SeenMishaps DEF KeyboardInterrupt, Abandon
            <4>. QED BY <3>1, <3>2, <4>1 DEF Video!Drop
        <3>4. CASE Crash
            <4>1. "death" \in Mishaps' \ Mishaps
                BY <3>4, SeenMishaps DEF Crash, Exit
            <4>. QED BY <3>1, <3>2, <4>1 DEF Video!Crash
        <3>. QED BY <1>3, <3>3, <3>4
    <2>. QED BY <2>3, <2>4
<1>4. ASSUME NEW f \in Episodes, FileArrives(f)
      PROVE  Move(e)
    <2>1. lib'.part = lib.part /\ job' = job
        BY <1>1, <1>4 DEF FileArrives, Libraries
    <2>2. CASE e # f
        <3>1. lib'.file[e] = lib.file[e]
            BY <1>1, <1>4, <2>2 DEF FileArrives, Libraries
        <3>. QED BY <2>1, <3>1, FilesAlone
    <2>3. CASE e = f
        <3>1. lib.file[e] = "none" /\ lib'.file[e] = "full"
            BY <1>1, <1>4, <2>3 DEF FileArrives, Libraries
        <3>2. StageOf(e) \in {"off", "searching"}
            BY <1>4, <2>3 DEF FileArrives, JobStates, Running, Downloading, Finished
        <3>. QED BY <2>1, <3>1, <3>2 DEF Video!Arrive
    <2>. QED BY <2>2, <2>3
<1>5. ASSUME NEW f \in Episodes, UserDeletes(f)
      PROVE  Move(e)
    <2>1. lib'.part = lib.part /\ job' = job
        BY <1>1, <1>5 DEF UserDeletes, Libraries
    <2>2. CASE e # f
        <3>1. lib'.file[e] = lib.file[e]
            BY <1>1, <1>5, <2>2 DEF UserDeletes, Libraries
        <3>. QED BY <2>1, <3>1, FilesAlone
    <2>3. CASE e = f
        <3>1. lib'.file[e] = "none"
            BY <1>1, <1>5, <2>3 DEF UserDeletes, Libraries
        <3>2. job[e] = "idle"
            BY <1>5 DEF UserDeletes, Accounted, InFlight
        <3>3. StageOf(e) = "off"
            BY <3>2 DEF JobStates, Running, Downloading, Finished
        <3>. QED BY <2>1, <3>1, <3>3 DEF Video!Delete
    <2>. QED BY <2>2, <2>3
<1>. QED BY <1>2, <1>3, <1>4, <1>5 DEF Environment

\* The file system's failure is forgotten only between the runs.
LEMMA FaultLasts ==
    ASSUME [Next]_vars, ~Setup, ~AbortedExit, ~Crash
    PROVE  faulty' = faulty \/ faulty' = TRUE
<1> USE DEF disk
<1>1. CASE Main
    <2>1. CASE \/ StartRound \/ LeaveParallel \/ StartDrainRound \/ DrainInterrupted \/ FinishDrain
               \/ ShutdownBreak \/ PoolStopped \/ MarkLeftovers
        BY <2>1 DEF StartRound, LeaveParallel, StartDrainRound, DrainInterrupted,
               FinishDrain, ShutdownBreak, PoolStopped, MarkLeftovers
    <2>2. CASE Close
        BY <2>2, WriteOutcomes DEF Close
    <2>3. ASSUME NEW e \in Episodes, CollectSuccess(e)
          PROVE  faulty' = faulty \/ faulty' = TRUE
        BY <2>3, WriteOutcomes DEF CollectSuccess
    <2>4. ASSUME NEW e \in Episodes,
                 DrainNext(e) \/ CollectFailure(e) \/ CollectRetry(e) \/ CollectException(e)
                     \/ CollectRaises(e)
          PROVE  faulty' = faulty
        BY <2>4 DEF DrainNext, CollectFailure, CollectRetry, CollectException, CollectRaises
    <2>. QED BY <1>1, <2>1, <2>2, <2>3, <2>4 DEF Main
<1>2. ASSUME NEW e \in Episodes, Worker(e)
      PROVE  faulty' = faulty \/ faulty' = TRUE
    <2>1. CASE SaveMarker(e) \/ SaveStarted(e)
        BY <2>1, WriteOutcomes DEF SaveMarker, SaveStarted, FinishSave
    <2>2. CASE ~SaveMarker(e) /\ ~SaveStarted(e)
        BY <1>2, <2>2 DEF Worker, SlotRefused, SkipExisting, Begin, Stream, FirstBytes, StartSave,
               SaveRaises, RejectResponse, Stall, DiscardPart, Rename, Accept, Invalidate,
               ValidationErrs, GiveUp, Raise, Interrupt
    <2>. QED BY <2>1, <2>2
<1>3. CASE Environment
    BY <1>3 DEF Environment, Dial, RequestShutdown, ClearShutdown, KeyboardInterrupt,
           FileArrives, UserDeletes
<1>4. CASE UNCHANGED vars
    BY <1>4 DEF vars
<1>. QED BY <1>1, <1>2, <1>3, <1>4 DEF Next

\* No error ends while a worker is at a stream.
LEMMA ErrorLasts ==
    ASSUME RunInv, [Next]_vars, NEW e \in Episodes
    PROVE  Video(e)!Lasts
<1>1. CASE Setup \/ AbortedExit \/ Crash
    <2>1. job'[e] = "idle"
        BY <1>1 DEF RunInv, Setup, AbortedExit, Crash, Exit, NoJobs, Accounted, InFlight
    <2>2. StageOf(e)' = "off"
        BY <2>1, SeenStage DEF JobStates, Running, Downloading, Finished
    <2>. QED BY <2>2, SeenMishaps DEF Video!Lasts, Video!Mishaps
<1>2. CASE ~Setup /\ ~AbortedExit /\ ~Crash
    <2>1. "error" \in Mishaps => faulty' = TRUE
        BY <1>2, FaultLasts, SeenMishaps
    <2>2. "error" \notin Mishaps \ Mishaps'
        BY <2>1, SeenMishaps
    <2>. QED BY <2>2, SeenMishaps DEF Video!Lasts, Video!Mishaps
<1>. QED BY <1>1, <1>2

LEMMA PromiseNext ==
    RunInv /\ [Next]_vars => \A e \in Episodes : [Video(e)!Next]_(Video(e)!video)
<1> SUFFICES ASSUME RunInv, [Next]_vars, NEW e \in Episodes
             PROVE  Move(e)
    BY ErrorLasts DEF Move, Video!Next
<1> USE DEF RunInv
<1>1. CASE Setup
    <2>1. job[e] = "idle" /\ job' = job
        BY <1>1 DEF Setup, Accounted, InFlight
    <2>2. StageOf(e) = "off" /\ StageOf(e)' = "off"
        BY <2>1, SeenStage DEF JobStates, Running, Downloading, Finished
    <2>3. \/ FileOf(e)' = FileOf(e) /\ (e \in lib'.part <=> e \in lib.part)
          \/ FileOf(e) = "short" /\ e \notin lib.part /\ FileOf(e)' = "none" /\ e \in lib'.part
        BY <1>1, SetupFiles, SeenFile
    <2>. QED BY <2>2, <2>3 DEF Move, Video!Environment, Video!Convert, Video!Elsewhere
<1>2. CASE Main /\ ~Setup
    BY <1>2, MainFiles, FilesAlone
<1>3. ASSUME NEW f \in Episodes, Worker(f)
      PROVE  Move(e)
    BY <1>3, WorkerKeepsPromise, OthersKeepPromise
<1>4. CASE Environment
    BY <1>4, EnvironmentKeepsPromise
<1>5. CASE UNCHANGED vars
    BY <1>5, FilesAlone DEF vars
<1>. QED BY <1>1, <1>2, <1>3, <1>4, <1>5 DEF Next

LEMMA PromiseInit == Init => \A e \in Episodes : Video(e)!Init
<1> SUFFICES ASSUME Init, NEW e \in Episodes PROVE Video(e)!Init
    OBVIOUS
<1>1. StageOf(e) = "off" /\ FileOf(e) \in {"none", "short", "video"}
    BY SeenFile, SeenStage DEF Init, NoJobs, JobStates, Running, Downloading, Finished
<1>2. Mishaps = {}
    BY DEF Init, Mishaps
<1>. QED BY <1>1, <1>2 DEF Video!Init, Video!Files

\* In a season of any length, whatever the other threads, Ctrl+C, crashes and later
\* runs do, the files of every episode go through the life its worker promises: a
\* file that was not validated is left behind only at the moment that its process
\* dies, Ctrl+C takes the main thread out of its own download, or the file system
\* fails under the validation.
THEOREM SeasonKeepsPromise == Spec => FilesAsPromised
<1>1. RunInv /\ [Next]_vars =>
          [\A e \in Episodes : [Video(e)!Next]_(Video(e)!video)]_vars
    BY PromiseNext
<1>. QED BY <1>1, PromiseInit, RunInvAlways, PTL DEF Spec, FilesAsPromised

\* Each episode by itself is an implementation of VideoFile.
THEOREM EveryEpisodeIsVideoFile == Spec => \A e \in Episodes : Video(e)!Spec
<1>1. ASSUME NEW e \in Episodes
      PROVE  Spec => Video(e)!Spec
    <2>1. Init => Video(e)!Init
        BY PromiseInit
    <2>2. RunInv /\ [Next]_vars => [Video(e)!Next]_(Video(e)!video)
        BY PromiseNext
    <2>. QED BY <2>1, <2>2, RunInvAlways, PTL DEF Spec, Video!Spec
<1>. QED BY <1>1

\* What follows from the promise alone, for whoever keeps it.
LEMMA PromiseMeans ==
    ASSUME NEW CONSTANT e
    PROVE  Video(e)!Spec => []Video(e)!Promised
<1> USE DEF Video!Promised, Video!Files, Video!Stages
<1>1. Video(e)!Init => Video(e)!Promised
    BY DEF Video!Init
<1>2. Video(e)!Promised /\ [Video(e)!Next]_(Video(e)!video) => Video(e)!Promised'
    BY DEF Video!video, Video!Next, Video!Worker, Video!Environment, Video!Begin,
           Video!FindNothing, Video!Receive, Video!Discard, Video!Clear, Video!Rename,
           Video!Accept, Video!Invalidate, Video!Deliver, Video!GiveUp, Video!Collect,
           Video!Crash, Video!Drop, Video!Escape, Video!Elsewhere, Video!Convert, Video!Delete,
           Video!Arrive, Video!Strikes, Video!Lasts, Video!Mishaps
<1>. QED BY <1>1, <1>2, PTL DEF Video!Spec

\* Of every episode, whose worker reports success there is a video, whose worker is
\* at a stream there is no short file unless the file system has failed, and what is
\* validated has no .part beside it:
\* no rule of the season run is needed to see it but that it keeps the promise.
THEOREM NoShortFileInSearch == Spec => \A e \in Episodes : []Video(e)!Promised
<1>1. ASSUME NEW e \in Episodes
      PROVE  Spec => []Video(e)!Promised
    <2>1. Spec => Video(e)!Spec
        BY EveryEpisodeIsVideoFile
    <2>2. Video(e)!Spec => []Video(e)!Promised
        BY PromiseMeans
    <2>. QED BY <2>1, <2>2, PTL
<1>. QED BY <1>1
============================================================================
