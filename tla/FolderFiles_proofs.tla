------------------------- MODULE FolderFiles_proofs -------------------------
(***************************************************************************)
(* Proofs about FolderFiles, for every season, every set of servers and    *)
(* any number of runs and of rewrites by the metadata service.             *)
(***************************************************************************)
EXTENDS FolderFiles, TLAPS

----------------------------------------------------------------------------
(***************************************************************************)
(* Types.                                                                  *)
(***************************************************************************)
\* Only an error of the file system keeps what is written from the disk.
LEMMA WriteDiskType ==
    ASSUME NEW new, WriteDisk(new), disk \in [state : States, config : Configs],
           new \in [state : States, config : Configs], faulty \in BOOLEAN
    PROVE  disk' \in [state : States, config : Configs] /\ faulty' \in BOOLEAN
BY DEF WriteDisk

\* States whose parts change are states.
LEMMA AddDownloadType ==
    ASSUME NEW s \in States, NEW i \in Items, NEW server \in Servers \cup {NoServer}
    PROVE  AddDownload(s, i, server) \in States
BY DEF AddDownload, States, Items

LEMMA AddDownloadItems ==
    ASSUME NEW s \in States, NEW i \in Items, NEW server
    PROVE  \A j \in Items \ {i} : AddDownload(s, i, server).items[j] = s.items[j]
BY DEF AddDownload, States

LEMMA AddDownloadMarked ==
    ASSUME NEW s \in States, NEW i, NEW server
    PROVE  \A j : j # i /\ j \in s.marked => j \in AddDownload(s, i, server).marked
<1>1. CASE i = Film
  BY <1>1 DEF AddDownload, States
<1>2. CASE i # Film
  BY <1>2 DEF AddDownload, States
<1> QED BY <1>1, <1>2

LEMMA RecordExistingType ==
    ASSUME NEW s \in States PROVE RecordExisting(s) \in States
BY DEF RecordExisting, States, Items

LEMMA FreshTypes ==
    FreshState \in States /\ FreshConfig \in Configs /\ NoWrite \in Writes
BY DEF FreshState, States, FreshConfig, Configs, NoWrite, Writes

\* What the start of a save leaves in memory and gives the thread to write.
LEMMA StartSaveType ==
    ASSUME NEW t \in Threads, NEW s \in States, StartSave(t, s),
           writing \in [Threads -> Writes]
    PROVE  /\ memory' \in States /\ memory' = s
           /\ writing' \in [Threads -> Writes]
           /\ \A u \in Threads \ {t} : writing'[u] = writing[u]
           /\ writing'[t].step = "copied" /\ writing'[t].state.items = s.items
<1> DEFINE w == [NoWrite EXCEPT !.step = "copied", !.state.items = s.items]
<1>1. w \in Writes /\ w.step = "copied" /\ w.state.items = s.items
  BY DEF NoWrite, Writes, FreshState, States, FreshConfig, Configs
<1> HIDE DEF w
<1>2. memory' = s /\ writing' = [writing EXCEPT ![t] = w]
  BY DEF StartSave, w
<1> QED BY <1>1, <1>2

LEMMA StartConfigType ==
    ASSUME NEW t \in Threads, NEW c \in Configs, StartConfig(t, c),
           writing \in [Threads -> Writes]
    PROVE  /\ config' \in Configs /\ config' = c
           /\ writing' \in [Threads -> Writes]
           /\ \A u \in Threads \ {t} : writing'[u] = writing[u]
           /\ writing'[t].step = "config" /\ writing'[t].config = c
<1> DEFINE w == [NoWrite EXCEPT !.step = "config", !.config = c]
<1>1. w \in Writes /\ w.step = "config" /\ w.config = c
  BY DEF NoWrite, Writes, FreshState, States, FreshConfig, Configs
<1> HIDE DEF w
<1>2. config' = c /\ writing' = [writing EXCEPT ![t] = w]
  BY DEF StartConfig, w
<1> QED BY <1>1, <1>2

LEMMA GoIdleType ==
    ASSUME GoIdle
    PROVE  /\ phase' = "off" /\ memory' \in States /\ config' \in Configs
           /\ job' \in [Episodes -> Jobs] /\ \A e \in Episodes : job'[e] = "none"
           /\ writing' \in [Threads -> Writes] /\ \A t \in Threads : writing'[t].step = "none"
           /\ disabling' \in [Threads -> SUBSET Servers]
           /\ verified' = {} /\ vanished' = {} /\ inconclusive' = FALSE
<1>1. NoWrite.step = "none"
  BY DEF NoWrite
<1> QED BY <1>1, FreshTypes DEF GoIdle, Jobs

\* The threads of the workers are items, and threads.
LEMMA EpisodeTypes ==
    /\ "main" \in Threads /\ Film \in Items
    /\ \A e \in Episodes : e \in Threads /\ e \in Items /\ e # "main" /\ e # Film
BY ItemsAssumption DEF Threads, Items

\* The list that a thread has computed is saved, unless it is the old one.
LEMMA AssignDisabledType ==
    ASSUME TypeOK, NEW t \in Threads, AssignDisabled(t)
    PROVE  /\ config' \in Configs /\ config'.disabled = disabling[t]
           /\ disabling' \in [Threads -> SUBSET Servers]
           /\ \A u \in Threads \ {t} : disabling'[u] = disabling[u]
           /\ writing' \in [Threads -> Writes]
           /\ \A u \in Threads \ {t} : writing'[u] = writing[u]
           /\ \/ config' = config /\ writing'[t] = writing[t]
              \/ writing'[t].step = "config" /\ writing'[t].config = config'
<1> DEFINE c == [config EXCEPT !.disabled = disabling[t]]
<1>1. c \in Configs /\ c.disabled = disabling[t]
  BY DEF TypeOK, Configs
<1>2. disabling' = [disabling EXCEPT ![t] = {}]
  BY DEF AssignDisabled
<1>3. /\ disabling' \in [Threads -> SUBSET Servers]
      /\ \A u \in Threads \ {t} : disabling'[u] = disabling[u]
  BY <1>2 DEF TypeOK
<1>4. CASE disabling[t] = config.disabled
  BY <1>3, <1>4 DEF AssignDisabled, TypeOK
<1>5. CASE disabling[t] # config.disabled
  <2>1. StartConfig(t, c)
    BY <1>5 DEF AssignDisabled
  <2> HIDE DEF c
  <2> QED BY <1>1, <1>3, <2>1, StartConfigType DEF TypeOK
<1> QED BY <1>4, <1>5

\* A step that leaves the other variables alone needs only say what it changes.
LEMMA TypeInit == Init => TypeOK
<1> SUFFICES ASSUME Init PROVE TypeOK
  OBVIOUS
<1>1. files \subseteq Items /\ disk \in [state : States, config : Configs]
  BY EarlierRunsAssumption DEF Init
<1>2. /\ memory \in States /\ config \in Configs
      /\ job \in [Episodes -> Jobs] /\ writing \in [Threads -> Writes]
      /\ disabling \in [Threads -> SUBSET Servers]
  BY FreshTypes DEF Init, Idle, Jobs
<1>3. runs \in 0..MaxRuns /\ rewrites \in 0..MaxRewrites
  BY BoundsAssumption DEF Init
<1>4. /\ inconclusive \in BOOLEAN /\ shutdown \in BOOLEAN
      /\ faulty \in BOOLEAN /\ clobbered \in BOOLEAN
  BY Zenon DEF Init, Idle
<1>5. /\ kind \in {"season", "film"} /\ phase \in Phases
      /\ verified \subseteq Servers /\ vanished \subseteq Servers /\ refresh \subseteq Configs
  BY DEF Init, Idle, Phases
<1> QED BY <1>1, <1>2, <1>3, <1>4, <1>5 DEF TypeOK

\* Before the run of a season begins, and in that of a film, no worker is there and
\* nobody saves in steps.
Alone ==
    phase \in {"off", "loaded", "cleaned", "filming", "filmed"} =>
        /\ \A e \in Episodes : job[e] = "none"
        /\ \A t \in Threads : Free(t)

\* A worker that goes to disable the server of a lost file has its record.
Looking == \A e \in Episodes : job[e] = "looking" => memory.items[e] \in Servers

LEMMA TypeStep == TypeOK /\ Looking /\ [Next]_vars => TypeOK'
<1> SUFFICES ASSUME TypeOK, Looking, [Next]_vars PROVE TypeOK'
  OBVIOUS
<1> USE EpisodeTypes
<1>1. CASE Load
  <2>1. runs' \in 0..MaxRuns
    BY <1>1, BoundsAssumption DEF Load, TypeOK
  <2>2. /\ inconclusive' \in BOOLEAN /\ shutdown' \in BOOLEAN
        /\ faulty' \in BOOLEAN /\ clobbered' \in BOOLEAN
    BY <1>1, Zenon DEF Load, TypeOK
  <2>3. memory' \in States /\ config' \in Configs /\ phase' \in Phases
    BY <1>1 DEF Load, TypeOK, Phases
  <2> QED BY <1>1, <2>1, <2>2, <2>3 DEF Load, TypeOK
<1>2. CASE UpdateDisabledServers
  <2>1. GoneServers \subseteq Servers
    BY DEF GoneServers
  <2> DEFINE c == [config EXCEPT !.disabled = @ \cup GoneServers]
  <2>2. c \in Configs
    BY <2>1 DEF TypeOK, Configs
  <2>3. config' = c
    BY <1>2 DEF UpdateDisabledServers
  <2> HIDE DEF c
  <2>4. [disk EXCEPT !.config = config'] \in [state : States, config : Configs]
    BY <2>2, <2>3 DEF TypeOK
  <2>5. disk' \in [state : States, config : Configs] /\ faulty' \in BOOLEAN
    BY <1>2, <2>4, WriteDiskType DEF UpdateDisabledServers, TypeOK
  <2> QED BY <1>2, <2>1, <2>2, <2>3, <2>5 DEF UpdateDisabledServers, TypeOK, Phases
<1>3. CASE SkipFolder \/ EndOfProcess
  BY <1>3, GoIdleType DEF SkipFolder, EndOfProcess, TypeOK, history, Phases
<1>4. CASE PrepareSeason
  <2>1. memory' \in States
    BY <1>4 DEF PrepareSeason, TypeOK, States, Items
  <2>2. [disk EXCEPT !.state = memory'] \in [state : States, config : Configs]
    BY <2>1 DEF TypeOK
  <2>3. disk' \in [state : States, config : Configs] /\ faulty' \in BOOLEAN
    BY <1>4, <2>2, WriteDiskType DEF PrepareSeason, TypeOK
  <2>4. job' \in [Episodes -> Jobs] /\ inconclusive' \in BOOLEAN /\ phase' \in Phases
    BY <1>4 DEF PrepareSeason, Jobs, Phases, TypeOK, MayBeInconclusive
  <2> QED BY <1>4, <2>1, <2>3, <2>4 DEF PrepareSeason, TypeOK
<1>5. ASSUME NEW e \in Episodes, Begin(e) PROVE TypeOK'
  <2>1. AddDownload(memory, e, NoServer) \in States
    BY AddDownloadType DEF TypeOK
  <2>2. memory' \in States /\ job' \in [Episodes -> Jobs]
    BY <1>5, <2>1 DEF Begin, TypeOK, Jobs
  <2> QED BY <1>5, <2>2 DEF Begin, TypeOK, history
<1>6. ASSUME NEW e \in Episodes, ReadDisabled(e) PROVE TypeOK'
  <2>1. memory.items[e] \in Servers
    BY <1>6 DEF ReadDisabled, Looking
  <2>2. NewDisabled({memory.items[e]}) \subseteq Servers
    BY <2>1 DEF NewDisabled, TypeOK, Configs
  <2>3. disabling' \in [Threads -> SUBSET Servers] /\ job' \in [Episodes -> Jobs]
    BY <1>6, <2>2 DEF ReadDisabled, TypeOK, Jobs
  <2> QED BY <1>6, <2>3 DEF ReadDisabled, TypeOK, history
<1>7. ASSUME NEW e \in Episodes, DisableServer(e) PROVE TypeOK'
  BY <1>7, AssignDisabledType DEF DisableServer, TypeOK, Jobs, history
<1>8. ASSUME NEW e \in Episodes, MarkInProgress(e) PROVE TypeOK'
  <2>1. [memory EXCEPT !.marked = @ \cup {e}] \in States
    BY DEF TypeOK, States
  <2> QED BY <1>8, <2>1, StartSaveType DEF MarkInProgress, TypeOK, Jobs, history
<1>9. ASSUME NEW e \in Episodes, FirstBytes(e) PROVE TypeOK'
  BY <1>9, StartSaveType DEF FirstBytes, TypeOK, Jobs, history
<1>10. ASSUME NEW e \in Episodes, Finish(e) \/ GiveUp(e) PROVE TypeOK'
  BY <1>10 DEF Finish, GiveUp, EndJob, TypeOK, Jobs, history
<1>11. ASSUME NEW e \in Episodes, ApplySuccess(e) PROVE TypeOK'
  <2>1. PICK server \in Servers : /\ StartSave("main", AddDownload(memory, e, server))
                                  /\ verified' = verified \cup {server}
    BY <1>11 DEF ApplySuccess
  <2>2. AddDownload(memory, e, server) \in States
    BY AddDownloadType DEF TypeOK
  <2>3. memory' \in States /\ writing' \in [Threads -> Writes]
    BY <2>1, <2>2, StartSaveType DEF TypeOK
  <2> QED BY <1>11, <2>1, <2>3 DEF ApplySuccess, TypeOK, Jobs, Phases, history
<1>12. ASSUME NEW e \in Episodes, ApplyFailure(e) \/ NoteBlamed(e) PROVE TypeOK'
  <2> DEFINE s == [memory EXCEPT !.failed = @ \cup {e}, !.marked = @ \ {e}]
  <2>a. s \in States
    BY DEF TypeOK, States
  <2>b. NoteFailure(memory, e) \subseteq {s, memory}
    BY Zenon DEF NoteFailure
  <2> HIDE DEF s
  <2>0. \A m \in NoteFailure(memory, e) : m \in States
    BY <2>a, <2>b DEF TypeOK
  <2>1. memory' \in States
    BY <1>12, <2>0 DEF ApplyFailure, NoteBlamed, TypeOK
  <2>2. disabling' \in [Threads -> SUBSET Servers]
    BY <1>12 DEF ApplyFailure, NoteBlamed, NewDisabled, TypeOK, Configs
  <2> QED BY <1>12, <2>1, <2>2 DEF ApplyFailure, NoteBlamed, TypeOK, Jobs, Phases, history
<1>13. CASE (\E e \in Episodes : Raise(e)) \/ KeyboardInterrupt
  BY <1>13, FreshTypes DEF Raise, KeyboardInterrupt, Abandon, TypeOK, Phases, history
<1>14. CASE SaveVerified \/ CloseServers
  <2>1. [config EXCEPT !.servers = verified] \in Configs
    BY DEF TypeOK, Configs
  <2>2. config' \in Configs /\ writing' \in [Threads -> Writes]
    BY <1>14, <2>1, StartConfigType DEF SaveVerified, CloseServers, TypeOK
  <2> QED BY <1>14, <2>2 DEF SaveVerified, CloseServers, TypeOK, Phases, history
<1>15. CASE BlameServers
  BY <1>15, AssignDisabledType DEF BlameServers, TypeOK, Phases, history
<1>16. CASE NextRound
  BY <1>16 DEF NextRound, TypeOK, Jobs, history
<1>17. CASE StopRounds
  <2>1. memory' \in States
    BY <1>17 DEF StopRounds, Leftovers, TypeOK, States, Items
  <2> QED BY <1>17, <2>1 DEF StopRounds, TypeOK, Jobs, Phases, history
<1>18. CASE CloseState
  <2>1. RecordExisting(memory) \in States
    BY RecordExistingType DEF TypeOK
  <2> QED BY <1>18, <2>1, StartSaveType DEF CloseState, TypeOK, Phases, history
<1>19. CASE Close \/ FilmFailed
  BY <1>19 DEF Close, FilmFailed, TypeOK, Phases, history
<1>20. CASE FilmPresent \/ FilmBegin \/ FilmRecorded
  <2>0. /\ \A server \in Servers \cup {NoServer} : AddDownload(memory, Film, server) \in States
        /\ [memory EXCEPT !.marked = @ \cup {Film}] \in States
    BY AddDownloadType DEF TypeOK, States
  <2>1. memory' \in States
    BY <1>20, <2>0 DEF FilmPresent, FilmBegin, FilmRecorded, TypeOK
  <2>2. [disk EXCEPT !.state = memory'] \in [state : States, config : Configs]
    BY <2>1 DEF TypeOK
  <2>3. disk' \in [state : States, config : Configs] /\ faulty' \in BOOLEAN
    BY <1>20, <2>2, WriteDiskType DEF FilmPresent, FilmBegin, FilmRecorded, TypeOK
  <2> QED BY <1>20, <2>1, <2>3
          DEF FilmPresent, FilmBegin, FilmRecorded, TypeOK, Phases
<1>21. CASE FilmDownloaded
  <2>1. config' \in Configs /\ verified' \subseteq Servers
    BY <1>21 DEF FilmDownloaded, TypeOK, Configs
  <2>2. [disk EXCEPT !.config = config'] \in [state : States, config : Configs]
    BY <2>1 DEF TypeOK
  <2>3. disk' \in [state : States, config : Configs] /\ faulty' \in BOOLEAN
    BY <1>21, <2>2, WriteDiskType DEF FilmDownloaded, TypeOK
  <2> QED BY <1>21, <2>1, <2>3 DEF FilmDownloaded, TypeOK, Phases
<1>22. ASSUME NEW t \in Threads, Dump(t) PROVE TypeOK'
  <2>1. Serialised(writing[t].state) \in States
    BY DEF Serialised, TypeOK, States, Writes
  <2> DEFINE w == [writing[t] EXCEPT !.step = "dumped", !.state = Serialised(writing[t].state)]
  <2>a. writing[t] \in Writes
    BY DEF TypeOK
  <2>2. w \in Writes
    BY <2>1, <2>a DEF Writes
  <2>3. writing' = [writing EXCEPT ![t] = w]
    BY <1>22 DEF Dump
  <2> HIDE DEF w
  <2>4. writing' \in [Threads -> Writes]
    BY <2>2, <2>3 DEF TypeOK
  <2> QED BY <1>22, <2>4 DEF Dump, TypeOK, history
<1>23. ASSUME NEW t \in Threads, DumpRaises(t) PROVE TypeOK'
  BY <1>23, FreshTypes DEF DumpRaises, TypeOK, Phases, Jobs, Threads, history
<1>24. ASSUME NEW t \in Threads, Replace(t) PROVE TypeOK'
  <2>1. Written(t) \in [state : States, config : Configs]
    BY DEF Written, TypeOK, Writes
  <2>2. disk' \in [state : States, config : Configs] /\ faulty' \in BOOLEAN
    BY <1>24, <2>1, WriteDiskType DEF Replace, TypeOK
  <2> QED BY <1>24, <2>2, FreshTypes DEF Replace, TypeOK
<1>25. CASE RequestShutdown \/ \E i \in Items : UserDeletesVideo(i)
  BY <1>25 DEF RequestShutdown, UserDeletesVideo, TypeOK, ours, history
<1>26. CASE UserDeletesFile \/ MetadataWrites
  <2>1. disk' \in [state : States, config : Configs] /\ refresh' \subseteq Configs
    BY <1>26, FreshTypes DEF UserDeletesFile, MetadataWrites, TypeOK
  <2> QED BY <1>26, <2>1 DEF UserDeletesFile, MetadataWrites, TypeOK, ours, history
<1>27. CASE MetadataReads
  <2>1. rewrites' \in 0..MaxRewrites /\ refresh' \subseteq Configs
    BY <1>27, BoundsAssumption DEF MetadataReads, TypeOK
  <2> QED BY <1>27, <2>1 DEF MetadataReads, TypeOK, ours
<1>28. CASE UNCHANGED vars
  BY <1>28 DEF vars, ours, history, TypeOK
<1>29. CASE Main
  BY <1>29, <1>1, <1>2, <1>3, <1>4, <1>11, <1>12, <1>13, <1>14, <1>15, <1>16, <1>17, <1>18,
     <1>19, <1>20, <1>21 DEF Main
<1>30. ASSUME NEW e \in Episodes, Worker(e) PROVE TypeOK'
  BY <1>30, <1>5, <1>6, <1>7, <1>8, <1>9, <1>10 DEF Worker
<1>31. CASE Environment
  BY <1>31, <1>3, <1>25, <1>26, <1>27 DEF Environment
<1> QED BY <1>22, <1>23, <1>24, <1>28, <1>29, <1>30, <1>31 DEF Next

----------------------------------------------------------------------------
(***************************************************************************)
(* Nobody works on a folder that is not prepared.                          *)
(***************************************************************************)
\* A step of a season's main thread, once it is prepared, does not go back.
LEMMA AloneStep == TypeOK /\ Alone /\ [Next]_vars => Alone'
<1> SUFFICES ASSUME TypeOK, Alone, [Next]_vars PROVE Alone'
  OBVIOUS
<1> USE EpisodeTypes
<1>1. CASE Load \/ UpdateDisabledServers
  BY <1>1 DEF Load, UpdateDisabledServers, Alone, Free
<1>2. CASE SkipFolder \/ EndOfProcess
  BY <1>2, GoIdleType DEF SkipFolder, EndOfProcess, Alone, Free
<1>3. CASE PrepareSeason
  BY <1>3 DEF PrepareSeason, Alone
<1>4. ASSUME NEW e \in Episodes, Worker(e) PROVE Alone'
  BY <1>4
  DEF Worker, Begin, ReadDisabled, DisableServer, MarkInProgress, FirstBytes, Finish, GiveUp,
      EndJob, Alone
<1>5. ASSUME NEW e \in Episodes,
             ApplySuccess(e) \/ ApplyFailure(e) \/ NoteBlamed(e) \/ Raise(e)
      PROVE  Alone'
  BY <1>5
  DEF ApplySuccess, ApplyFailure, NoteBlamed, Raise, Abandon, Collecting, Alone
<1>6. CASE SaveVerified \/ BlameServers \/ NextRound \/ StopRounds \/ KeyboardInterrupt
  BY <1>6
  DEF SaveVerified, BlameServers, NextRound, StopRounds, KeyboardInterrupt, Abandon,
      Collecting, Alone
<1>7. CASE CloseServers \/ CloseState \/ Close
  BY <1>7 DEF CloseServers, CloseState, Close, Alone
<1>8. CASE FilmPresent \/ FilmBegin \/ FilmDownloaded \/ FilmRecorded \/ FilmFailed
  BY <1>8
  DEF FilmPresent, FilmBegin, FilmDownloaded, FilmRecorded, FilmFailed, Alone, Free
<1>9. ASSUME NEW t \in Threads, Dump(t) \/ DumpRaises(t) \/ Replace(t) PROVE Alone'
  BY <1>9 DEF Dump, DumpRaises, Replace, Alone, Free
<1>10. CASE \/ RequestShutdown \/ UserDeletesFile \/ MetadataReads \/ MetadataWrites
            \/ (\E i \in Items : UserDeletesVideo(i)) \/ UNCHANGED vars
  BY <1>10
  DEF RequestShutdown, UserDeletesFile, MetadataReads, MetadataWrites, UserDeletesVideo,
      vars, ours, Alone, Free
<1>11. CASE Main
  BY <1>11, <1>1, <1>2, <1>3, <1>5, <1>6, <1>7, <1>8 DEF Main
<1>12. CASE Environment
  BY <1>12, <1>2, <1>10 DEF Environment
<1> QED BY <1>4, <1>9, <1>10, <1>11, <1>12 DEF Next

\* Only the main thread changes the record of an episode, of one that is done.
LEMMA LookingStep == TypeOK /\ Alone /\ Looking /\ [Next]_vars => Looking'
<1> SUFFICES ASSUME TypeOK, Alone, Looking, [Next]_vars PROVE Looking'
  OBVIOUS
<1> USE EpisodeTypes
<1>1. CASE Load \/ UpdateDisabledServers
  BY <1>1 DEF Load, UpdateDisabledServers, Alone, Looking
<1>2. CASE SkipFolder \/ EndOfProcess
  BY <1>2, GoIdleType DEF SkipFolder, EndOfProcess, Looking
<1>3. CASE PrepareSeason
  BY <1>3 DEF PrepareSeason, Looking, TypeOK
<1>4. ASSUME NEW e \in Episodes, Begin(e) PROVE Looking'
  <2>1. \A f \in Episodes \ {e} :
           memory'.items[f] = memory.items[f] /\ (job'[f] = "looking" => job[f] = "looking")
    BY <1>4, AddDownloadItems DEF Begin, TypeOK
  <2>2. job'[e] = "looking" => memory'.items[e] \in Servers
    BY <1>4 DEF Begin, TypeOK
  <2> QED BY <2>1, <2>2 DEF Looking
<1>5. ASSUME NEW e \in Episodes,
             \/ ReadDisabled(e) \/ DisableServer(e) \/ Finish(e) \/ GiveUp(e)
      PROVE  Looking'
  BY <1>5 DEF ReadDisabled, DisableServer, Finish, GiveUp, EndJob, Looking, TypeOK
<1>6. ASSUME NEW e \in Episodes, MarkInProgress(e) \/ FirstBytes(e) PROVE Looking'
  BY <1>6 DEF MarkInProgress, FirstBytes, StartSave, Looking, TypeOK, States
<1>7. ASSUME NEW e \in Episodes, ApplySuccess(e) PROVE Looking'
  <2>1. PICK server \in Servers : memory' = AddDownload(memory, e, server)
    BY <1>7 DEF ApplySuccess, StartSave
  <2>2. \A f \in Episodes \ {e} : memory'.items[f] = memory.items[f]
    BY <2>1, AddDownloadItems DEF TypeOK
  <2> QED BY <1>7, <2>2 DEF ApplySuccess, Looking, TypeOK
<1>8. ASSUME NEW e \in Episodes, ApplyFailure(e) \/ NoteBlamed(e) PROVE Looking'
  <2> DEFINE s == [memory EXCEPT !.failed = @ \cup {e}, !.marked = @ \ {e}]
  <2>1. s.items = memory.items
    BY DEF TypeOK, States
  <2>2. NoteFailure(memory, e) \subseteq {s, memory}
    BY Zenon DEF NoteFailure
  <2> HIDE DEF s
  <2>3. memory'.items = memory.items
    BY <1>8, <2>1, <2>2 DEF ApplyFailure, NoteBlamed
  <2> QED BY <1>8, <2>3 DEF ApplyFailure, NoteBlamed, Looking, TypeOK
<1>9. CASE \/ (\E e \in Episodes : Raise(e)) \/ KeyboardInterrupt
           \/ SaveVerified \/ BlameServers \/ NextRound \/ CloseServers \/ Close
  BY <1>9
  DEF Raise, KeyboardInterrupt, Abandon, SaveVerified, BlameServers, NextRound, CloseServers,
      Close, Looking
<1>10. CASE StopRounds
  <2>1. memory'.items = memory.items
    BY <1>10 DEF StopRounds, TypeOK, States
  <2> QED BY <1>10, <2>1 DEF StopRounds, Looking
<1>11. CASE CloseState
  <2>1. \A e \in Episodes : memory.items[e] \in Servers => memory'.items[e] = memory.items[e]
    BY <1>11, ServersAssumption
    DEF CloseState, StartSave, RecordExisting, TypeOK, States, Items
  <2> QED BY <1>11, <2>1 DEF CloseState, Looking
<1>12. CASE FilmPresent \/ FilmBegin \/ FilmRecorded
  <2>1. \A e \in Episodes : memory'.items[e] = memory.items[e]
    BY <1>12, AddDownloadItems DEF FilmPresent, FilmBegin, FilmRecorded, TypeOK, States
  <2> QED BY <1>12, <2>1 DEF FilmPresent, FilmBegin, FilmRecorded, Looking
<1>13. CASE FilmDownloaded \/ FilmFailed
  BY <1>13 DEF FilmDownloaded, FilmFailed, Looking
<1>14. ASSUME NEW t \in Threads, Dump(t) \/ DumpRaises(t) \/ Replace(t) PROVE Looking'
  BY <1>14 DEF Dump, DumpRaises, Replace, Looking, TypeOK
<1>15. CASE \/ RequestShutdown \/ UserDeletesFile \/ MetadataReads \/ MetadataWrites
            \/ (\E i \in Items : UserDeletesVideo(i)) \/ UNCHANGED vars
  BY <1>15
  DEF RequestShutdown, UserDeletesFile, MetadataReads, MetadataWrites, UserDeletesVideo,
      vars, ours, Looking
<1>16. CASE Main
  BY <1>16, <1>1, <1>2, <1>3, <1>7, <1>8, <1>9, <1>10, <1>11, <1>12, <1>13 DEF Main
<1>17. ASSUME NEW e \in Episodes, Worker(e) PROVE Looking'
  BY <1>17, <1>4, <1>5, <1>6 DEF Worker
<1>18. CASE Environment
  BY <1>18, <1>2, <1>15 DEF Environment
<1> QED BY <1>14, <1>15, <1>16, <1>17, <1>18 DEF Next

LEMMA FilesInvariant == Spec => [](TypeOK /\ Alone /\ Looking)
<1>1. Init => TypeOK /\ Alone /\ Looking
  BY TypeInit DEF Init, Idle, Alone, Looking, Free, NoWrite
<1>2. TypeOK /\ Alone /\ Looking /\ [Next]_vars => (TypeOK /\ Alone /\ Looking)'
  BY TypeStep, AloneStep, LookingStep
<1> QED BY <1>1, <1>2, PTL DEF Spec

\* The state, memory and the files of the folder stay well typed for every season,
\* set of servers and number of runs.
THEOREM FilesTypeCorrect == Spec => []TypeOK
BY FilesInvariant, PTL

----------------------------------------------------------------------------
(***************************************************************************)
(* Vanished servers.  The two locks leave a window in which a list that    *)
(* was computed is overtaken by another; but each is computed from one     *)
(* that has the servers of preparation, so these are in every list that    *)
(* is assigned, saved, or written.                                         *)
(***************************************************************************)
InEveryList ==
    /\ vanished \subseteq config.disabled
    /\ phase = "blaming" => vanished \subseteq disabling["main"]
    /\ \A e \in Episodes : job[e] = "disabling" => vanished \subseteq disabling[e]
    /\ \A t \in Threads :
          writing[t].step = "config" => vanished \subseteq writing[t].config.disabled

InFile == clobbered \/ faulty \/ vanished \subseteq disk.config.disabled

Prepared == phase \notin {"off", "loaded"}

AsLoaded == phase = "loaded" => clobbered \/ config = disk.config

VanishedInv == (Prepared => InEveryList /\ InFile) /\ AsLoaded

\* Changes of the lists in memory and on the way to the file.
LEMMA ListsStep ==
    TypeOK /\ Alone /\ VanishedInv /\ [Next]_vars => (Prepared => InEveryList)'
<1> SUFFICES ASSUME TypeOK, Alone, VanishedInv, [Next]_vars, Prepared'
             PROVE  InEveryList'
  BY DEF Prepared
<1> USE EpisodeTypes
<1>1. CASE Load \/ SkipFolder \/ EndOfProcess
  BY <1>1, GoIdleType DEF Load, SkipFolder, EndOfProcess, Prepared
<1>2. CASE UpdateDisabledServers
  <2>1. vanished' = GoneServers /\ config' = [config EXCEPT !.disabled = @ \cup GoneServers]
    BY <1>2 DEF UpdateDisabledServers
  <2>2. vanished' \subseteq config'.disabled
    BY <2>1 DEF TypeOK, Configs
  <2>3. \A t \in Threads : writing'[t].step = "none"
    BY <1>2 DEF UpdateDisabledServers, Alone, Free
  <2>4. phase' = "cleaned" /\ \A e \in Episodes : job'[e] = "none"
    BY <1>2 DEF UpdateDisabledServers, Alone
  <2> QED BY <2>2, <2>3, <2>4 DEF InEveryList
<1>3. CASE PrepareSeason
  BY <1>3 DEF PrepareSeason, VanishedInv, Prepared, InEveryList
<1>4. ASSUME NEW e \in Episodes, Begin(e) \/ Finish(e) \/ GiveUp(e) PROVE InEveryList'
  <2>1. \A f \in Episodes : job'[f] = "disabling" => job[f] = "disabling"
    BY <1>4 DEF Begin, Finish, GiveUp, EndJob, TypeOK
  <2> QED BY <1>4, <2>1
          DEF Begin, Finish, GiveUp, EndJob, VanishedInv, Prepared, InEveryList
<1>5. ASSUME NEW e \in Episodes, ReadDisabled(e) PROVE InEveryList'
  <2>1. /\ vanished \subseteq disabling'[e]
        /\ \A u \in Threads \ {e} : disabling'[u] = disabling[u]
    BY <1>5 DEF ReadDisabled, NewDisabled, VanishedInv, Prepared, InEveryList, TypeOK
  <2>2. \A f \in Episodes \ {e} : job'[f] = job[f]
    BY <1>5 DEF ReadDisabled, TypeOK
  <2> QED BY <1>5, <2>1, <2>2 DEF ReadDisabled, VanishedInv, Prepared, InEveryList
<1>6. ASSUME NEW e \in Episodes, DisableServer(e) PROVE InEveryList'
  <2>1. vanished \subseteq disabling[e] /\ vanished' = vanished /\ phase' = phase
    BY <1>6 DEF DisableServer, VanishedInv, Prepared, InEveryList
  <2>2. job'[e] # "disabling" /\ \A f \in Episodes \ {e} : job'[f] = job[f]
    BY <1>6 DEF DisableServer, TypeOK
  <2>3. AssignDisabled(e)
    BY <1>6 DEF DisableServer
  <2> QED BY <2>1, <2>2, <2>3, AssignDisabledType DEF VanishedInv, Prepared, InEveryList
<1>7. ASSUME NEW e \in Episodes, MarkInProgress(e) \/ FirstBytes(e) PROVE InEveryList'
  <2>1. [memory EXCEPT !.marked = @ \cup {e}] \in States
    BY DEF TypeOK, States
  <2>2. /\ writing'[e].step = "copied"
        /\ \A u \in Threads \ {e} : writing'[u] = writing[u]
    BY <1>7, <2>1, StartSaveType DEF MarkInProgress, FirstBytes, TypeOK
  <2>3. \A f \in Episodes : job'[f] = "disabling" => job[f] = "disabling"
    BY <1>7 DEF MarkInProgress, FirstBytes, TypeOK
  <2> QED BY <1>7, <2>2, <2>3
          DEF MarkInProgress, FirstBytes, VanishedInv, Prepared, InEveryList
<1>8. ASSUME NEW e \in Episodes, ApplySuccess(e) PROVE InEveryList'
  <2>1. PICK server \in Servers : StartSave("main", AddDownload(memory, e, server))
    BY <1>8 DEF ApplySuccess
  <2>2. AddDownload(memory, e, server) \in States
    BY AddDownloadType DEF TypeOK
  <2>3. /\ writing'["main"].step = "copied"
        /\ \A u \in Threads \ {"main"} : writing'[u] = writing[u]
    BY <2>1, <2>2, StartSaveType DEF TypeOK
  <2>4. \A f \in Episodes : job'[f] = "disabling" => job[f] = "disabling"
    BY <1>8 DEF ApplySuccess, TypeOK
  <2> QED BY <1>8, <2>3, <2>4
          DEF ApplySuccess, Collecting, VanishedInv, Prepared, InEveryList
<1>9. ASSUME NEW e \in Episodes, ApplyFailure(e) PROVE InEveryList'
  <2>1. \A f \in Episodes : job'[f] = "disabling" => job[f] = "disabling"
    BY <1>9 DEF ApplyFailure, TypeOK
  <2>2. Prepared /\ phase = "working"
    BY <1>9 DEF ApplyFailure, Collecting, Prepared
  <2>3. /\ phase' = "blaming" => vanished \subseteq disabling'["main"]
        /\ \A u \in Threads \ {"main"} : disabling'[u] = disabling[u]
    BY <1>9, <2>2
    DEF ApplyFailure, NewDisabled, VanishedInv, InEveryList, TypeOK
  <2> QED BY <1>9, <2>1, <2>2, <2>3 DEF ApplyFailure, VanishedInv, InEveryList
<1>10. CASE BlameServers
  <2>1. vanished \subseteq disabling["main"] /\ vanished' = vanished /\ phase' = "noting"
    BY <1>10 DEF BlameServers, VanishedInv, Prepared, InEveryList
  <2>2. job' = job /\ AssignDisabled("main")
    BY <1>10 DEF BlameServers
  <2>3. Prepared
    BY <1>10 DEF BlameServers, Prepared
  <2> QED BY <2>1, <2>2, <2>3, AssignDisabledType DEF VanishedInv, InEveryList
<1>11. CASE (\E e \in Episodes : NoteBlamed(e)) \/ NextRound \/ StopRounds
  <2>1. \A f \in Episodes : job'[f] = "disabling" => job[f] = "disabling"
    BY <1>11 DEF NoteBlamed, NextRound, StopRounds, TypeOK
  <2> QED BY <1>11, <2>1
          DEF NoteBlamed, NextRound, StopRounds, Collecting, VanishedInv, Prepared,
              InEveryList
<1>12. CASE (\E e \in Episodes : Raise(e)) \/ KeyboardInterrupt
  <2>1. /\ Prepared /\ phase' = "abandoned"
        /\ writing' = [writing EXCEPT !["main"] = NoWrite]
        /\ UNCHANGED <<config, disabling, vanished, job>>
    BY <1>12 DEF Raise, KeyboardInterrupt, Collecting, Abandon, Prepared
  <2>2. /\ writing'["main"].step = "none"
        /\ \A u \in Threads \ {"main"} : writing'[u] = writing[u]
    BY <2>1 DEF TypeOK, NoWrite
  <2> QED BY <2>1, <2>2 DEF VanishedInv, InEveryList
<1>13. CASE SaveVerified \/ CloseServers
  <2> DEFINE c == [config EXCEPT !.servers = verified]
  <2>1. c \in Configs /\ c.disabled = config.disabled
    BY DEF TypeOK, Configs
  <2>2. \/ UNCHANGED <<config, writing>>
        \/ StartConfig("main", c)
    BY <1>13 DEF SaveVerified, CloseServers
  <2> HIDE DEF c
  <2>3. /\ config'.disabled = config.disabled
        /\ \A t \in Threads :
              \/ writing'[t] = writing[t]
              \/ writing'[t].step = "config" /\ writing'[t].config.disabled = config.disabled
    BY <2>1, <2>2, StartConfigType DEF TypeOK
  <2>4. Prepared
    BY <1>13 DEF SaveVerified, CloseServers, Prepared
  <2> QED BY <1>13, <2>3, <2>4 DEF SaveVerified, CloseServers, VanishedInv, InEveryList
<1>14. CASE CloseState
  <2>1. RecordExisting(memory) \in States
    BY RecordExistingType DEF TypeOK
  <2>2. /\ writing'["main"].step = "copied"
        /\ \A u \in Threads \ {"main"} : writing'[u] = writing[u]
    BY <1>14, <2>1, StartSaveType DEF CloseState, TypeOK
  <2> QED BY <1>14, <2>2 DEF CloseState, VanishedInv, Prepared, InEveryList
<1>15. CASE Close \/ FilmPresent \/ FilmBegin \/ FilmRecorded \/ FilmFailed
  BY <1>15
  DEF Close, FilmPresent, FilmBegin, FilmRecorded, FilmFailed, VanishedInv, Prepared,
      InEveryList
<1>16. CASE FilmDownloaded
  <2>1. config'.disabled = config.disabled
    BY <1>16 DEF FilmDownloaded, TypeOK, Configs
  <2> QED BY <1>16, <2>1 DEF FilmDownloaded, VanishedInv, Prepared, InEveryList
<1>17. ASSUME NEW t \in Threads, Dump(t) \/ DumpRaises(t) \/ Replace(t) PROVE InEveryList'
  <2>1. \A u \in Threads : writing'[u].step = "config" => writing'[u] = writing[u]
    BY <1>17 DEF Dump, DumpRaises, Replace, NoWrite, TypeOK, Writes
  <2>2. \A f \in Episodes : job'[f] = "disabling" => job[f] = "disabling"
    BY <1>17 DEF Dump, DumpRaises, Replace, TypeOK
  <2>3. Prepared
    BY <1>17 DEF Dump, DumpRaises, Replace, Alone, Free, Prepared
  <2>4. /\ phase' = "blaming" => phase = "blaming"
        /\ UNCHANGED <<config, disabling, vanished>>
    BY <1>17 DEF Dump, DumpRaises, Replace
  <2> QED BY <2>1, <2>2, <2>3, <2>4 DEF VanishedInv, InEveryList
<1>18. CASE \/ RequestShutdown \/ UserDeletesFile \/ MetadataReads \/ MetadataWrites
            \/ (\E i \in Items : UserDeletesVideo(i)) \/ UNCHANGED vars
  BY <1>18
  DEF RequestShutdown, UserDeletesFile, MetadataReads, MetadataWrites, UserDeletesVideo,
      vars, ours, VanishedInv, Prepared, InEveryList
<1>19. CASE Main
  BY <1>19, <1>1, <1>2, <1>3, <1>8, <1>9, <1>10, <1>11, <1>12, <1>13, <1>14, <1>15, <1>16
  DEF Main
<1>20. ASSUME NEW e \in Episodes, Worker(e) PROVE InEveryList'
  BY <1>20, <1>4, <1>5, <1>6, <1>7 DEF Worker
<1>21. CASE Environment
  BY <1>21, <1>1, <1>18 DEF Environment
<1> QED BY <1>17, <1>18, <1>19, <1>20, <1>21 DEF Next

\* Changes of the file: every list that is written has the servers of preparation,
\* but for one that a metadata run has read before.
LEMMA FileStep ==
    TypeOK /\ Alone /\ VanishedInv /\ [Next]_vars => (Prepared => InFile)'
<1> SUFFICES ASSUME TypeOK, Alone, VanishedInv, [Next]_vars, Prepared'
             PROVE  InFile'
  BY DEF Prepared
<1> USE EpisodeTypes
<1> DEFINE Kept == Prepared /\ vanished' = vanished /\ clobbered' = clobbered
<1>1. ASSUME Kept, faulty' = faulty, disk'.config = disk.config PROVE InFile'
  BY <1>1 DEF VanishedInv, InFile
<1>2. ASSUME NEW new, WriteDisk(new), Kept,
             vanished \subseteq new.config.disabled \/ new.config = disk.config
      PROVE  InFile'
  BY <1>2 DEF VanishedInv, InFile, WriteDisk
<1>3. CASE Load \/ SkipFolder \/ EndOfProcess
  BY <1>3, GoIdleType DEF Load, SkipFolder, EndOfProcess, Prepared
<1>4. CASE UpdateDisabledServers
  <2> DEFINE new == [disk EXCEPT !.config = config']
  <2>1. vanished' = GoneServers /\ config' = [config EXCEPT !.disabled = @ \cup GoneServers]
    BY <1>4 DEF UpdateDisabledServers
  <2>2. vanished' \subseteq config'.disabled /\ new.config = config'
    BY <2>1 DEF TypeOK, Configs
  <2>3. CASE WriteDisk(new)
    <3> HIDE DEF new
    <3> QED BY <2>2, <2>3 DEF WriteDisk, InFile
  <2>4. CASE GoneServers \subseteq config.disabled /\ UNCHANGED disk
    <3>1. clobbered' \/ config = disk.config
      BY <1>4, Zenon DEF UpdateDisabledServers, VanishedInv, AsLoaded
    <3>2. config = disk.config => vanished' \subseteq disk'.config.disabled
      BY <2>1, <2>4
    <3> QED BY <3>1, <3>2, Zenon DEF InFile
  <2> QED BY <1>4, <2>3, <2>4 DEF UpdateDisabledServers
<1>5. CASE PrepareSeason \/ FilmPresent \/ FilmBegin \/ FilmRecorded
  <2> DEFINE new == [disk EXCEPT !.state = memory']
  <2>1. WriteDisk(new) /\ Kept
    BY <1>5 DEF PrepareSeason, FilmPresent, FilmBegin, FilmRecorded, Prepared
  <2>2. new.config = disk.config
    BY DEF TypeOK
  <2> QED BY <1>2, <2>1, <2>2
<1>6. CASE FilmDownloaded
  <2> DEFINE new == [disk EXCEPT !.config = config']
  <2>1. Kept /\ (WriteDisk(new) \/ UNCHANGED <<disk, faulty>>)
    BY <1>6 DEF FilmDownloaded, Prepared
  <2>2. config'.disabled = config.disabled /\ new.config = config'
    BY <1>6 DEF FilmDownloaded, TypeOK, Configs
  <2>3. vanished \subseteq new.config.disabled
    BY <2>1, <2>2 DEF VanishedInv, InEveryList
  <2> HIDE DEF new
  <2> QED BY <1>1, <1>2, <2>1, <2>3
<1>7. ASSUME NEW e \in Episodes, Worker(e) PROVE InFile'
  BY <1>7, <1>1
  DEF Worker, Begin, ReadDisabled, DisableServer, MarkInProgress, FirstBytes, Finish, GiveUp,
      EndJob, Prepared, history
<1>8. ASSUME NEW e \in Episodes,
             ApplySuccess(e) \/ ApplyFailure(e) \/ NoteBlamed(e) \/ Raise(e)
      PROVE  InFile'
  BY <1>8, <1>1
  DEF ApplySuccess, ApplyFailure, NoteBlamed, Raise, Abandon, Collecting, Prepared, history
<1>9. CASE \/ SaveVerified \/ BlameServers \/ NextRound \/ StopRounds \/ KeyboardInterrupt
           \/ CloseServers \/ CloseState \/ Close \/ FilmFailed
  BY <1>9, <1>1
  DEF SaveVerified, BlameServers, NextRound, StopRounds, KeyboardInterrupt, Abandon,
      Collecting, CloseServers, CloseState, Close, FilmFailed, Prepared, history
<1>10. ASSUME NEW t \in Threads, Dump(t) \/ DumpRaises(t) PROVE InFile'
  <2>1. Prepared
    BY <1>10 DEF Dump, DumpRaises, Alone, Free, Prepared
  <2> QED BY <1>10, <1>1, <2>1 DEF Dump, DumpRaises, history
<1>11. ASSUME NEW t \in Threads, Replace(t) PROVE InFile'
  <2>1. Kept /\ WriteDisk(Written(t)) /\ writing[t].step \in {"dumped", "config"}
    BY <1>11 DEF Replace, Alone, Free, Prepared
  <2>2. Written(t).config = (IF writing[t].step = "dumped" THEN disk.config
                             ELSE writing[t].config)
    BY DEF Written, TypeOK
  <2>3. writing[t].step = "config" => vanished \subseteq writing[t].config.disabled
    BY <2>1 DEF VanishedInv, InEveryList
  <2> QED BY <1>2, <2>1, <2>2, <2>3
<1>12. CASE RequestShutdown \/ MetadataReads \/ (\E i \in Items : UserDeletesVideo(i))
            \/ UNCHANGED vars
  <2>1. Kept /\ faulty' = faulty /\ disk' = disk
    BY <1>12
    DEF RequestShutdown, MetadataReads, UserDeletesVideo, vars, ours, history, Prepared
  <2> QED BY <1>1, <2>1
<1>13. CASE UserDeletesFile \/ MetadataWrites
  BY <1>13, Zenon DEF UserDeletesFile, MetadataWrites, ours, Prepared, InFile
<1>14. CASE Main
  BY <1>14, <1>3, <1>4, <1>5, <1>6, <1>8, <1>9 DEF Main
<1>15. CASE Environment
  BY <1>15, <1>3, <1>12, <1>13 DEF Environment
<1> QED BY <1>7, <1>10, <1>11, <1>12, <1>14, <1>15 DEF Next

\* Until the run prepares the folder, its config is that of the file.
LEMMA AsLoadedStep == TypeOK /\ Alone /\ AsLoaded /\ [Next]_vars => AsLoaded'
<1> SUFFICES ASSUME TypeOK, Alone, AsLoaded, [Next]_vars, phase' = "loaded"
             PROVE  clobbered' \/ config' = disk'.config
  BY DEF AsLoaded
<1> USE EpisodeTypes
<1>1. ASSUME phase = "loaded", UNCHANGED <<config, disk, clobbered>>
      PROVE  clobbered' \/ config' = disk'.config
  BY <1>1, Zenon DEF AsLoaded
<1>2. CASE Load
  BY <1>2 DEF Load
<1>3. CASE SkipFolder \/ EndOfProcess
  BY <1>3, GoIdleType DEF SkipFolder, EndOfProcess
<1>4. ASSUME NEW e \in Episodes, Worker(e) PROVE clobbered' \/ config' = disk'.config
  BY <1>4
  DEF Worker, Begin, ReadDisabled, DisableServer, MarkInProgress, FirstBytes, Finish, GiveUp,
      EndJob, Alone
<1>5. ASSUME NEW t \in Threads, Dump(t) \/ DumpRaises(t) \/ Replace(t)
      PROVE  clobbered' \/ config' = disk'.config
  BY <1>5 DEF Dump, DumpRaises, Replace, Alone, Free
<1>6. CASE \/ RequestShutdown \/ MetadataReads \/ (\E i \in Items : UserDeletesVideo(i))
           \/ UNCHANGED vars
  BY <1>6, <1>1 DEF RequestShutdown, MetadataReads, UserDeletesVideo, vars, ours, history
<1>7. CASE UserDeletesFile \/ MetadataWrites
  BY <1>7 DEF UserDeletesFile, MetadataWrites, ours
<1>8. CASE Main
  BY <1>8, <1>2, <1>3
  DEF Main, UpdateDisabledServers, PrepareSeason, ApplySuccess, ApplyFailure, NoteBlamed,
      Raise, Abandon, SaveVerified, BlameServers, NextRound, StopRounds, KeyboardInterrupt,
      Collecting, CloseServers, CloseState, Close, FilmPresent, FilmBegin, FilmDownloaded,
      FilmRecorded, FilmFailed
<1>9. CASE Environment
  BY <1>9, <1>3, <1>6, <1>7 DEF Environment
<1> QED BY <1>4, <1>5, <1>6, <1>8, <1>9 DEF Next

\* A server whose video the user deleted stays disabled until the run ends, in
\* memory and in the file, for every number of workers that add servers of their
\* own to the list in their own time.
THEOREM VanishedStayDisabled == Spec => []VanishedDisabled
<1>1. Init => VanishedInv
  BY DEF Init, Idle, VanishedInv, Prepared, AsLoaded
<1>2. TypeOK /\ Alone /\ VanishedInv /\ [Next]_vars => VanishedInv'
  BY ListsStep, FileStep, AsLoadedStep DEF VanishedInv
<1>3. VanishedInv => VanishedDisabled
  BY DEF VanishedInv, VanishedDisabled, Prepared, InEveryList, InFile
<1> QED BY <1>1, <1>2, <1>3, FilesInvariant, PTL DEF Spec

----------------------------------------------------------------------------
(***************************************************************************)
(* The file keeps up.  A worker goes on only when its own save has been    *)
(* written, and its marker stays in memory as long as it runs; so the      *)
(* marker is in whatever any thread serialises meanwhile, and an older     *)
(* snapshot that is written last has it too.  When the main thread closes  *)
(* nobody else writes, so its last save is what stays.                     *)
(***************************************************************************)
Ending == {"closing", "recording", "saving", "closed"}

Calm ==
    /\ \A e \in Episodes : ~Running(e) => Free(e)
    /\ phase \in Ending => \A e \in Episodes : ~Running(e)

\* A worker stops running only when it has nothing to write.
LEMMA CalmStep == TypeOK /\ Alone /\ Calm /\ [Next]_vars => Calm'
<1> SUFFICES ASSUME TypeOK, Alone, Calm, [Next]_vars PROVE Calm'
  OBVIOUS
<1> USE EpisodeTypes
<1>1. ASSUME NEW e \in Episodes,
             \A f \in Episodes \ {e} : job'[f] = job[f] /\ writing'[f] = writing[f],
             Running(e)' \/ Free(e)', phase' = phase, phase \notin Ending \/ ~Running(e)'
      PROVE  Calm'
  BY <1>1 DEF Calm, Running, Free
<1>2. ASSUME \A e \in Episodes : writing'[e] = writing[e], job' = job,
             phase' \in Ending => phase \in Ending \/ \A e \in Episodes : job[e] = "none"
      PROVE  Calm'
  BY <1>2 DEF Calm, Running, Free
<1>3. CASE Load \/ UpdateDisabledServers
  BY <1>3 DEF Load, UpdateDisabledServers, Calm, Running, Free, Ending
<1>4. CASE SkipFolder \/ EndOfProcess
  BY <1>4, GoIdleType DEF SkipFolder, EndOfProcess, Calm, Running, Free, Ending
<1>5. CASE PrepareSeason
  <2>1. \A e \in Episodes : job'[e] \in {"queued", "none"} /\ Free(e)
    BY <1>5 DEF PrepareSeason, Alone
  <2> QED BY <1>5, <2>1 DEF PrepareSeason, Calm, Running, Free
<1>6. ASSUME NEW e \in Episodes, Begin(e) PROVE Calm'
  <2>1. Free(e) /\ phase \notin Ending
    BY <1>6 DEF Begin, Calm, Running, Ending
  <2>2. /\ Free(e)' /\ phase' = phase
        /\ \A f \in Episodes \ {e} : job'[f] = job[f] /\ writing'[f] = writing[f]
    BY <1>6, <2>1 DEF Begin, TypeOK, Free
  <2> QED BY <1>1, <2>1, <2>2
<1>7. ASSUME NEW e \in Episodes, ReadDisabled(e) \/ Finish(e) \/ GiveUp(e) PROVE Calm'
  <2>1. Running(e) /\ phase \notin Ending
    BY <1>7 DEF ReadDisabled, Finish, GiveUp, Calm, Running
  <2>2. /\ (Running(e)' \/ Free(e)') /\ phase' = phase
        /\ \A f \in Episodes \ {e} : job'[f] = job[f] /\ writing'[f] = writing[f]
    BY <1>7 DEF ReadDisabled, Finish, GiveUp, EndJob, TypeOK, Running, Free
  <2> QED BY <1>1, <2>1, <2>2, <1>7 DEF ReadDisabled, Finish, GiveUp, EndJob
<1>8. ASSUME NEW e \in Episodes, DisableServer(e) PROVE Calm'
  <2>1. AssignDisabled(e) /\ Running(e) /\ Running(e)' /\ phase' = phase
    BY <1>8 DEF DisableServer, Running, TypeOK
  <2>2. \A f \in Episodes \ {e} : job'[f] = job[f] /\ writing'[f] = writing[f]
    BY <1>8, <2>1, AssignDisabledType DEF DisableServer, TypeOK
  <2> QED BY <1>1, <2>1, <2>2 DEF Calm
<1>9. ASSUME NEW e \in Episodes, MarkInProgress(e) \/ FirstBytes(e) PROVE Calm'
  <2>0. [memory EXCEPT !.marked = @ \cup {e}] \in States
    BY DEF TypeOK, States
  <2>1. Running(e) /\ Running(e)' /\ phase' = phase
    BY <1>9 DEF MarkInProgress, FirstBytes, Running, TypeOK
  <2>2. \A f \in Episodes \ {e} : job'[f] = job[f] /\ writing'[f] = writing[f]
    BY <1>9, <2>0, StartSaveType DEF MarkInProgress, FirstBytes, TypeOK
  <2> QED BY <1>1, <2>1, <2>2 DEF Calm
<1>10. ASSUME NEW e \in Episodes, ApplySuccess(e) PROVE Calm'
  <2>1. PICK server \in Servers : StartSave("main", AddDownload(memory, e, server))
    BY <1>10 DEF ApplySuccess
  <2>2. AddDownload(memory, e, server) \in States
    BY AddDownloadType DEF TypeOK
  <2>3. \A f \in Episodes : writing'[f] = writing[f]
    BY <2>1, <2>2, StartSaveType DEF TypeOK
  <2>4. \A f \in Episodes : Running(f)' = Running(f)
    BY <1>10 DEF ApplySuccess, Running, TypeOK
  <2> QED BY <1>10, <2>3, <2>4 DEF ApplySuccess, Calm, Free, Ending
<1>11. ASSUME NEW e \in Episodes, ApplyFailure(e) \/ NoteBlamed(e) PROVE Calm'
  <2>1. \A f \in Episodes : Running(f)' = Running(f)
    BY <1>11 DEF ApplyFailure, NoteBlamed, Running, TypeOK
  <2>2. phase \notin Ending /\ phase' \notin Ending /\ writing' = writing
    BY <1>11 DEF ApplyFailure, NoteBlamed, Collecting, Ending
  <2> QED BY <2>1, <2>2 DEF Calm, Free
<1>12. CASE (\E e \in Episodes : Raise(e)) \/ KeyboardInterrupt
  <2>1. phase' = "abandoned" /\ job' = job /\ \A f \in Episodes : writing'[f] = writing[f]
    BY <1>12 DEF Raise, KeyboardInterrupt, Abandon, TypeOK
  <2> QED BY <1>2, <2>1 DEF Ending
<1>13. CASE SaveVerified \/ CloseServers
  <2>1. [config EXCEPT !.servers = verified] \in Configs
    BY DEF TypeOK, Configs
  <2>2. job' = job /\ \A f \in Episodes : writing'[f] = writing[f]
    BY <1>13, <2>1, StartConfigType DEF SaveVerified, CloseServers, TypeOK
  <2> QED BY <1>2, <1>13, <2>2 DEF SaveVerified, CloseServers, Ending
<1>14. CASE BlameServers
  <2>1. \A f \in Episodes : writing'[f] = writing[f]
    BY <1>14, AssignDisabledType DEF BlameServers, TypeOK
  <2> QED BY <1>2, <1>14, <2>1 DEF BlameServers, Ending
<1>15. CASE NextRound
  BY <1>15 DEF NextRound, Collecting, Collected, Calm, Running, Free, Ending
<1>16. CASE StopRounds
  <2>1. \A e \in Episodes : ~Running(e) /\ Free(e)
    BY <1>16 DEF StopRounds, Stopped, Collected, Calm, Running
  <2> QED BY <1>16, <2>1 DEF StopRounds, Calm, Running, Free
<1>17. CASE CloseState
  <2>1. RecordExisting(memory) \in States
    BY RecordExistingType DEF TypeOK
  <2>2. \A f \in Episodes : writing'[f] = writing[f]
    BY <1>17, <2>1, StartSaveType DEF CloseState, TypeOK
  <2> QED BY <1>2, <1>17, <2>2 DEF CloseState, Ending
<1>18. CASE Close \/ FilmPresent \/ FilmBegin \/ FilmDownloaded \/ FilmRecorded \/ FilmFailed
  <2>1. job' = job /\ writing' = writing
    BY <1>18 DEF Close, FilmPresent, FilmBegin, FilmDownloaded, FilmRecorded, FilmFailed
  <2>2. phase \in Ending \/ \A e \in Episodes : job[e] = "none"
    BY <1>18
    DEF Close, FilmPresent, FilmBegin, FilmDownloaded, FilmRecorded, FilmFailed, Alone, Ending
  <2> QED BY <1>2, <2>1, <2>2
<1>19. ASSUME NEW t \in Threads, Dump(t) PROVE Calm'
  <2>1. \A f \in Episodes : Free(f)' = Free(f)
    BY <1>19 DEF Dump, Free, TypeOK, Writes
  <2> QED BY <1>19, <2>1 DEF Dump, Calm, Running
<1>20. ASSUME NEW t \in Threads, DumpRaises(t) PROVE Calm'
  <2>1. \A f \in Episodes : (Free(f) => Free(f)') /\ (Running(f)' => Running(f))
    BY <1>20 DEF DumpRaises, Free, NoWrite, TypeOK, Running
  <2>2. phase' \in Ending => phase \in Ending
    BY <1>20 DEF DumpRaises, Ending
  <2>3. \A f \in Episodes : ~Running(f)' => Free(f)'
    BY <1>20, <2>1 DEF DumpRaises, Free, NoWrite, TypeOK, Running, Calm
  <2> QED BY <2>1, <2>2, <2>3 DEF Calm
<1>21. ASSUME NEW t \in Threads, Replace(t) PROVE Calm'
  <2>1. \A f \in Episodes : Free(f) => Free(f)'
    BY <1>21 DEF Replace, Free, NoWrite, TypeOK
  <2> QED BY <1>21, <2>1 DEF Replace, Calm, Running
<1>22. CASE \/ RequestShutdown \/ UserDeletesFile \/ MetadataReads \/ MetadataWrites
            \/ (\E i \in Items : UserDeletesVideo(i)) \/ UNCHANGED vars
  BY <1>22, <1>2
  DEF RequestShutdown, UserDeletesFile, MetadataReads, MetadataWrites, UserDeletesVideo,
      vars, ours
<1>23. CASE Main
  BY <1>23, <1>3, <1>4, <1>5, <1>10, <1>11, <1>12, <1>13, <1>14, <1>15, <1>16, <1>17, <1>18
  DEF Main
<1>24. ASSUME NEW e \in Episodes, Worker(e) PROVE Calm'
  BY <1>24, <1>6, <1>7, <1>8, <1>9 DEF Worker
<1>25. CASE Environment
  BY <1>25, <1>4, <1>22 DEF Environment
<1> QED BY <1>19, <1>20, <1>21, <1>22, <1>23, <1>24, <1>25 DEF Next

Marked == \A e \in Episodes : job[e] \in {"searching", "downloading"} => e \in memory.marked

\* A marker is taken away only with the result, or from one who is put back.
LEMMA MarkedStep == TypeOK /\ Alone /\ Calm /\ Marked /\ [Next]_vars => Marked'
<1> SUFFICES ASSUME TypeOK, Alone, Calm, Marked, [Next]_vars PROVE Marked'
  OBVIOUS
<1> USE EpisodeTypes
<1>1. ASSUME \A e \in Episodes : job'[e] \in {"searching", "downloading"} =>
                   job[e] \in {"searching", "downloading"} /\
                   (e \in memory.marked => e \in memory'.marked)
      PROVE  Marked'
  BY <1>1 DEF Marked
<1>2. CASE Load \/ UpdateDisabledServers \/ PrepareSeason
  <2>1. \A e \in Episodes : job'[e] \notin {"searching", "downloading"}
    BY <1>2 DEF Load, UpdateDisabledServers, PrepareSeason, Alone
  <2> QED BY <2>1 DEF Marked
<1>3. CASE SkipFolder \/ EndOfProcess
  BY <1>3, GoIdleType DEF SkipFolder, EndOfProcess, Marked
<1>4. ASSUME NEW e \in Episodes, Begin(e) PROVE Marked'
  <2>1. \A f \in Episodes \ {e} : f \in memory.marked => f \in memory'.marked
    BY <1>4, AddDownloadMarked DEF Begin, TypeOK
  <2>2. job'[e] \notin {"searching", "downloading"} /\ \A f \in Episodes \ {e} : job'[f] = job[f]
    BY <1>4 DEF Begin, TypeOK
  <2> QED BY <1>1, <2>1, <2>2
<1>5. ASSUME NEW e \in Episodes,
             ReadDisabled(e) \/ DisableServer(e) \/ Finish(e) \/ GiveUp(e)
      PROVE  Marked'
  BY <1>5 DEF ReadDisabled, DisableServer, Finish, GiveUp, EndJob, Marked, TypeOK
<1>6. ASSUME NEW e \in Episodes, MarkInProgress(e) \/ FirstBytes(e) PROVE Marked'
  <2>1. /\ memory.marked \subseteq memory'.marked
        /\ job'[e] \in {"searching", "downloading"} => e \in memory'.marked
        /\ \A f \in Episodes \ {e} : job'[f] = job[f]
    BY <1>6 DEF MarkInProgress, FirstBytes, StartSave, TypeOK, States, Marked
  <2> QED BY <2>1 DEF Marked
<1>7. ASSUME NEW e \in Episodes, ApplySuccess(e) PROVE Marked'
  <2>1. PICK server \in Servers : memory' = AddDownload(memory, e, server)
    BY <1>7 DEF ApplySuccess, StartSave
  <2>2. \A f \in Episodes \ {e} : f \in memory.marked => f \in memory'.marked
    BY <2>1, AddDownloadMarked DEF TypeOK
  <2>3. job'[e] = "none" /\ \A f \in Episodes \ {e} : job'[f] = job[f]
    BY <1>7 DEF ApplySuccess, TypeOK
  <2> QED BY <1>1, <2>2, <2>3
<1>8. ASSUME NEW e \in Episodes, ApplyFailure(e) \/ NoteBlamed(e) PROVE Marked'
  <2> DEFINE s == [memory EXCEPT !.failed = @ \cup {e}, !.marked = @ \ {e}]
  <2>1. s.marked = memory.marked \ {e}
    BY DEF TypeOK, States
  <2>2. NoteFailure(memory, e) \subseteq {s, memory}
    BY Zenon DEF NoteFailure
  <2> HIDE DEF s
  <2>3. \A f \in Episodes \ {e} : f \in memory.marked => f \in memory'.marked
    BY <1>8, <2>1, <2>2 DEF ApplyFailure, NoteBlamed
  <2>4. /\ job'[e] \notin {"searching", "downloading"}
        /\ \A f \in Episodes \ {e} : job'[f] = job[f]
    BY <1>8 DEF ApplyFailure, NoteBlamed, TypeOK
  <2> QED BY <1>1, <2>3, <2>4
<1>9. CASE \/ (\E e \in Episodes : Raise(e)) \/ KeyboardInterrupt
           \/ SaveVerified \/ BlameServers \/ NextRound \/ CloseServers \/ Close
           \/ FilmDownloaded \/ FilmFailed
  BY <1>9
  DEF Raise, KeyboardInterrupt, Abandon, SaveVerified, BlameServers, NextRound, CloseServers,
      Close, FilmDownloaded, FilmFailed, Marked
<1>10. CASE StopRounds
  <2>1. \A e \in Episodes :
           job'[e] \in {"searching", "downloading"} => job'[e] = job[e] /\ e \notin Leftovers
    BY <1>10 DEF StopRounds, Leftovers
  <2> DEFINE s == [memory EXCEPT !.failed = @ \cup Leftovers, !.marked = @ \ Leftovers]
  <2>a. s.marked = memory.marked \ Leftovers
    BY DEF TypeOK, States
  <2>b. memory' = memory \/ memory' = s
    BY <1>10, Zenon DEF StopRounds
  <2> HIDE DEF s
  <2>2. \A e \in Episodes \ Leftovers : e \in memory.marked => e \in memory'.marked
    BY <2>a, <2>b
  <2> QED BY <1>1, <2>1, <2>2
<1>11. CASE CloseState
  BY <1>11 DEF CloseState, Calm, Running, Ending, Marked
<1>12. CASE FilmPresent \/ FilmBegin \/ FilmRecorded
  BY <1>12 DEF FilmPresent, FilmBegin, FilmRecorded, Alone, Marked
<1>13. ASSUME NEW t \in Threads, Dump(t) \/ DumpRaises(t) \/ Replace(t) PROVE Marked'
  BY <1>13 DEF Dump, DumpRaises, Replace, Marked, TypeOK
<1>14. CASE \/ RequestShutdown \/ UserDeletesFile \/ MetadataReads \/ MetadataWrites
            \/ (\E i \in Items : UserDeletesVideo(i)) \/ UNCHANGED vars
  BY <1>14
  DEF RequestShutdown, UserDeletesFile, MetadataReads, MetadataWrites, UserDeletesVideo,
      vars, ours, Marked
<1>15. CASE Main
  BY <1>15, <1>2, <1>3, <1>7, <1>8, <1>9, <1>10, <1>11, <1>12 DEF Main
<1>16. ASSUME NEW e \in Episodes, Worker(e) PROVE Marked'
  BY <1>16, <1>4, <1>5, <1>6 DEF Worker
<1>17. CASE Environment
  BY <1>17, <1>3, <1>14 DEF Environment
<1> QED BY <1>13, <1>14, <1>15, <1>16, <1>17 DEF Next

\* A worker whose first marker has been written.
Reached(e) == job[e] = "downloading" \/ (job[e] = "searching" /\ Free(e))

OneDumps ==
    \A t, u \in Threads :
        writing[t].step = "dumped" /\ writing[u].step = "dumped" => t = u

OnDisk ==
    /\ \A e \in Episodes : Reached(e) => e \in disk.state.marked
    /\ \A e \in Episodes, t \in Threads :
          /\ writing[t].step = "dumped"
          /\ Reached(e) \/ (job[e] = "searching" /\ t = e)
          => e \in writing[t].state.marked

Searching == \A e \in Episodes : job[e] = "searching" => writing[e].step # "config"

\* The lock of the path lets one thread serialise and write at a time.
LEMMA DiskStep ==
    /\ TypeOK /\ Alone /\ Calm /\ Marked
    /\ OneDumps /\ Searching /\ (~faulty => OnDisk)
    /\ [Next]_vars
    => OneDumps' /\ Searching' /\ (~faulty => OnDisk)'
<1> SUFFICES ASSUME TypeOK, Alone, Calm, Marked, OneDumps, Searching, ~faulty => OnDisk,
                    [Next]_vars
             PROVE  OneDumps' /\ Searching' /\ (~faulty => OnDisk)'
  OBVIOUS
<1> USE EpisodeTypes
<1> DEFINE Goal == OneDumps' /\ Searching' /\ (~faulty => OnDisk)'
\* Nobody is at work.
<1>1. ASSUME \A e \in Episodes : job'[e] \notin {"searching", "downloading"},
             \A t \in Threads : writing'[t].step = "none"
      PROVE  Goal
  BY <1>1 DEF OneDumps, Searching, OnDisk, Reached
\* Nothing is serialised, and the state on disk stays as it is.
<1>2. ASSUME disk'.state = disk.state, faulty => faulty',
             \A t \in Threads : writing'[t].step = "dumped" => writing'[t] = writing[t],
             \A e \in Episodes :
                /\ Reached(e)' => Reached(e)
                /\ job'[e] = "searching" =>
                      \/ job[e] = "searching" /\ writing'[e] = writing[e]
                      \/ writing'[e].step \in {"copied", "none"}
      PROVE  Goal
  <2>1. OneDumps'
    BY <1>2 DEF OneDumps
  <2>2. Searching'
    BY <1>2 DEF Searching
  <2>3. OnDisk => OnDisk'
    BY <1>2 DEF OnDisk
  <2> QED BY <1>2, <2>1, <2>2, <2>3, Zenon
<1>3. CASE \/ Load \/ UpdateDisabledServers \/ PrepareSeason \/ UserDeletesFile
           \/ FilmPresent \/ FilmBegin \/ FilmDownloaded \/ FilmRecorded
  <2>1. /\ \A e \in Episodes : job'[e] \notin {"searching", "downloading"}
        /\ \A t \in Threads : writing'[t].step = "none"
    BY <1>3
    DEF Load, UpdateDisabledServers, PrepareSeason, UserDeletesFile, ours, FilmPresent,
        FilmBegin, FilmDownloaded, FilmRecorded, Alone, Free
  <2> QED BY <1>1, <2>1
<1>4. CASE SkipFolder \/ EndOfProcess
  <2>1. /\ \A e \in Episodes : job'[e] \notin {"searching", "downloading"}
        /\ \A t \in Threads : writing'[t].step = "none"
    BY <1>4, GoIdleType DEF SkipFolder, EndOfProcess
  <2> QED BY <1>1, <2>1
<1>5. ASSUME NEW e \in Episodes, Begin(e) \/ ReadDisabled(e) \/ Finish(e) \/ GiveUp(e)
      PROVE  Goal
  <2>1. UNCHANGED <<disk, faulty, writing>>
    BY <1>5 DEF Begin, ReadDisabled, Finish, GiveUp, EndJob, history
  <2>2. /\ job'[e] \notin {"searching", "downloading"}
        /\ \A f \in Episodes \ {e} : job'[f] = job[f]
    BY <1>5 DEF Begin, ReadDisabled, Finish, GiveUp, EndJob, TypeOK
  <2> QED BY <1>2, <2>1, <2>2 DEF Reached, Free
<1>6. ASSUME NEW e \in Episodes, DisableServer(e) PROVE Goal
  <2>1. AssignDisabled(e) /\ UNCHANGED <<disk, faulty>>
    BY <1>6 DEF DisableServer, history
  <2>2. job'[e] = "disabled" /\ \A f \in Episodes \ {e} : job'[f] = job[f]
    BY <1>6 DEF DisableServer, TypeOK
  <2>3. /\ \A u \in Threads \ {e} : writing'[u] = writing[u]
        /\ writing'[e] = writing[e] \/ writing'[e].step = "config"
    BY <2>1, AssignDisabledType
  <2> QED BY <1>2, <2>1, <2>2, <2>3 DEF Reached, Free
<1>7. ASSUME NEW e \in Episodes, MarkInProgress(e) \/ FirstBytes(e) PROVE Goal
  <2>0. [memory EXCEPT !.marked = @ \cup {e}] \in States
    BY DEF TypeOK, States
  <2>1. /\ writing'[e].step = "copied"
        /\ \A u \in Threads \ {e} : writing'[u] = writing[u]
    BY <1>7, <2>0, StartSaveType DEF MarkInProgress, FirstBytes, TypeOK
  <2>2. UNCHANGED <<disk, faulty>>
    BY <1>7 DEF MarkInProgress, FirstBytes, history
  <2>3. /\ \A f \in Episodes \ {e} : job'[f] = job[f]
        /\ job'[e] = "searching" \/ Reached(e)
    BY <1>7 DEF MarkInProgress, FirstBytes, TypeOK, Reached
  <2>4. \A f \in Episodes : Reached(f)' => Reached(f)
    BY <2>1, <2>3 DEF Reached, Free
  <2> QED BY <1>2, <2>1, <2>2, <2>3, <2>4
<1>8. ASSUME NEW e \in Episodes, ApplySuccess(e) PROVE Goal
  <2>1. PICK server \in Servers : StartSave("main", AddDownload(memory, e, server))
    BY <1>8 DEF ApplySuccess
  <2>2. AddDownload(memory, e, server) \in States
    BY AddDownloadType DEF TypeOK
  <2>3. /\ writing'["main"].step = "copied"
        /\ \A u \in Threads \ {"main"} : writing'[u] = writing[u]
    BY <2>1, <2>2, StartSaveType DEF TypeOK
  <2>4. /\ UNCHANGED <<disk, faulty>> /\ job'[e] = "none"
        /\ \A f \in Episodes \ {e} : job'[f] = job[f]
    BY <1>8 DEF ApplySuccess, TypeOK, history
  <2> QED BY <1>2, <2>3, <2>4 DEF Reached, Free
<1>9. ASSUME NEW e \in Episodes, ApplyFailure(e) \/ NoteBlamed(e) PROVE Goal
  <2>1. /\ UNCHANGED <<disk, faulty, writing>> /\ job'[e] \in {"none", "applied"}
        /\ \A f \in Episodes \ {e} : job'[f] = job[f]
    BY <1>9 DEF ApplyFailure, NoteBlamed, TypeOK, history
  <2> QED BY <1>2, <2>1 DEF Reached, Free
<1>10. CASE (\E e \in Episodes : Raise(e)) \/ KeyboardInterrupt
  <2>1. UNCHANGED <<disk, faulty, job>> /\ writing' = [writing EXCEPT !["main"] = NoWrite]
    BY <1>10 DEF Raise, KeyboardInterrupt, Abandon, history
  <2>2. /\ writing'["main"].step = "none"
        /\ \A u \in Threads \ {"main"} : writing'[u] = writing[u]
    BY <2>1 DEF TypeOK, NoWrite
  <2> QED BY <1>2, <2>1, <2>2 DEF Reached, Free
<1>11. CASE SaveVerified \/ CloseServers
  <2> DEFINE c == [config EXCEPT !.servers = verified]
  <2>1. c \in Configs
    BY DEF TypeOK, Configs
  <2>2. \/ UNCHANGED <<config, writing>>
        \/ StartConfig("main", c)
    BY <1>11 DEF SaveVerified, CloseServers
  <2> HIDE DEF c
  <2>3. \A t \in Threads :
           writing'[t] = writing[t] \/ (t = "main" /\ writing'[t].step = "config")
    BY <2>1, <2>2, StartConfigType DEF TypeOK
  <2>4. UNCHANGED <<disk, faulty, job>>
    BY <1>11 DEF SaveVerified, CloseServers, history
  <2> QED BY <1>2, <2>3, <2>4 DEF Reached, Free
<1>12. CASE BlameServers
  <2>1. AssignDisabled("main") /\ UNCHANGED <<disk, faulty, job>>
    BY <1>12 DEF BlameServers, history
  <2>2. \A t \in Threads :
           writing'[t] = writing[t] \/ (t = "main" /\ writing'[t].step = "config")
    BY <2>1, AssignDisabledType
  <2> QED BY <1>2, <2>1, <2>2 DEF Reached, Free
<1>13. CASE NextRound \/ StopRounds
  <2>1. /\ UNCHANGED <<disk, faulty, writing>>
        /\ \A e \in Episodes : job'[e] = job[e] \/ job'[e] \in {"none", "queued"}
    BY <1>13 DEF NextRound, StopRounds, TypeOK, history
  <2> QED BY <1>2, <2>1 DEF Reached, Free
<1>14. CASE CloseState
  <2>1. RecordExisting(memory) \in States
    BY RecordExistingType DEF TypeOK
  <2>2. /\ writing'["main"].step = "copied"
        /\ \A u \in Threads \ {"main"} : writing'[u] = writing[u]
    BY <1>14, <2>1, StartSaveType DEF CloseState, TypeOK
  <2>3. UNCHANGED <<disk, faulty, job>>
    BY <1>14 DEF CloseState, history
  <2> QED BY <1>2, <2>2, <2>3 DEF Reached, Free
<1>15. CASE \/ Close \/ FilmFailed \/ RequestShutdown \/ MetadataReads \/ MetadataWrites
            \/ (\E i \in Items : UserDeletesVideo(i)) \/ UNCHANGED vars
  <2>1. UNCHANGED <<writing, faulty, job>>
    BY <1>15
    DEF Close, FilmFailed, RequestShutdown, MetadataReads, MetadataWrites, UserDeletesVideo,
        vars, ours, history
  <2>2. disk'.state = disk.state
    BY <1>15
    DEF Close, FilmFailed, RequestShutdown, MetadataReads, MetadataWrites, UserDeletesVideo,
        vars, TypeOK
  <2> QED BY <1>2, <2>1, <2>2 DEF Reached, Free
<1>16. ASSUME NEW t \in Threads, Dump(t) PROVE Goal
  <2> DEFINE w == [writing[t] EXCEPT !.step = "dumped", !.state = Serialised(writing[t].state)]
  <2>1. /\ w.step = "dumped" /\ w.state.marked = memory.marked
        /\ writing' = [writing EXCEPT ![t] = w]
    BY <1>16 DEF Dump, TypeOK, Writes, Serialised, States
  <2> HIDE DEF w
  <2>2. /\ writing'[t].step = "dumped" /\ writing'[t].state.marked = memory.marked
        /\ \A u \in Threads \ {t} : writing'[u] = writing[u] /\ writing[u].step # "dumped"
        /\ UNCHANGED <<job, disk, faulty, memory>>
    BY <1>16, <2>1 DEF Dump, PathLockFree, TypeOK, history
  <2>3. \A e \in Episodes : Reached(e)' => Reached(e)
    BY <2>2 DEF Reached, Free
  <2>4. OneDumps' /\ Searching'
    BY <2>2 DEF OneDumps, Searching
  <2>5. OnDisk => OnDisk'
    BY <2>2, <2>3 DEF OnDisk, Reached, Marked
  <2> QED BY <2>2, <2>4, <2>5, Zenon
<1>17. ASSUME NEW t \in Threads, DumpRaises(t) PROVE Goal
  <2>1. /\ writing'[t].step = "none"
        /\ \A u \in Threads \ {t} : writing'[u] = writing[u]
        /\ UNCHANGED <<disk, faulty>>
    BY <1>17 DEF DumpRaises, TypeOK, NoWrite, history
  <2>2. \A e \in Episodes : \/ job'[e] = "raised"
                            \/ e # t /\ job'[e] = job[e]
    BY <1>17 DEF DumpRaises, TypeOK
  <2> QED BY <1>2, <2>1, <2>2 DEF Reached, Free
<1>18. ASSUME NEW t \in Threads, Replace(t) PROVE Goal
  <2>1. /\ writing'[t].step = "none"
        /\ \A u \in Threads \ {t} : writing'[u] = writing[u]
        /\ job' = job /\ WriteDisk(Written(t)) /\ writing[t].step \in {"dumped", "config"}
    BY <1>18 DEF Replace, TypeOK, NoWrite
  <2>2. OneDumps' /\ Searching'
    BY <2>1 DEF OneDumps, Searching
  <2>3. ASSUME OnDisk, disk' = Written(t) PROVE OnDisk'
    <3>1. \A e \in Episodes : Reached(e)' => Reached(e) \/ (job[e] = "searching" /\ t = e)
      BY <2>1 DEF Reached, Free
    <3>2. CASE writing[t].step = "dumped"
      <4>1. disk'.state = writing[t].state
        BY <2>3, <3>2 DEF Written, TypeOK
      <4>2. \A u \in Threads : writing'[u].step # "dumped"
        BY <2>1, <3>2 DEF OneDumps
      <4> QED BY <2>3, <3>1, <3>2, <4>1, <4>2 DEF OnDisk
    <3>3. CASE writing[t].step = "config"
      <4>1. disk'.state = disk.state
        BY <2>3, <3>3 DEF Written, TypeOK
      <4>2. \A e \in Episodes : Reached(e)' => Reached(e)
        BY <3>1, <3>3 DEF Searching
      <4>3. /\ \A u \in Threads : writing'[u].step = "dumped" => writing'[u] = writing[u]
            /\ job' = job
        BY <2>1
      <4> QED BY <2>3, <4>1, <4>2, <4>3 DEF OnDisk
    <3> QED BY <2>1, <3>2, <3>3
  <2>4. (~faulty => OnDisk)'
    <3>1. CASE disk' = Written(t) /\ faulty' = faulty
      BY <2>3, <3>1, Zenon
    <3>2. CASE faulty' = TRUE
      BY <3>2, Zenon
    <3> QED BY <2>1, <3>1, <3>2, Zenon DEF WriteDisk
  <2> QED BY <2>2, <2>4
<1>19. CASE Main
  BY <1>19, <1>3, <1>4, <1>8, <1>9, <1>10, <1>11, <1>12, <1>13, <1>14, <1>15 DEF Main
<1>20. ASSUME NEW e \in Episodes, Worker(e) PROVE Goal
  BY <1>20, <1>5, <1>6, <1>7 DEF Worker
<1>21. CASE Environment
  BY <1>21, <1>3, <1>4, <1>15 DEF Environment
<1> QED BY <1>15, <1>16, <1>17, <1>18, <1>19, <1>20, <1>21 DEF Next

\* What the main thread is about to write when it closes is what it knows.
LastSave ==
    LET last == writing["main"] IN
    /\ phase \in {"filming", "closed"} => disk.state = memory
    /\ phase = "saving" => CASE last.step = "none"   -> disk.state = memory
                             [] last.step = "copied" -> last.state.items = memory.items
                             [] last.step = "dumped" -> last.state = memory
                             [] OTHER -> FALSE

Closing ==
    /\ phase = "closed" => Free("main")
    /\ faulty \/ LastSave

LEMMA ClosingStep == TypeOK /\ Alone /\ Calm /\ Closing /\ [Next]_vars => Closing'
<1> SUFFICES ASSUME TypeOK, Alone, Calm, Closing, [Next]_vars PROVE Closing'
  OBVIOUS
<1> USE EpisodeTypes
<1>1. ASSUME phase' \notin {"filming", "saving", "closed"} PROVE Closing'
  BY <1>1 DEF Closing, LastSave
<1>2. ASSUME UNCHANGED <<memory, phase, faulty, writing>>, disk'.state = disk.state
      PROVE  Closing'
  <2>1. Free("main")' = Free("main") /\ (LastSave => LastSave')
    BY <1>2 DEF LastSave, Free
  <2> QED BY <1>2, <2>1, Zenon DEF Closing
\* A film's state is written at once.
<1>3. ASSUME WriteDisk([disk EXCEPT !.state = memory']), phase' \in {"filming", "closed"},
             Free("main")'
      PROVE  Closing'
  <2>1. [disk EXCEPT !.state = memory'].state = memory'
    BY DEF TypeOK
  <2>2. CASE disk'.state = memory'
    BY <1>3, <2>2 DEF Closing, LastSave
  <2>3. CASE faulty' = TRUE
    BY <1>3, <2>3, Zenon DEF Closing
  <2> QED BY <1>3, <2>1, <2>2, <2>3 DEF WriteDisk
<1>4. CASE \/ Load \/ UpdateDisabledServers \/ SkipFolder \/ EndOfProcess \/ PrepareSeason
           \/ SaveVerified \/ BlameServers \/ StopRounds \/ CloseServers \/ KeyboardInterrupt
           \/ FilmDownloaded
  BY <1>4, <1>1, GoIdleType
  DEF Load, UpdateDisabledServers, SkipFolder, EndOfProcess, PrepareSeason, SaveVerified,
      BlameServers, StopRounds, CloseServers, KeyboardInterrupt, Abandon, FilmDownloaded
<1>5. ASSUME NEW e \in Episodes,
             ApplySuccess(e) \/ ApplyFailure(e) \/ NoteBlamed(e) \/ Raise(e)
      PROVE  Closing'
  BY <1>5, <1>1
  DEF ApplySuccess, ApplyFailure, NoteBlamed, Raise, Abandon, Collecting
<1>6. CASE NextRound
  BY <1>6, <1>1 DEF NextRound, Collecting
<1>7. CASE CloseState
  <2>1. RecordExisting(memory) \in States
    BY RecordExistingType DEF TypeOK
  <2>2. /\ writing'["main"].step = "copied"
        /\ writing'["main"].state.items = memory'.items
    BY <1>7, <2>1, StartSaveType DEF CloseState, TypeOK
  <2> QED BY <1>7, <2>2 DEF CloseState, Closing, LastSave
<1>8. CASE Close
  <2>1. LastSave => LastSave'
    BY <1>8 DEF Close, LastSave, Free
  <2>2. Free("main")' /\ faulty' = faulty
    BY <1>8 DEF Close, Free, history
  <2> QED BY <2>1, <2>2, Zenon DEF Closing
<1>9. CASE FilmPresent \/ FilmBegin \/ FilmRecorded
  <2>1. Free("main")'
    BY <1>9 DEF FilmPresent, FilmBegin, FilmRecorded, Alone, Free
  <2> QED BY <1>9, <1>3, <2>1 DEF FilmPresent, FilmBegin, FilmRecorded
<1>10. CASE FilmFailed
  <2>1. Free("main")' /\ (LastSave => LastSave') /\ faulty' = faulty
    BY <1>10 DEF FilmFailed, Alone, Free, LastSave, history
  <2> QED BY <2>1, Zenon DEF Closing
<1>11. ASSUME NEW e \in Episodes, Worker(e) PROVE Closing'
  <2>1. phase \notin {"filming", "saving", "closed"} /\ phase' = phase
    BY <1>11
    DEF Worker, Begin, ReadDisabled, DisableServer, MarkInProgress, FirstBytes, Finish,
        GiveUp, EndJob, Alone, Calm, Ending, Running
  <2> QED BY <1>1, <2>1
\* From here on nobody but the main thread saves.
<1>12. ASSUME NEW t \in Threads, writing[t].step # "none",
              phase \in {"filming", "saving", "closed"}
       PROVE  phase = "saving" /\ t = "main"
  BY <1>12 DEF Alone, Calm, Ending, Closing, Free, Threads
<1>13. ASSUME NEW t \in Threads, Dump(t), phase' \in {"filming", "saving", "closed"}
       PROVE  Closing'
  <2> DEFINE w == [writing[t] EXCEPT !.step = "dumped", !.state = Serialised(writing[t].state)]
  <2>1. /\ w.step = "dumped" /\ w.state = Serialised(writing[t].state)
        /\ writing' = [writing EXCEPT ![t] = w]
    BY <1>13 DEF Dump, TypeOK, Writes
  <2>2. /\ phase = "saving" /\ t = "main" /\ writing[t].step = "copied"
        /\ UNCHANGED <<phase, memory, faulty>>
    BY <1>12, <1>13 DEF Dump, history
  <2>3. writing[t].state.items = memory.items => Serialised(writing[t].state) = memory
    BY DEF Serialised, TypeOK, States
  <2> HIDE DEF w
  <2>4. LastSave => LastSave'
    BY <2>1, <2>2, <2>3 DEF LastSave, TypeOK
  <2> QED BY <2>2, <2>4, Zenon DEF Closing
<1>14. ASSUME NEW t \in Threads, DumpRaises(t), phase' \in {"filming", "saving", "closed"}
       PROVE  Closing'
  BY <1>12, <1>14 DEF DumpRaises
<1>15. ASSUME NEW t \in Threads, Replace(t), phase' \in {"filming", "saving", "closed"}
       PROVE  Closing'
  <2>1. /\ phase = "saving" /\ t = "main" /\ UNCHANGED <<phase, memory>>
        /\ WriteDisk(Written(t)) /\ writing[t].step \in {"dumped", "config"}
        /\ writing'[t].step = "none"
    BY <1>12, <1>15 DEF Replace, TypeOK, NoWrite
  <2>2. CASE disk' = Written(t) /\ faulty' = faulty
    <3>1. LastSave => LastSave'
      BY <2>1, <2>2 DEF LastSave, Written, TypeOK
    <3> QED BY <2>1, <2>2, <3>1, Zenon DEF Closing
  <2>3. CASE faulty' = TRUE
    BY <2>1, <2>3, Zenon DEF Closing
  <2> QED BY <2>1, <2>2, <2>3 DEF WriteDisk
<1>16. CASE \/ RequestShutdown \/ MetadataReads \/ MetadataWrites
            \/ (\E i \in Items : UserDeletesVideo(i)) \/ UNCHANGED vars
  <2>1. UNCHANGED <<memory, phase, faulty, writing>> /\ disk'.state = disk.state
    BY <1>16
    DEF RequestShutdown, MetadataReads, MetadataWrites, UserDeletesVideo, vars, ours, history,
        TypeOK
  <2> QED BY <1>2, <2>1
<1>17. CASE UserDeletesFile
  BY <1>17, <1>1 DEF UserDeletesFile, ours
<1>18. CASE Main
  BY <1>18, <1>4, <1>5, <1>6, <1>7, <1>8, <1>9, <1>10 DEF Main
<1>19. CASE Environment
  BY <1>19, <1>4, <1>16, <1>17 DEF Environment
<1>20. ASSUME NEW t \in Threads, Dump(t) \/ DumpRaises(t) \/ Replace(t) PROVE Closing'
  BY <1>20, <1>1, <1>13, <1>14, <1>15
<1> QED BY <1>11, <1>16, <1>18, <1>19, <1>20 DEF Next

\* While a worker downloads its marker is on disk, and after a run that closed the
\* state file is what the run knew, for every number of workers that save from
\* snapshots of their own, in any order.
THEOREM TheFileKeepsUp == Spec => []FileKeepsUp
<1> DEFINE Inv == /\ Calm /\ Marked /\ OneDumps /\ Searching /\ Closing
                  /\ ~faulty => OnDisk
<1>1. Init => Inv
  <2> SUFFICES ASSUME Init PROVE Inv
    OBVIOUS
  <2>1. /\ phase = "off" /\ \A e \in Episodes : job[e] = "none"
        /\ \A t \in Threads : writing[t].step = "none"
    BY DEF Init, Idle, NoWrite
  <2> QED BY <2>1, EpisodeTypes
          DEF Calm, Ending, Running, Free, Marked, OneDumps, Searching, Closing, LastSave,
              OnDisk, Reached
<1>2. TypeOK /\ Alone /\ Inv /\ [Next]_vars => Inv'
  BY CalmStep, MarkedStep, DiskStep, ClosingStep
<1>3. Inv => FileKeepsUp
  BY Zenon DEF FileKeepsUp, OnDisk, Reached, Closing, LastSave
<1> HIDE DEF Inv
<1> QED BY <1>1, <1>2, <1>3, FilesInvariant, PTL DEF Spec

=============================================================================
