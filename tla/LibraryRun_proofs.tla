------------------------- MODULE LibraryRun_proofs -------------------------
(***************************************************************************)
(* Proofs about LibraryRun, for every library, whatever Cinemeta, IMDb and *)
(* the addons answer, and any number of commands in one process.           *)
(***************************************************************************)
EXTENDS LibraryRun, FiniteSetTheorems, WellFoundedInduction, TLAPS

----------------------------------------------------------------------------
(***************************************************************************)
(* Numbers of episodes: the least and the greatest of a set, and what is   *)
(* inferred of the files.                                                  *)
(***************************************************************************)
LEMMA Smallest ==
    ASSUME NEW S \in SUBSET Nat, S # {}
    PROVE  Min(S) \in S /\ \A n \in S : Min(S) <= n
<1> DEFINE Less == {p \in Nat \X Nat : p[1] < p[2]}
<1>1. PICK m \in S : \A n \in S : ~(<<n, m>> \in Less)
  <2>1. IsWellFoundedOn(Less, Nat)
    BY NatLessThanWellFounded DEF OpToRel
  <2> HIDE DEF Less
  <2> QED BY <2>1, WFMin
<1>2. \A n \in S : m <= n
  <2> SUFFICES ASSUME NEW n \in S PROVE m <= n
    OBVIOUS
  <2>1. m \in Nat /\ n \in Nat /\ <<n, m>> \notin Less
    BY <1>1
  <2>2. ~(n < m)
    BY <2>1
  <2> QED BY <2>1, <2>2
<1> QED BY <1>2 DEF Min

LEMMA Largest ==
    ASSUME NEW top \in Nat, NEW S \in SUBSET (0 .. top), S # {}
    PROVE  Max(S) \in S /\ \A n \in S : n <= Max(S)
<1> DEFINE T == {n \in 0 .. top : top - n \in S}
<1>1. T \in SUBSET Nat /\ \A n \in S : top - n \in T /\ top - (top - n) = n
  OBVIOUS
<1>2. PICK m \in T : \A n \in T : m <= n
  <2> HIDE DEF T
  <2>1. T # {}
    BY <1>1
  <2> QED BY <1>1, <2>1, Smallest
<1>3. top - m \in S /\ \A n \in S : n <= top - m
  BY <1>1, <1>2
<1> QED BY <1>3 DEF Max

LEMMA LastEpisodeNat == LastEpisode \in Nat /\ 1 \in Episodes /\ Episodes \subseteq Nat
BY LastEpisodeAssumption DEF Episodes

LEMMA EpisodesFinite == IsFiniteSet(Episodes) /\ \A S \in SUBSET Episodes : IsFiniteSet(S) /\ Cardinality(S) \in Nat
<1>1. IsFiniteSet(Episodes)
  BY LastEpisodeNat, FS_Interval DEF Episodes
<1> QED BY <1>1, FS_Subset, FS_CardinalityType

LEMMA FoldersFinite == IsFiniteSet(Folders)
<1>1. IsFiniteSet(1 .. LastSeason)
  BY FoldersAssumption, FS_Interval
<1>2. IsFiniteSet(Series)
  BY <1>1, FoldersAssumption, FS_Product DEF Series
<1> QED BY <1>2, FoldersAssumption, FS_Union DEF Folders

LEMMA DetectedWithin ==
    ASSUME NEW present \in SUBSET Episodes, NEW count \in 0 .. LastEpisode
    PROVE  count # 0 => \A e \in Detected(present, count) : e <= count
<1> SUFFICES ASSUME count # 0, NEW e \in Detected(present, count) PROVE e <= count
  OBVIOUS
<1> DEFINE few == {Cardinality(present), count}
<1>1. few \in SUBSET Nat /\ few # {} /\ count \in few
  BY EpisodesFinite, LastEpisodeNat
<1>2. Min(few) \in Nat /\ Min(few) <= count
  <2> HIDE DEF few
  <2> QED BY <1>1, Smallest
<1>3. e \in {x \in present : x <= count} \/ e \in 1 .. Min(few)
  BY DEF Detected
<1> HIDE DEF few
<1> QED BY <1>2, <1>3, LastEpisodeNat

LEMMA InferNextType ==
    ASSUME NEW present \in SUBSET Episodes, NEW count \in 0 .. LastEpisode
    PROVE  InferNext(present, count) \in 0 .. (LastEpisode + 1)
<1>1. CASE count = 0
  BY <1>1, LastEpisodeNat DEF InferNext
<1>2. CASE count # 0
  <2> DEFINE missing == (1 .. count + 1) \ Detected(present, count)
  <2>1. count \in Nat
    BY LastEpisodeNat
  <2>2. count + 1 \in missing
    BY <1>2, <2>1, DetectedWithin
  <2>3. missing \in SUBSET Nat
    BY <2>1
  <2>4. Min(missing) \in missing
    <3> HIDE DEF missing
    <3> QED BY <2>2, <2>3, Smallest
  <2>5. InferNext(present, count) = Min(missing)
    BY <1>2 DEF InferNext
  <2>6. Min(missing) \in 1 .. count + 1
    BY <2>4
  <2> HIDE DEF missing
  <2> QED BY <2>1, <2>5, <2>6, LastEpisodeNat
<1> QED BY <1>1, <1>2

----------------------------------------------------------------------------
(***************************************************************************)
(* A config of a folder: what a download or a refresh leaves alone, and    *)
(* what it adds to.                                                        *)
(***************************************************************************)
\* What the steps of a refresh leave alone.
SameWants(c, d) == c.count = d.count /\ c.listed = d.listed /\ c.list = d.list
\* What they may add to.
Keeps(c, d) ==
    c.count # 0 /\ c.listed => d.count >= c.count /\ Wanted(c) \subseteq Wanted(d)

LEMMA ConfigFields ==
    ASSUME NEW c \in Configs
    PROVE  /\ c.id \in Identities \cup {NoId} /\ c.listed \in BOOLEAN
           /\ c.count \in 0 .. LastEpisode /\ c.count \in Nat
           /\ c.list \in SUBSET Episodes /\ c.list \in SUBSET Nat
           /\ c.cursor \in 0 .. (LastEpisode + 1)
<1>1. /\ c.id \in Identities \cup {NoId} /\ c.listed \in BOOLEAN
      /\ c.count \in 0 .. LastEpisode /\ c.list \in SUBSET Episodes
      /\ c.cursor \in 0 .. (LastEpisode + 1)
  BY DEF Configs
<1>2. c.count \in Nat
  BY <1>1, LastEpisodeNat
<1>3. c.list \in SUBSET Nat
  BY <1>1, LastEpisodeNat
<1> QED BY <1>1, <1>2, <1>3

LEMMA ConfigUpdates ==
    ASSUME NEW c \in Configs
    PROVE  /\ \A x \in Identities \cup {NoId} : [c EXCEPT !.id = x] \in Configs
           /\ \A x \in 0 .. (LastEpisode + 1) : [c EXCEPT !.cursor = x] \in Configs
           /\ [c EXCEPT !.fresh = TRUE] \in Configs
           /\ \A x : SameWants(c, [c EXCEPT !.id = x]) /\ SameWants(c, [c EXCEPT !.cursor = x])
                     /\ SameWants(c, [c EXCEPT !.fresh = x])
BY DEF Configs, SameWants

LEMMA RaiseCursorType ==
    ASSUME NEW c \in Configs, NEW present \in SUBSET Episodes
    PROVE  RaiseCursor(c, present) \in Configs /\ SameWants(c, RaiseCursor(c, present))
<1> DEFINE two == {c.cursor, InferNext(present, c.count)}
<1>1. two \in SUBSET (0 .. (LastEpisode + 1)) /\ two # {}
  BY ConfigFields, InferNextType
<1>2. LastEpisode + 1 \in Nat
  BY LastEpisodeNat
<1>3. RaiseCursor(c, present) = [c EXCEPT !.cursor = Max(two)]
  BY DEF RaiseCursor
<1> HIDE DEF two
<1>4. Max(two) \in 0 .. (LastEpisode + 1)
  BY <1>1, <1>2, Largest
<1> QED BY <1>3, <1>4, ConfigUpdates

LEMMA KeepsTransitive ==
    ASSUME NEW b \in Configs, NEW c \in Configs, NEW d \in Configs
    PROVE  /\ Keeps(b, c) /\ SameWants(c, d) => Keeps(b, d)
           /\ SameWants(b, c) /\ Keeps(c, d) => Keeps(b, d)
           /\ SameWants(b, c) => Keeps(b, c)
<1>1. b.count \in Int /\ c.count \in Int /\ d.count \in Int
  BY ConfigFields
<1> QED BY <1>1 DEF Keeps, SameWants, Wanted

LEMMA ResultFields ==
    ASSUME NEW r \in Results
    PROVE  r.id \in Identities /\ Aired(r) \in SUBSET Episodes
<1>1. r.id \in Identities /\ \E S \in SUBSET Episodes : r.videos \in [S -> Videos]
  BY DEF Results
<1> QED BY <1>1 DEF Aired

\* The list of Cinemeta is added to the one that is set.
LEMMA MergedType ==
    ASSUME NEW c \in Configs, NEW r \in Results
    PROVE  Merged(c, r) \in Configs /\ Keeps(c, Merged(c, r))
<1>1. CASE NotFound(r)
  <2>1. Merged(c, r) = [c EXCEPT !.id = r.id]
    BY <1>1 DEF Merged
  <2>2. Merged(c, r) \in Configs /\ SameWants(c, Merged(c, r))
    BY <2>1, ResultFields, ConfigUpdates
  <2> QED BY <2>2, KeepsTransitive
<1>2. CASE ~NotFound(r)
  <2> DEFINE counts == {c.count} \cup Aired(r)
             n == MergedCount(c, r)
             l == MergedList(c, r)
  <2>1. counts \in SUBSET (0 .. LastEpisode) /\ c.count \in counts
    BY ConfigFields, ResultFields, LastEpisodeNat DEF Episodes
  <2>2. Max(counts) \in 0 .. LastEpisode /\ Max(counts) >= c.count
    <3> HIDE DEF counts
    <3>1. Max(counts) \in counts /\ c.count <= Max(counts)
      BY <2>1, Largest, LastEpisodeNat
    <3> QED BY <2>1, <3>1, LastEpisodeNat
  <2>3. n \in 0 .. LastEpisode /\ n >= c.count
    BY <2>2, ConfigFields, LastEpisodeNat DEF MergedCount
  <2>4. l \in SUBSET Episodes
    BY ConfigFields, ResultFields DEF MergedList
  <2>5. c.count # 0 /\ c.listed => \A e \in c.list : e <= n => e \in l
    BY DEF MergedList
  <2>6. Merged(c, r) = [c EXCEPT !.id = r.id, !.count = n, !.listed = TRUE, !.list = l]
    BY <1>2 DEF Merged
  <2> HIDE DEF n, l
  <2>7. Merged(c, r) \in Configs /\ Merged(c, r).count = n /\ Merged(c, r).list = l
    BY <2>3, <2>4, <2>6, ResultFields DEF Configs
  <2>8. c.count # 0 /\ c.listed => Wanted(c) \subseteq Wanted(Merged(c, r))
    <3>1. c.count \in Nat /\ n \in Nat /\ c.list \in SUBSET Nat
      BY <2>3, ConfigFields, LastEpisodeNat
    <3> QED BY <2>3, <2>5, <2>7, <3>1 DEF Wanted
  <2> QED BY <2>3, <2>7, <2>8 DEF Keeps
<1> QED BY <1>1, <1>2

LEMMA ChosenType ==
    ASSUME NEW results \in Lookups
    PROVE  Chosen(results) \in Results
<1> DEFINE having == {i \in DOMAIN results : Found(results[i])}
<1>1. results \in Seq(Results) /\ results # <<>>
  BY LookupsAssumption
<1>2. 1 \in DOMAIN results /\ having \in SUBSET Nat
  BY <1>1
<1>3. having # {} => Min(having) \in DOMAIN results
  <2>1. having # {} => Min(having) \in having
    <3> HIDE DEF having
    <3> QED BY <1>2, Smallest
  <2> QED BY <2>1
<1>4. (IF having = {} THEN 1 ELSE Min(having)) \in DOMAIN results
  BY <1>2, <1>3
<1>5. Chosen(results) = results[IF having = {} THEN 1 ELSE Min(having)]
  BY DEF Chosen
<1> HIDE DEF having
<1> QED BY <1>1, <1>4, <1>5

\* A refresh writes a config that lists what the config it read listed.
LEMMA RefreshedKeeps ==
    ASSUME NEW f \in Folders, NEW c \in Configs, files[f] \in SUBSET Episodes,
           NEW d \in Refreshed(f, c)
    PROVE  d \in Configs /\ Keeps(c, d)
<1> DEFINE raised == RaiseCursor(c, files[f])
           kept == [c EXCEPT !.cursor = 0]
<1>1. raised \in Configs /\ SameWants(c, raised)
  BY RaiseCursorType
<1>2. kept \in Configs /\ SameWants(c, kept)
  <2>1. 0 \in 0 .. (LastEpisode + 1)
    BY LastEpisodeNat
  <2> QED BY <2>1, ConfigUpdates
<1>3. CASE d \in {raised, kept}
  BY <1>1, <1>2, <1>3, KeepsTransitive
<1>4. CASE d \in RefreshedFilm(c)
  <2> SUFFICES ASSUME NEW id \in FilmIds(c), d = [kept EXCEPT !.id = id, !.fresh = TRUE]
               PROVE  d \in Configs /\ Keeps(c, d)
    BY <1>3, <1>4 DEF RefreshedFilm
  <2>1. id \in Identities \cup {NoId}
    BY ConfigFields DEF FilmIds
  <2> HIDE DEF kept
  <2>2. d \in Configs /\ SameWants(kept, d)
    BY <1>2, <2>1 DEF Configs, SameWants
  <2> QED BY <1>2, <2>2, KeepsTransitive
<1>5. CASE d \in RefreshedSeries(c, files[f])
  <2> HIDE DEF raised
  <2>1. PICK a \in Configs : /\ Keeps(raised, a)
                             /\ d = RaiseCursor([a EXCEPT !.fresh = TRUE], files[f])
    <3> SUFFICES ASSUME NEW a \in {Merged(raised, Chosen(results)) : results \in Lookups}
                           \cup {IF id = NoId THEN raised ELSE [raised EXCEPT !.id = id] : id \in SeriesIds}
                 PROVE  a \in Configs /\ Keeps(raised, a)
      BY <1>5 DEF RefreshedSeries, raised
    <3>1. CASE \E results \in Lookups : a = Merged(raised, Chosen(results))
      BY <1>1, <3>1, ChosenType, MergedType
    <3>2. CASE \E id \in SeriesIds : a = IF id = NoId THEN raised ELSE [raised EXCEPT !.id = id]
      <4>1. a \in Configs /\ SameWants(raised, a)
        <5>1. PICK id \in SeriesIds : a = IF id = NoId THEN raised ELSE [raised EXCEPT !.id = id]
          BY <3>2
        <5>2. id \in Identities \cup {NoId} /\ SameWants(raised, raised)
          BY DEF SeriesIds, SameWants
        <5> QED BY <1>1, <5>1, <5>2, ConfigUpdates
      <4> QED BY <1>1, <4>1, KeepsTransitive
    <3> QED BY <3>1, <3>2
  <2> DEFINE stamped == [a EXCEPT !.fresh = TRUE]
  <2>2. stamped \in Configs /\ SameWants(a, stamped)
    BY ConfigUpdates
  <2>3. d \in Configs /\ SameWants(stamped, d)
    BY <2>1, <2>2, RaiseCursorType
  <2> HIDE DEF stamped
  <2>4. Keeps(c, a) /\ Keeps(c, stamped)
    BY <1>1, <2>1, <2>2, KeepsTransitive
  <2> QED BY <2>2, <2>3, <2>4, KeepsTransitive
<1> QED BY <1>3, <1>4, <1>5 DEF Refreshed

LEMMA DefaultsType ==
    /\ \A f \in Folders : DefaultConfig(f) \in Configs
    /\ Defaults \in [Folders -> Configs]
<1>1. 0 \in 0 .. LastEpisode /\ {0, 1} \subseteq 0 .. (LastEpisode + 1)
  BY LastEpisodeNat
<1>2. \A f \in Folders : DefaultConfig(f) \in Configs
  BY <1>1 DEF DefaultConfig, Configs
<1> QED BY <1>2 DEF Defaults

LEMMA CommandsType ==
    \A p \in Commands :
        /\ p \in Seq(Phases) /\ p # <<>>
        /\ \A i \in 1 .. Len(p) : i < Len(p) => p[i] # "download"
<1> SUFFICES ASSUME NEW p \in Commands
             PROVE  /\ p \in Seq(Phases) /\ p # <<>>
                    /\ \A i \in 1 .. Len(p) : i < Len(p) => p[i] # "download"
  OBVIOUS
<1>1. CASE p = <<"scan", "sync", "download">>
  BY <1>1 DEF Phases
<1>2. CASE p = <<"scan", "sync", "validate", "download">>
  BY <1>2 DEF Phases
<1>3. CASE p = <<"scan", "refresh">>
  BY <1>3 DEF Phases
<1>4. CASE p = <<"scan", "refresh", "download">>
  BY <1>4 DEF Phases
<1>5. CASE p = <<"download">>
  BY <1>5 DEF Phases
<1>6. CASE p = <<"validate">>
  BY <1>6 DEF Phases
<1> QED BY <1>1, <1>2, <1>3, <1>4, <1>5, <1>6, Zenon DEF Commands

LEMMA PhaseType ==
    ASSUME plan \in Seq(Phases)
    PROVE  /\ Phase = "menu" <=> plan = <<>>
           /\ plan # <<>> => Tail(plan) \in Seq(Phases) /\ Phase = plan[1] /\ Phase \in Phases
BY DEF Phase, Phases

LEMMA CursorsAfterType ==
    ASSUME NEW wanted \in SUBSET Episodes, NEW arrived \in SUBSET Episodes, NEW e \in wanted
    PROVE  CursorsAfter(e, wanted, arrived) \subseteq 0 .. (LastEpisode + 1)
<1>1. e \in 1 .. LastEpisode /\ e + 1 \in 0 .. (LastEpisode + 1)
  BY LastEpisodeNat DEF Episodes
<1>2. Max(wanted) \in wanted
  <2>1. wanted \in SUBSET (0 .. LastEpisode) /\ wanted # {}
    BY LastEpisodeNat DEF Episodes
  <2> QED BY <2>1, LastEpisodeNat, Largest
<1>3. Max(wanted) + 1 \in 0 .. (LastEpisode + 1)
  <2>1. \A n \in Episodes : n + 1 \in 0 .. (LastEpisode + 1)
    BY LastEpisodeNat DEF Episodes
  <2> QED BY <1>2, <2>1
<1>4. ~(wanted \subseteq arrived) => Min(wanted \ arrived) \in 0 .. (LastEpisode + 1)
  <2>1. ~(wanted \subseteq arrived) => Min(wanted \ arrived) \in wanted \ arrived
    <3>1. wanted \ arrived \in SUBSET Nat
      BY LastEpisodeNat
    <3>2. ~(wanted \subseteq arrived) => wanted \ arrived # {}
      OBVIOUS
    <3> QED BY <3>1, <3>2, Smallest
  <2>2. Episodes \subseteq 0 .. (LastEpisode + 1)
    BY LastEpisodeNat DEF Episodes
  <2> QED BY <2>1, <2>2
<1> QED BY <1>1, <1>3, <1>4 DEF CursorsAfter

LEMMA MissingType ==
    ASSUME NEW c \in Configs, NEW present \in SUBSET Episodes
    PROVE  Missing(c, present) \in SUBSET Episodes
BY ConfigFields DEF Missing

LEMMA FirstCursorType ==
    ASSUME NEW c \in Configs, NEW wanted \in SUBSET Episodes
    PROVE  FirstCursor(c, wanted) \subseteq 0 .. (LastEpisode + 1)
<1>1. Episodes \subseteq 0 .. (LastEpisode + 1)
  BY LastEpisodeNat DEF Episodes
<1>2. c.count + 1 \in 0 .. (LastEpisode + 1) /\ c.cursor \in 0 .. (LastEpisode + 1)
  BY ConfigFields, LastEpisodeNat
<1> QED BY <1>1, <1>2 DEF FirstCursor

----------------------------------------------------------------------------
(***************************************************************************)
(* The order of a command. The folders of a command have something to do   *)
(* only in its download, which is its last phase, and what earlier         *)
(* commands left at work has no folder waiting.                            *)
(***************************************************************************)

Idle(r) == \A f \in Folders : job[r][f] = "none"

Downloading == Phase = "download" /\ busy

\* A download is the last phase of a command.
Planned ==
    /\ \A i \in 1 .. Len(plan) : i < Len(plan) => plan[i] # "download"
    /\ plan # <<>> => run \in Runs
    /\ ended => plan = <<>>

\* Only the download of a command gives its folders something to do.
Begun ==
    /\ \A r \in Runs : r > run => Idle(r)
    /\ \A r \in Runs, f \in Folders : r < run => job[r][f] # "queued"
    /\ plan # <<>> /\ ~Downloading => Idle(run)

\* No refresh is under way while a folder is downloaded in the same command.
RefreshedAlone ==
    \A f \in Folders : meta[f] # "none" =>
        /\ run \in Runs /\ Idle(run)
        /\ ended \/ (Phase \in {"sync", "refresh"} /\ busy)

Phased == Planned /\ Begun /\ RefreshedAlone

----------------------------------------------------------------------------
(***************************************************************************)
(* Types.                                                                  *)
(***************************************************************************)
\* TypeOK, in pieces that the actions change as one.
LibraryType ==
    /\ exists \in SUBSET Folders /\ broken \in SUBSET Folders
    /\ config \in [Folders -> Configs] /\ files \in [Folders -> SUBSET Episodes]
    /\ addons \in SUBSET Addons
MainType ==
    /\ plan \in Seq(Phases) /\ run \in 0 .. MaxCommands
    /\ folders \in SUBSET Folders /\ queue \in SUBSET Folders
    /\ busy \in BOOLEAN /\ ended \in BOOLEAN /\ pool \in BOOLEAN /\ shutdown \in BOOLEAN
RefreshType ==
    /\ meta \in [Folders -> {"none", "queued", "cached", "read", "done"}]
    /\ read \in [Folders -> Configs]
JobType == job \in [Runs -> [Folders -> Jobs]]
MemoryType ==
    /\ loaded \in [Runs -> [Folders -> Configs]]
    /\ todo \in [Runs -> [Folders -> SUBSET Episodes]]
    /\ got \in [Runs -> [Folders -> SUBSET Episodes]]
ReportType ==
    /\ lines \in SUBSET Folders
    /\ processed \in Nat /\ skipped \in Nat /\ downloaded \in Nat /\ printed \in BOOLEAN

LEMMA TypeParts ==
    TypeOK <=> LibraryType /\ MainType /\ RefreshType /\ JobType /\ MemoryType /\ ReportType
BY Zenon DEF TypeOK, LibraryType, MainType, RefreshType, JobType, MemoryType, ReportType

LEMMA DroppedType ==
    ASSUME JobType
    PROVE  [job EXCEPT ![run] = Dropped(@)] \in [Runs -> [Folders -> Jobs]]
<1>1. run \in Runs => Dropped(job[run]) \in [Folders -> Jobs]
  BY DEF Dropped, JobType, Jobs
<1> QED BY <1>1 DEF JobType

LEMMA LeaveTypes ==
    ASSUME TypeOK, Leave
    PROVE  /\ LibraryType' /\ MemoryType' /\ ReportType'
           /\ plan' \in Seq(Phases) /\ run' \in 0 .. MaxCommands
           /\ folders' \in SUBSET Folders /\ queue' \in SUBSET Folders
           /\ busy' \in BOOLEAN /\ ended' \in BOOLEAN /\ pool' \in BOOLEAN
           /\ read' \in [Folders -> Configs]
<1>1. LibraryType /\ MainType /\ RefreshType /\ MemoryType
  BY TypeParts
<1>2. LibraryType' /\ MemoryType'
  BY <1>1 DEF Leave, library, LibraryType, MemoryType
<1>3. ReportType'
  BY DEF Leave, ReportType
<1>4. plan' \in Seq(Phases)
  BY DEF Leave
<1> QED BY <1>1, <1>2, <1>3, <1>4 DEF Leave, MainType, RefreshType

LEMMA TypeStep == TypeOK /\ Phased /\ [Next]_vars => TypeOK'
<1> SUFFICES ASSUME TypeOK, Phased, [Next]_vars PROVE TypeOK'
  OBVIOUS
<1>0. LibraryType /\ MainType /\ RefreshType /\ JobType /\ MemoryType /\ ReportType
  BY TypeParts
<1> DEFINE Done == LibraryType' /\ MainType' /\ RefreshType' /\ JobType' /\ MemoryType' /\ ReportType'
<1>d. Done => TypeOK'
  BY Zenon DEF TypeOK, LibraryType, MainType, RefreshType, JobType, MemoryType, ReportType
<1> USE DEF LibraryType, MainType, RefreshType, JobType, MemoryType, ReportType
<1>1. CASE Choose
  <2>1. /\ plan' \in Seq(Phases) /\ run' \in 0 .. MaxCommands
    BY <1>0, <1>1, CommandsType, CommandsAssumption DEF Choose
  <2>2. job' \in [Runs -> [Folders -> Jobs]]
    <3>1. job' = Forgotten(job, [f \in Folders |-> "none"])
      BY <1>1 DEF Choose
    <3> QED BY <1>0, <3>1 DEF Forgotten, Jobs
  <2>3. loaded' \in [Runs -> [Folders -> Configs]]
    <3>1. loaded' = Forgotten(loaded, Defaults)
      BY <1>1 DEF Choose
    <3> QED BY <1>0, <3>1, DefaultsType DEF Forgotten
  <2>4. /\ todo' \in [Runs -> [Folders -> SUBSET Episodes]]
        /\ got' \in [Runs -> [Folders -> SUBSET Episodes]]
    <3>1. /\ todo' = Forgotten(todo, [f \in Folders |-> {}])
          /\ got' = Forgotten(got, [f \in Folders |-> {}])
      BY <1>1 DEF Choose
    <3> QED BY <1>0, <3>1 DEF Forgotten
  <2> QED BY <1>0, <1>1, <1>d, <2>1, <2>2, <2>3, <2>4 DEF Choose, library, refreshes
<1>2. CASE Scan
  <2>1. NewSeasons \subseteq Folders
    BY AiredAssumption DEF NewSeasons, CurrentYearSeasons, Folders, Series
  <2>2. exists' \in SUBSET Folders /\ folders' \in SUBSET Folders
    BY <1>0, <1>2, <2>1 DEF Scan
  <2>3. plan' \in Seq(Phases)
    BY <1>0, <1>2, PhaseType DEF Scan
  <2> QED BY <1>0, <1>2, <1>d, <2>2, <2>3 DEF Scan, refreshes, downloads, report
<1>3. CASE BeginRefresh
  BY <1>0, <1>3, <1>d DEF BeginRefresh, library, downloads, report
<1>4. ASSUME NEW f \in Folders, ReadConfig(f) PROVE TypeOK'
  <2>1. RefreshType'
    BY <1>0, <1>4 DEF ReadConfig
  <2> HIDE DEF RefreshType
  <2> QED BY <1>0, <1>4, <1>d, <2>1 DEF ReadConfig, library, main, downloads, report
<1>5. ASSUME NEW f \in Folders, WriteConfig(f) PROVE TypeOK'
  <2>1. \A c \in Refreshed(f, read[f]) : c \in Configs
    BY <1>0, RefreshedKeeps
  <2>2. config' \in [Folders -> Configs]
    BY <1>0, <1>5, <2>1 DEF WriteConfig
  <2>3. RefreshType'
    BY <1>0, <1>5, DefaultsType DEF WriteConfig
  <2> HIDE DEF RefreshType
  <2> QED BY <1>0, <1>5, <1>d, <2>2, <2>3 DEF WriteConfig, main, downloads, report
<1>6. CASE EndRefresh
  <2>1. plan' \in Seq(Phases)
    BY <1>0, <1>6, PhaseType DEF EndRefresh
  <2> QED BY <1>0, <1>6, <1>d, <2>1 DEF EndRefresh, library, downloads, report
<1>7. CASE Validate
  <2>1. plan' \in Seq(Phases) /\ addons' \in SUBSET Addons
    BY <1>0, <1>7, PhaseType DEF Validate
  <2> QED BY <1>0, <1>7, <1>d, <2>1 DEF Validate, refreshes, downloads, report
<1>8. CASE BeginDownload
  <2>1. folders' \in SUBSET Folders
    BY <1>0, <1>8 DEF BeginDownload
  <2>2. queue' \in SUBSET Folders
    BY <1>8, <2>1 DEF BeginDownload, Deduped
  <2>3. pool' \in BOOLEAN
    BY <1>8 DEF BeginDownload
  <2>4. job' \in [Runs -> [Folders -> Jobs]]
    BY <1>0, <1>8 DEF BeginDownload, Jobs
  <2> QED BY <1>0, <1>8, <1>d, <2>1, <2>2, <2>3, <2>4 DEF BeginDownload, library, refreshes, report
<1>9. CASE EndDownload \/ LeavePool
  <2>1. plan' \in Seq(Phases)
    BY <1>0, <1>9, PhaseType DEF EndDownload, LeavePool, PrintReport
  <2>2. job' \in [Runs -> [Folders -> Jobs]]
    BY <1>0, <1>9, DroppedType DEF EndDownload, LeavePool
  <2> QED BY <1>0, <1>9, <1>d, <2>1, <2>2
          DEF EndDownload, LeavePool, PrintReport, library, refreshes
<1>10. CASE FolderRaises
  <2>1. job' \in [Runs -> [Folders -> Jobs]]
    BY <1>0, <1>10, DroppedType DEF FolderRaises
  <2>2. Leave /\ meta' = meta /\ shutdown' = shutdown
    BY <1>10 DEF FolderRaises
  <2> QED BY <1>0, <1>d, <2>1, <2>2, LeaveTypes
<1>11. CASE KeyboardInterrupt
  <2>1. job' \in [Runs -> [Folders -> Jobs]]
    <3>1. \/ job' = job \/ job' = [job EXCEPT ![run] = Dropped(@)]
          \/ job' = [job EXCEPT ![run] = [f \in Folders |-> "none"]]
      BY <1>11 DEF KeyboardInterrupt
    <3>2. [job EXCEPT ![run] = [f \in Folders |-> "none"]] \in [Runs -> [Folders -> Jobs]]
      BY <1>0 DEF Jobs
    <3>3. [job EXCEPT ![run] = Dropped(@)] \in [Runs -> [Folders -> Jobs]]
      <4> HIDE DEF JobType
      <4> QED BY <1>0, DroppedType
    <3> QED BY <1>0, <3>1, <3>2, <3>3
  <2>2. meta' \in [Folders -> {"none", "queued", "cached", "read", "done"}]
    BY <1>0, <1>11 DEF KeyboardInterrupt
  <2>3. Leave /\ shutdown' = TRUE
    BY <1>11 DEF KeyboardInterrupt
  <2> QED BY <1>0, <1>d, <2>1, <2>2, <2>3, LeaveTypes
<1>12. CASE PressQ
  BY <1>0, <1>12, <1>d DEF PressQ, library, refreshes, downloads, report
<1>13. ASSUME NEW f \in Folders, Collect(f) PROVE TypeOK'
  <2>1. run \in Runs
    BY <1>13 DEF Collect, Phase, Phased, Planned
  <2>2. Cardinality(got[run][f]) \in Nat
    BY <1>0, <2>1, EpisodesFinite
  <2>3. lines' = lines \cup {f} /\ printed' = printed
    BY <1>13 DEF Collect
  <2>4. processed' \in Nat /\ skipped' \in Nat /\ downloaded' \in Nat
    BY <1>0, <1>13, <2>2 DEF Collect, CountProcessed
  <2>5. ReportType'
    BY <1>0, <2>3, <2>4
  <2> HIDE DEF ReportType
  <2> QED BY <1>0, <1>13, <1>d, <2>5 DEF Collect, library, main, refreshes, downloads
<1>14. ASSUME NEW r \in Runs, NEW f \in Folders, StartFolder(r, f) PROVE TypeOK'
  <2>1. job' \in [Runs -> [Folders -> Jobs]]
    <3>1. PICK how \in Jobs : job' = [job EXCEPT ![r][f] = how]
      BY <1>14 DEF StartFolder, Jobs
    <3> QED BY <1>0, <3>1
  <2>2. CASE f \in broken \/ Skipped(f)
    BY <1>0, <1>14, <1>d, <2>1, <2>2 DEF StartFolder, main, refreshes, report
  <2>3. CASE ~(f \in broken \/ Skipped(f))
    <3> DEFINE wanted == IF f \in Films THEN {1} \ files[f] ELSE Missing(config[f], files[f])
    <3>1. wanted \in SUBSET Episodes
      BY <1>0, LastEpisodeNat, MissingType
    <3>2. todo' = [todo EXCEPT ![r][f] = wanted]
      BY <1>14, <2>3 DEF StartFolder
    <3> HIDE DEF wanted
    <3>3. todo' \in [Runs -> [Folders -> SUBSET Episodes]] /\ todo'[r][f] = wanted
      BY <1>0, <3>1, <3>2
    <3>4. PICK cursor \in 0 .. (LastEpisode + 1) :
             /\ config' = [config EXCEPT ![f].cursor = cursor]
             /\ loaded' = [loaded EXCEPT ![r][f] = config'[f]]
      <4>1. config[f] \in Configs
        BY <1>0
      <4>2. PICK cursor \in IF f \in Films THEN {config[f].cursor} ELSE FirstCursor(config[f], wanted) :
               /\ config' = [config EXCEPT ![f].cursor = cursor]
               /\ loaded' = [loaded EXCEPT ![r][f] = config'[f]]
        BY <1>14, <2>3, <3>3 DEF StartFolder
      <4>3. cursor \in 0 .. (LastEpisode + 1)
        BY <3>1, <4>1, <4>2, ConfigFields, FirstCursorType
      <4> QED BY <4>2, <4>3
    <3>5. config' \in [Folders -> Configs] /\ config'[f] \in Configs
      <4>1. [config[f] EXCEPT !.cursor = cursor] \in Configs
        BY <1>0, <3>4, ConfigUpdates
      <4> QED BY <1>0, <3>4, <4>1
    <3>6. loaded' \in [Runs -> [Folders -> Configs]]
      BY <1>0, <3>4, <3>5
    <3> QED BY <1>0, <1>14, <1>d, <2>1, <3>3, <3>5, <3>6 DEF StartFolder, main, refreshes, report
  <2> QED BY <2>2, <2>3
<1>15. ASSUME NEW r \in Runs, NEW f \in Folders, NEW cursor \in 0 .. (LastEpisode + 1),
              SaveLoaded(r, f, cursor)
       PROVE  config' \in [Folders -> Configs] /\ loaded' \in [Runs -> [Folders -> Configs]]
  <2>1. [loaded[r][f] EXCEPT !.cursor = cursor] \in Configs
    <3>1. loaded[r][f] \in Configs
      BY <1>0
    <3> QED BY <3>1, ConfigUpdates
  <2>2. loaded' \in [Runs -> [Folders -> Configs]]
    BY <1>0, <1>15, <2>1 DEF SaveLoaded
  <2> QED BY <1>0, <1>15, <2>2 DEF SaveLoaded
<1>16. ASSUME NEW r \in Runs, NEW f \in Folders, DownloadItem(r, f) PROVE TypeOK'
  <2>1. PICK e \in todo[r][f] \ got[r][f] :
           /\ files' = [files EXCEPT ![f] = @ \cup {e}]
           /\ got' = [got EXCEPT ![r][f] = @ \cup {e}]
           /\ \E cursor \in IF f \in Films THEN {0} ELSE CursorsAfter(e, todo[r][f], got'[r][f]) :
                 SaveLoaded(r, f, cursor)
    BY <1>16 DEF DownloadItem
  <2>2. e \in Episodes /\ todo[r][f] \in SUBSET Episodes /\ got[r][f] \in SUBSET Episodes
    BY <1>0
  <2>3. files' \in [Folders -> SUBSET Episodes] /\ got' \in [Runs -> [Folders -> SUBSET Episodes]]
        /\ got'[r][f] \in SUBSET Episodes
    BY <1>0, <2>1, <2>2
  <2>4. PICK cursor \in 0 .. (LastEpisode + 1) : SaveLoaded(r, f, cursor)
    <3>1. CursorsAfter(e, todo[r][f], got'[r][f]) \subseteq 0 .. (LastEpisode + 1)
      BY <2>1, <2>2, <2>3, CursorsAfterType
    <3>2. {0} \subseteq 0 .. (LastEpisode + 1)
      BY LastEpisodeNat
    <3> QED BY <2>1, <3>1, <3>2
  <2>5. config' \in [Folders -> Configs] /\ loaded' \in [Runs -> [Folders -> Configs]]
    BY <1>15, <2>4
  <2> QED BY <1>0, <1>16, <1>d, <2>3, <2>5 DEF DownloadItem, main, refreshes, report
<1>17. ASSUME NEW r \in Runs, NEW f \in Folders, TryItem(r, f) PROVE TypeOK'
  <2>1. PICK e \in todo[r][f] : SaveLoaded(r, f, e)
    BY <1>17 DEF TryItem
  <2>2. e \in 0 .. (LastEpisode + 1)
    BY <1>0, <2>1, LastEpisodeNat DEF Episodes
  <2>3. config' \in [Folders -> Configs] /\ loaded' \in [Runs -> [Folders -> Configs]]
    BY <1>15, <2>1, <2>2
  <2> QED BY <1>0, <1>17, <1>d, <2>3 DEF TryItem, main, refreshes, report
<1>18. ASSUME NEW r \in Runs, NEW f \in Folders, LeaveFolder(r, f) PROVE TypeOK'
  <2>1. job' \in [Runs -> [Folders -> Jobs]]
    BY <1>0, <1>18 DEF LeaveFolder, Jobs
  <2>2. loaded' \in [Runs -> [Folders -> Configs]] /\ todo' \in [Runs -> [Folders -> SUBSET Episodes]]
    BY <1>0, <1>18, DefaultsType DEF LeaveFolder
  <2> QED BY <1>0, <1>18, <1>d, <2>1, <2>2 DEF LeaveFolder, library, main, refreshes, report
<1>19. ASSUME NEW r \in Runs, NEW f \in Folders, DropResults(r, f) PROVE TypeOK'
  <2>1. PICK unread \in SUBSET (todo[r][f] \ got[r][f]) :
           files' = [files EXCEPT ![f] = @ \cup unread]
    BY <1>19 DEF DropResults
  <2>2. todo[r][f] \in SUBSET Episodes /\ got[r][f] \in SUBSET Episodes
    BY <1>0
  <2>3. files' \in [Folders -> SUBSET Episodes]
    BY <1>0, <2>1, <2>2
  <2>4. todo' \in [Runs -> [Folders -> SUBSET Episodes]]
    BY <1>0, <1>19, <2>2 DEF DropResults
  <2> QED BY <1>0, <1>19, <1>d, <2>3, <2>4 DEF DropResults, main, refreshes, report
<1>20. CASE UNCHANGED vars
  BY <1>0, <1>20, <1>d DEF vars, library, main, refreshes, downloads, report
<1> QED BY <1>1, <1>2, <1>3, <1>4, <1>5, <1>6, <1>7, <1>8, <1>9, <1>10, <1>11, <1>12, <1>13, <1>14,
           <1>16, <1>17, <1>18, <1>19, <1>20 DEF Next

LEMMA TypeInit == Init => TypeOK
<1> SUFFICES ASSUME Init PROVE TypeOK
  OBVIOUS
<1>1. LibraryType
  BY LibrariesAssumption DEF Init, LibraryType
<1>2. MainType
  <2>1. run \in 0 .. MaxCommands /\ plan \in Seq(Phases)
    BY CommandsAssumption DEF Init
  <2> QED BY <2>1 DEF Init, MainType
<1>3. RefreshType
  BY DefaultsType DEF Init, RefreshType
<1>4. JobType
  BY DEF Init, JobType, Jobs
<1>5. MemoryType
  BY DefaultsType DEF Init, MemoryType
<1>6. ReportType
  BY DEF Init, ReportType
<1> QED BY <1>1, <1>2, <1>3, <1>4, <1>5, <1>6, TypeParts

----------------------------------------------------------------------------
(***************************************************************************)
(* The phases follow one another.                                          *)
(***************************************************************************)
LEMMA PlanTail ==
    ASSUME TypeOK, Planned, plan # <<>>
    PROVE  /\ run \in Runs /\ ~ended
           /\ \A i \in 1 .. Len(Tail(plan)) : i < Len(Tail(plan)) => Tail(plan)[i] # "download"
           /\ Phase = "download" => Tail(plan) = <<>>
<1>1. plan \in Seq(Phases) /\ Len(plan) \in Nat \ {0} /\ Phase = plan[1]
  BY DEF TypeOK, Phase
<1>2. \A i \in 1 .. Len(Tail(plan)) : i < Len(Tail(plan)) => Tail(plan)[i] # "download"
  <2>1. Len(Tail(plan)) = Len(plan) - 1 /\ \A i \in 1 .. Len(plan) - 1 : Tail(plan)[i] = plan[i + 1]
    BY <1>1
  <2>2. \A i \in 1 .. Len(plan) - 1 : i < Len(plan) - 1 => plan[i + 1] # "download"
    BY <1>1 DEF Planned
  <2> QED BY <2>1, <2>2
<1>3. Phase = "download" => Tail(plan) = <<>>
  <2> SUFFICES ASSUME Phase = "download" PROVE Tail(plan) = <<>>
    OBVIOUS
  <2>1. ~(1 < Len(plan))
    <3>1. 1 \in 1 .. Len(plan)
      BY <1>1
    <3>2. 1 < Len(plan) => plan[1] # "download"
      BY <3>1 DEF Planned
    <3> QED BY <1>1, <3>2
  <2>2. Len(plan) = 1
    BY <1>1, <2>1
  <2>3. Tail(plan) \in Seq(Phases) /\ Len(Tail(plan)) = 0
    BY <1>1, <2>2
  <2>4. \A s \in Seq(Phases) : Len(s) = 0 => s = <<>>
    OBVIOUS
  <2> QED BY <2>3, <2>4
<1> QED BY <1>2, <1>3 DEF Planned

LEMMA PlannedStep == TypeOK /\ Planned /\ [Next]_vars => Planned'
<1> SUFFICES ASSUME TypeOK, Planned, [Next]_vars PROVE Planned'
  OBVIOUS
<1>1. CASE Choose
  <2>1. run' \in Runs
    <3>1. run \in Nat /\ run' = run + 1 /\ run + 1 <= MaxCommands
      BY <1>1, CommandsAssumption DEF Choose, TypeOK
    <3> QED BY <3>1, CommandsAssumption DEF Runs
  <2>2. \A i \in 1 .. Len(plan') : i < Len(plan') => plan'[i] # "download"
    BY <1>1, CommandsType DEF Choose
  <2>3. ~ended'
    BY <1>1 DEF Choose
  <2> QED BY <2>1, <2>2, <2>3 DEF Planned
<1>2. CASE /\ plan' = Tail(plan) /\ Phase \in Phases
           /\ run' = run /\ ended' = ended
  <2>1. plan # <<>>
    BY <1>2 DEF Phase, Phases
  <2> QED BY <1>2, <2>1, PlanTail DEF Planned
<1>3. CASE plan' = <<>>
  BY <1>3 DEF Planned
<1>4. CASE UNCHANGED <<plan, run, ended>>
  BY <1>4 DEF Planned
<1>5. Scan \/ EndRefresh \/ Validate \/ EndDownload \/ LeavePool =>
         /\ plan' = Tail(plan) /\ Phase \in Phases
         /\ run' = run /\ ended' = ended
  BY DEF Scan, EndRefresh, Validate, EndDownload, LeavePool, PrintReport, Phases
<1>6. FolderRaises \/ KeyboardInterrupt => plan' = <<>>
  BY DEF FolderRaises, KeyboardInterrupt, Leave
<1>7. BeginRefresh \/ BeginDownload \/ PressQ => UNCHANGED <<plan, run, ended>>
  BY DEF BeginRefresh, BeginDownload, PressQ
<1>8. ASSUME NEW f \in Folders, ReadConfig(f) \/ WriteConfig(f) \/ Collect(f)
      PROVE  UNCHANGED <<plan, run, ended>>
  BY <1>8 DEF ReadConfig, WriteConfig, Collect, main
<1>9. ASSUME NEW r \in Runs, NEW f \in Folders,
             \/ StartFolder(r, f) \/ DownloadItem(r, f) \/ DropResults(r, f) \/ TryItem(r, f)
             \/ LeaveFolder(r, f)
      PROVE  UNCHANGED <<plan, run, ended>>
  BY <1>9 DEF StartFolder, DownloadItem, DropResults, TryItem, LeaveFolder, main
<1>10. UNCHANGED vars => UNCHANGED <<plan, run, ended>>
  BY DEF vars, main
<1> QED BY <1>1, <1>2, <1>3, <1>4, <1>5, <1>6, <1>7, <1>8, <1>9, <1>10 DEF Next

\* What follows of the phase when the command has just one thing to do.
LEMMA PhaseFacts ==
    ASSUME TypeOK, Phased
    PROVE  /\ Phase \in Phases => run \in Runs /\ ~ended /\ plan # <<>>
           /\ Phase \in Phases \ {"download"} \/ (Phase = "download" /\ ~busy) => Idle(run)
           /\ Phase \in {"scan", "validate", "download"} \/ (plan = <<>> /\ ~ended) =>
                 \A f \in Folders : meta[f] = "none"
<1>1. Phase \in Phases => plan # <<>>
  BY DEF Phase, Phases
<1>2. Phase \in Phases => run \in Runs /\ ~ended
  BY <1>1 DEF Phased, Planned
<1>3. Phase \in Phases \ {"download"} \/ (Phase = "download" /\ ~busy) => Idle(run)
  BY <1>1 DEF Phased, Begun, Downloading, Phases
<1>4. Phase \in {"scan", "validate", "download"} \/ (plan = <<>> /\ ~ended) =>
                 \A f \in Folders : meta[f] = "none"
  BY <1>2 DEF Phased, RefreshedAlone, Phases, Phase
<1> QED BY <1>1, <1>2, <1>3, <1>4

LEMMA JobsAfter ==
    ASSUME TypeOK, Phased, NEW r \in Runs, NEW f \in Folders,
           StartFolder(r, f) \/ LeaveFolder(r, f)
    PROVE  /\ ~(r > run) /\ ~Idle(r)
           /\ job'[r][f] # "queued"
           /\ \A q \in Runs, g \in Folders : q # r \/ g # f => job'[q][g] = job[q][g]
<1>1. PICK how \in Jobs \ {"none", "queued"} : job' = [job EXCEPT ![r][f] = how]
  BY DEF StartFolder, LeaveFolder, Jobs
<1>2. job[r][f] # "none"
  BY DEF StartFolder, LeaveFolder
<1> QED BY <1>1, <1>2 DEF TypeOK, Phased, Begun, Idle

LEMMA BegunStep == TypeOK /\ Phased /\ [Next]_vars => Begun'
<1> SUFFICES ASSUME TypeOK, Phased, [Next]_vars PROVE Begun'
  OBVIOUS
<1>0. Begun /\ run \in Int /\ Runs \subseteq Int /\ job \in [Runs -> [Folders -> Jobs]]
  BY DEF Phased, TypeOK, Runs
<1>1. CASE Choose
  <2>1. \A r \in Runs, f \in Folders : job'[r][f] = IF job[r][f] = "running" THEN "running" ELSE "none"
    BY <1>1 DEF Choose, Forgotten
  <2>2. run' = run + 1
    BY <1>1 DEF Choose
  <2>3. \A r \in Runs : r > run => Idle(r)'
    BY <1>0, <2>1 DEF Begun, Idle
  <2>4. \A r \in Runs, f \in Folders : job'[r][f] # "queued"
    BY <2>1
  <2>5. plan' # <<>> => run' \in Runs
    <3>1. run + 1 <= MaxCommands /\ run \in Nat
      BY <1>1, CommandsAssumption DEF Choose, TypeOK
    <3> QED BY <2>2, <3>1, CommandsAssumption DEF Runs
  <2> QED BY <1>0, <2>2, <2>3, <2>4, <2>5 DEF Begun
<1>2. CASE /\ UNCHANGED <<run, job>>
           /\ plan' # <<>> /\ ~Downloading' => plan # <<>> /\ ~Downloading
  <2>1. \A r : Idle(r)' <=> Idle(r)
    BY <1>2 DEF Idle
  <2> QED BY <1>0, <1>2, <2>1 DEF Begun
<1>3. Scan \/ Validate \/ EndRefresh \/ BeginRefresh =>
         /\ UNCHANGED <<run, job>> /\ plan # <<>> /\ ~Downloading
  BY DEF Scan, Validate, EndRefresh, BeginRefresh, Downloading, Phase, downloads
<1>4. PressQ => UNCHANGED <<plan, busy, run, job>>
  BY DEF PressQ, downloads
<1>5. ASSUME NEW f \in Folders, ReadConfig(f) \/ WriteConfig(f) \/ Collect(f)
      PROVE  UNCHANGED <<plan, busy, run, job>>
  BY <1>5 DEF ReadConfig, WriteConfig, Collect, main, downloads
<1>6. ASSUME NEW r \in Runs, NEW f \in Folders,
             DownloadItem(r, f) \/ DropResults(r, f) \/ TryItem(r, f)
      PROVE  UNCHANGED <<plan, busy, run, job>>
  BY <1>6 DEF DownloadItem, DropResults, TryItem, main
<1>7. UNCHANGED vars => UNCHANGED <<plan, busy, run, job>>
  BY DEF vars, main, downloads
<1>8. UNCHANGED <<plan, busy, run, job>> => (Downloading' <=> Downloading)
  BY DEF Downloading, Phase
<1>9. CASE /\ run' = run /\ \A q \in Runs, g \in Folders : q # run => job'[q][g] = job[q][g]
           /\ plan' = <<>> \/ Downloading'
  <2>1. \A r \in Runs : r > run' => Idle(r)'
    BY <1>0, <1>9 DEF Begun, Idle
  <2>2. \A r \in Runs, f \in Folders : r < run' => job'[r][f] # "queued"
    BY <1>0, <1>9 DEF Begun
  <2> QED BY <1>9, <2>1, <2>2 DEF Begun
<1>10. BeginDownload => /\ run' = run /\ \A q \in Runs, g \in Folders : q # run => job'[q][g] = job[q][g]
                        /\ Downloading'
  BY <1>0 DEF BeginDownload, Downloading, Phase
<1>11. EndDownload \/ LeavePool \/ FolderRaises \/ KeyboardInterrupt =>
         /\ run' = run /\ \A q \in Runs, g \in Folders : q # run => job'[q][g] = job[q][g]
         /\ plan' = <<>>
  <2>1. EndDownload \/ LeavePool => run' = run /\ job' = [job EXCEPT ![run] = Dropped(@)]
    BY DEF EndDownload, LeavePool, PrintReport
  <2>2. EndDownload \/ LeavePool => plan' = <<>>
    <3>1. EndDownload \/ LeavePool => plan' = Tail(plan) /\ Phase = "download" /\ plan # <<>>
      BY DEF EndDownload, LeavePool, PrintReport, Phase
    <3> QED BY <3>1, PlanTail DEF Phased
  <2>3. FolderRaises \/ KeyboardInterrupt =>
           /\ run' = run /\ plan' = <<>>
           /\ \E jobs : job' \in {job, [job EXCEPT ![run] = jobs]}
    BY DEF FolderRaises, KeyboardInterrupt, Leave
  <2> QED BY <1>0, <2>1, <2>2, <2>3
<1>12. ASSUME NEW r \in Runs, NEW f \in Folders, StartFolder(r, f) \/ LeaveFolder(r, f)
       PROVE  Begun'
  <2>1. UNCHANGED <<plan, busy, run>>
    BY <1>12 DEF StartFolder, LeaveFolder, main
  <2>2. Downloading' <=> Downloading
    BY <2>1 DEF Downloading, Phase
  <2>3. \A q \in Runs : Idle(q) => Idle(q)'
    BY <1>12, JobsAfter DEF Idle
  <2>4. \A q \in Runs, g \in Folders : q < run => job'[q][g] # "queued"
    BY <1>0, <1>12, JobsAfter DEF Begun
  <2>5. plan # <<>> => run \in Runs
    BY DEF Phased, Planned
  <2> QED BY <1>0, <2>1, <2>2, <2>3, <2>4, <2>5 DEF Begun
<1> QED BY <1>1, <1>2, <1>3, <1>4, <1>5, <1>6, <1>7, <1>8, <1>9, <1>10, <1>11, <1>12 DEF Next

LEMMA RefreshedAloneStep == TypeOK /\ Phased /\ [Next]_vars => RefreshedAlone'
<1> SUFFICES ASSUME TypeOK, Phased, [Next]_vars PROVE RefreshedAlone'
  OBVIOUS
<1>0. RefreshedAlone /\ run \in Int /\ job \in [Runs -> [Folders -> Jobs]]
  BY DEF Phased, TypeOK
<1>1. CASE \A f \in Folders : meta'[f] = "none"
  BY <1>1 DEF RefreshedAlone
<1>2. Choose \/ Scan \/ Validate \/ BeginDownload \/ EndDownload \/ LeavePool \/ FolderRaises =>
         \A f \in Folders : meta'[f] = "none"
  <2>1. Choose \/ Scan \/ Validate \/ BeginDownload \/ EndDownload \/ LeavePool \/ FolderRaises =>
           meta' = meta
    BY DEF Choose, Scan, Validate, BeginDownload, EndDownload, LeavePool, FolderRaises, PrintReport, refreshes
  <2>2. Choose \/ Scan \/ Validate \/ BeginDownload \/ EndDownload \/ LeavePool \/ FolderRaises =>
           Phase \in {"scan", "validate", "download"} \/ (plan = <<>> /\ ~ended)
    BY DEF Choose, Scan, Validate, BeginDownload, EndDownload, LeavePool, FolderRaises
  <2> QED BY <2>1, <2>2, PhaseFacts
<1>3. EndRefresh => \A f \in Folders : meta'[f] = "none"
  BY DEF EndRefresh
<1>4. CASE BeginRefresh
  <2>1. UNCHANGED <<plan, run, job>> /\ busy' /\ Phase \in {"sync", "refresh"}
    BY <1>4 DEF BeginRefresh, downloads
  <2>2. run \in Runs /\ Idle(run)
    BY <2>1, PhaseFacts DEF Phases
  <2> QED BY <2>1, <2>2 DEF RefreshedAlone, Idle, Phase
<1>5. CASE /\ UNCHANGED <<plan, busy, run, ended, job>>
           /\ \A f \in Folders : meta'[f] # "none" => meta[f] # "none"
  BY <1>0, <1>5 DEF RefreshedAlone, Idle, Phase
<1>6. PressQ \/ UNCHANGED vars => UNCHANGED <<plan, busy, run, ended, job, meta>>
  BY DEF PressQ, downloads, refreshes, vars, main
<1>7. ASSUME NEW f \in Folders, ReadConfig(f) \/ WriteConfig(f) \/ Collect(f)
      PROVE  /\ UNCHANGED <<plan, busy, run, ended, job>>
             /\ \A g \in Folders : meta'[g] # "none" => meta[g] # "none"
  BY <1>7 DEF ReadConfig, WriteConfig, Collect, main, downloads, refreshes, TypeOK
<1>8. ASSUME NEW r \in Runs, NEW f \in Folders,
             DownloadItem(r, f) \/ DropResults(r, f) \/ TryItem(r, f)
      PROVE  UNCHANGED <<plan, busy, run, ended, job, meta>>
  BY <1>8 DEF DownloadItem, DropResults, TryItem, main, refreshes
<1>9. CASE KeyboardInterrupt
  <2>1. run' = run /\ ended' = TRUE /\ \A f \in Folders : meta'[f] # "none" => meta[f] # "none"
    BY <1>9 DEF KeyboardInterrupt, Leave
  <2>2. Phase # "download" => job' = job
    BY <1>9 DEF KeyboardInterrupt
  <2>3. Phase = "download" => \A f \in Folders : meta[f] = "none"
    BY PhaseFacts
  <2> QED BY <1>0, <2>1, <2>2, <2>3 DEF RefreshedAlone, Idle
<1>10. ASSUME NEW r \in Runs, NEW f \in Folders, StartFolder(r, f) \/ LeaveFolder(r, f)
       PROVE  RefreshedAlone'
  <2>1. UNCHANGED <<plan, busy, run, ended, meta>>
    BY <1>10 DEF StartFolder, LeaveFolder, main, refreshes
  <2>2. \A q \in Runs : Idle(q) => Idle(q)'
    BY <1>10, JobsAfter DEF Idle
  <2> QED BY <1>0, <2>1, <2>2 DEF RefreshedAlone, Phase
<1> QED BY <1>1, <1>2, <1>3, <1>4, <1>5, <1>6, <1>7, <1>8, <1>9, <1>10 DEF Next

LEMMA PhasedInit == Init => Phased
<1> SUFFICES ASSUME Init PROVE Phased
  OBVIOUS
<1>1. Planned
  BY DEF Init, Planned
<1>2. Begun
  BY CommandsAssumption DEF Init, Begun, Idle, Runs
<1>3. RefreshedAlone
  BY DEF Init, RefreshedAlone
<1> QED BY <1>1, <1>2, <1>3 DEF Phased

LEMMA TypedAndPhased == Spec => [](TypeOK /\ Phased)
<1>1. TypeOK /\ Phased /\ [Next]_vars => (TypeOK /\ Phased)'
  BY TypeStep, PlannedStep, BegunStep, RefreshedAloneStep DEF Phased
<1> QED BY <1>1, TypeInit, PhasedInit, PTL DEF Spec

\* In any number of commands, whichever threads they leave behind, every variable
\* keeps its type: cursors and counts stay within the season, and the threads of a
\* command that is gone are at folders of the library.
THEOREM TypeCorrect == Spec => []TypeOK
BY TypedAndPhased, PTL

----------------------------------------------------------------------------
(***************************************************************************)
(* The report. Each line is a folder of this command that is done with,    *)
(* and its episodes are counted when the line is added: the threads of     *)
(* earlier commands bring theirs elsewhere.                                *)
(***************************************************************************)
\* The totals of the report are those of its lines.
Tallied ==
    /\ lines \subseteq queue
    /\ \A f \in lines : run \in Runs /\ job[run][f] \in {"done", "skipped"}
    /\ processed + skipped = Cardinality(lines)
    /\ downloaded = Cardinality(Arrived)

\* There are lines in a download and behind it.
Told ==
    /\ lines # {} => printed \/ Downloading
    /\ printed => plan = <<>> /\ (shutdown \/ lines = queue)

Counted == Tallied /\ Told

LEMMA ArrivedFinite ==
    ASSUME TypeOK
    PROVE  IsFiniteSet(lines) /\ IsFiniteSet(Arrived)
<1>1. IsFiniteSet(lines)
  BY FoldersFinite, FS_Subset DEF TypeOK
<1>2. IsFiniteSet(lines \X Episodes)
  BY <1>1, EpisodesFinite, FS_Product
<1> QED BY <1>1, <1>2, FS_Subset DEF Arrived

LEMMA NoLines == lines = {} => Cardinality(lines) = 0 /\ Cardinality(Arrived) = 0
BY FS_EmptySet DEF Arrived

LEMMA NoLinesAfter == lines' = {} => Cardinality(lines') = 0 /\ Cardinality(Arrived') = 0
BY FS_EmptySet DEF Arrived

\* What counts is left alone by a step that changes other folders.
LEMMA TalliedSame ==
    ASSUME TypeOK, Tallied, UNCHANGED <<run, queue, lines, processed, skipped, downloaded>>,
           \A f \in lines : job'[run][f] = job[run][f] /\ got'[run][f] = got[run][f]
    PROVE  Tallied'
<1>1. Arrived' = Arrived
  BY DEF Arrived
<1> QED BY <1>1 DEF Tallied

LEMMA CollectTallies ==
    ASSUME TypeOK, Phased, Counted, NEW f \in Folders, Collect(f)
    PROVE  Tallied'
<1>1. /\ run \in Runs /\ f \in queue \ lines /\ job[run][f] \in {"done", "skipped"}
      /\ lines' = lines \cup {f} /\ UNCHANGED <<queue, run, job, got>>
  <2>1. run \in Runs
    BY PhaseFacts DEF Collect, Phases
  <2> QED BY <2>1 DEF Collect, Collectable, main, downloads
<1> DEFINE own == {f} \X got[run][f]
<1>2. got[run][f] \in SUBSET Episodes
  BY <1>1 DEF TypeOK
<1>3. IsFiniteSet(got[run][f]) /\ Cardinality(got[run][f]) \in Nat
  BY <1>2, EpisodesFinite
<1>4. Cardinality(lines') = Cardinality(lines) + 1
  BY <1>1, ArrivedFinite, FS_AddElement
<1>5. processed' + skipped' = processed + skipped + 1
  <2>1. processed \in Nat /\ skipped \in Nat
    BY DEF TypeOK
  <2>2. /\ processed' = processed + (IF job[run][f] = "skipped" THEN 0 ELSE 1)
        /\ skipped' = skipped + (IF job[run][f] = "skipped" THEN 1 ELSE 0)
    BY DEF Collect, CountProcessed
  <2> QED BY <2>1, <2>2
<1>6. Arrived' = Arrived \cup own /\ Arrived \cap own = {}
  <2>1. \A p : p \in Arrived' <=> p \in Arrived \/ p \in own
    BY <1>1, <1>2 DEF Arrived
  <2>2. \A p : ~(p \in Arrived /\ p \in own)
    BY <1>1 DEF Arrived
  <2> QED BY <2>1, <2>2
<1>7. IsFiniteSet(own) /\ Cardinality(own) = Cardinality(got[run][f])
  <2>1. IsFiniteSet({f}) /\ Cardinality({f}) = 1
    BY FS_Singleton
  <2>2. IsFiniteSet(own) /\ Cardinality(own) = Cardinality({f}) * Cardinality(got[run][f])
    BY <1>3, <2>1, FS_Product
  <2> HIDE DEF own
  <2>3. Cardinality(own) = 1 * Cardinality(got[run][f])
    BY <2>1, <2>2
  <2> QED BY <1>3, <2>2, <2>3
<1>8. Cardinality(Arrived') = Cardinality(Arrived) + Cardinality(got[run][f])
  <2> HIDE DEF own
  <2>1. Cardinality(Arrived') = Cardinality(Arrived) + Cardinality(own) - Cardinality({})
    BY <1>6, <1>7, ArrivedFinite, FS_Union
  <2>2. Cardinality({}) = 0 /\ Cardinality(Arrived) \in Nat
    BY ArrivedFinite, FS_EmptySet, FS_CardinalityType
  <2> QED BY <1>3, <1>7, <2>1, <2>2
<1>9. downloaded' = downloaded + Cardinality(got[run][f])
  BY DEF Collect
<1> QED BY <1>1, <1>4, <1>5, <1>8, <1>9 DEF Counted, Tallied

LEMMA CountedStep == TypeOK /\ Phased /\ Counted /\ [Next]_vars => Counted'
<1> SUFFICES ASSUME TypeOK, Phased, Counted, [Next]_vars PROVE Counted'
  OBVIOUS
<1>0. Tallied /\ Told /\ job \in [Runs -> [Folders -> Jobs]] /\ got \in [Runs -> [Folders -> SUBSET Episodes]]
      /\ lines \subseteq Folders
  BY DEF Counted, TypeOK
<1>1. CASE /\ lines' = {} /\ printed' = FALSE
           /\ processed' + skipped' = 0 /\ downloaded' = 0
  BY <1>1, NoLinesAfter DEF Counted, Tallied, Told
<1>2. Choose \/ FolderRaises \/ KeyboardInterrupt =>
         /\ lines' = {} /\ printed' = FALSE
         /\ processed' + skipped' = 0 /\ downloaded' = 0
  BY DEF Choose, FolderRaises, KeyboardInterrupt, Leave
<1>3. ASSUME Scan \/ BeginRefresh \/ EndRefresh \/ Validate \/ BeginDownload
      PROVE  /\ lines' = {} /\ printed' = FALSE
             /\ processed' + skipped' = 0 /\ downloaded' = 0
  <2>1. plan # <<>> /\ ~Downloading
    BY <1>3 DEF Scan, BeginRefresh, EndRefresh, Validate, BeginDownload, Downloading, Phase
  <2>2. lines = {} /\ printed = FALSE
    BY <1>0, <2>1 DEF Told, TypeOK
  <2>3. UNCHANGED <<lines, printed, processed, skipped, downloaded>>
    BY <1>3 DEF Scan, BeginRefresh, EndRefresh, Validate, BeginDownload, report
  <2> QED BY <1>0, <2>2, <2>3, NoLines DEF Tallied
<1>4. CASE UNCHANGED <<run, queue, lines, processed, skipped, downloaded, printed, plan, busy, job, got>>
           /\ shutdown' \in {TRUE, shutdown}
  <2>1. Tallied'
    BY <1>0, <1>4, TalliedSame
  <2>2. Told'
    BY <1>0, <1>4 DEF Told, Downloading, Phase
  <2> QED BY <2>1, <2>2 DEF Counted
<1>5. PressQ \/ UNCHANGED vars =>
         UNCHANGED <<run, queue, lines, processed, skipped, downloaded, printed, plan, busy, job, got>>
         /\ shutdown' \in {TRUE, shutdown}
  BY DEF PressQ, vars, main, downloads, report
<1>6. ASSUME NEW f \in Folders, ReadConfig(f) \/ WriteConfig(f)
      PROVE  UNCHANGED <<run, queue, lines, processed, skipped, downloaded, printed, plan, busy, job, got>>
             /\ shutdown' \in {TRUE, shutdown}
  BY <1>6 DEF ReadConfig, WriteConfig, main, downloads, report
<1>7. ASSUME NEW f \in Folders, Collect(f) PROVE Counted'
  <2>1. Told'
    <3>1. Downloading /\ ~printed
      BY <1>0, <1>7 DEF Collect, Downloading, Told, Phase
    <3>2. UNCHANGED <<plan, busy, printed>>
      BY <1>7 DEF Collect, main
    <3> QED BY <3>1, <3>2 DEF Told, Downloading, Phase
  <2> QED BY <1>7, <2>1, CollectTallies DEF Counted
<1>8. ASSUME EndDownload \/ LeavePool PROVE Counted'
  <2>1. /\ Phase = "download" /\ plan # <<>> /\ (lines = queue \/ shutdown)
        /\ job' = [job EXCEPT ![run] = Dropped(@)]
    BY <1>8 DEF EndDownload, LeavePool, Phase
  <2>2. /\ UNCHANGED <<run, queue, lines, processed, skipped, downloaded, got, shutdown>>
        /\ printed' = TRUE /\ plan' = Tail(plan)
    BY <1>8 DEF EndDownload, LeavePool, PrintReport
  <2>3. \A f \in lines : job'[run][f] = job[run][f]
    <3> SUFFICES ASSUME NEW f \in lines PROVE job'[run][f] = job[run][f]
      OBVIOUS
    <3>1. run \in Runs /\ f \in Folders /\ job[run][f] # "queued"
      BY <1>0 DEF Tallied
    <3>2. job'[run] = Dropped(job[run])
      BY <1>0, <2>1, <3>1
    <3> QED BY <3>1, <3>2 DEF Dropped
  <2>4. Tallied'
    BY <1>0, <2>2, <2>3, TalliedSame
  <2>5. Told'
    BY <2>1, <2>2, PlanTail DEF Told, Phased
  <2> QED BY <2>4, <2>5 DEF Counted
<1>9. ASSUME NEW r \in Runs, NEW f \in Folders,
             \/ StartFolder(r, f) \/ LeaveFolder(r, f)
             \/ DownloadItem(r, f) \/ DropResults(r, f) \/ TryItem(r, f)
      PROVE  Counted'
  <2>1. job[r][f] \in {"queued", "running"}
    BY <1>9 DEF StartFolder, LeaveFolder, DownloadItem, DropResults, TryItem
  <2>2. UNCHANGED <<run, queue, lines, processed, skipped, downloaded, printed, plan, busy, shutdown>>
    BY <1>9 DEF StartFolder, LeaveFolder, DownloadItem, DropResults, TryItem, main, report
  <2>3. \A q \in Runs, g \in Folders : q # r \/ g # f => job'[q][g] = job[q][g] /\ got'[q][g] = got[q][g]
    <3>1. CASE StartFolder(r, f) \/ LeaveFolder(r, f)
      <4>1. got' = got
        BY <3>1 DEF StartFolder, LeaveFolder
      <4> QED BY <3>1, <4>1, JobsAfter
    <3>2. CASE DownloadItem(r, f) \/ DropResults(r, f) \/ TryItem(r, f)
      <4>1. job' = job /\ \E g : got' \in {got, [got EXCEPT ![r][f] = g]}
        BY <3>2 DEF DownloadItem, DropResults, TryItem
      <4> QED BY <1>0, <4>1
    <3> QED BY <1>9, <3>1, <3>2
  <2>4. \A g \in lines : run \in Runs /\ g \in Folders /\ (run # r \/ g # f)
    BY <1>0, <2>1 DEF Tallied
  <2>5. Tallied'
    BY <1>0, <2>2, <2>3, <2>4, TalliedSame
  <2>6. Told'
    BY <1>0, <2>2 DEF Told, Downloading, Phase
  <2> QED BY <2>5, <2>6 DEF Counted
<1> QED BY <1>1, <1>2, <1>3, <1>4, <1>5, <1>6, <1>7, <1>8, <1>9 DEF Next

LEMMA CountedInit == Init => Counted
BY NoLines DEF Init, Counted, Tallied, Told

\* The report of a command counts its folders and what arrived in them once each,
\* for any number of commands, whatever the threads of earlier ones still do, and
\* only an interruption leaves folders out.
THEOREM ReportAddsUp == Spec => []ReportExact
<1>1. Counted => ReportExact
  BY DEF Counted, Tallied, Told, ReportExact
<1> QED BY <1>1, TypedAndPhased, CountedInit, CountedStep, PTL DEF Spec

----------------------------------------------------------------------------
(***************************************************************************)
(* What is listed stays listed. A refresh adds to the config that it has   *)
(* read and a download saves the one that it has loaded: both are what the *)
(* file says, for within one command the two are never at work on one      *)
(* folder.                                                                 *)
(***************************************************************************)
\* What a refresh has read of a folder, or its download, is what the file says,
\* unless an earlier command's threads are still at the folder.
FreshRead(f) == meta[f] \in {"cached", "read"} => SameWants(read[f], config[f])
FreshLoaded(f) == run \in Runs => (job[run][f] = "running" => SameWants(loaded[run][f], config[f]))
Fresh == \A f \in Folders : ~Lingering(f) => FreshRead(f) /\ FreshLoaded(f)

LEMMA AtWork ==
    ASSUME TypeOK, Phased, NEW r \in Runs, NEW f \in Folders, job[r][f] \in {"queued", "running"}
    PROVE  /\ r = run \/ (r < run /\ Lingering(f))
           /\ r = run => \A g \in Folders : meta[g] = "none"
           /\ job[r][f] = "queued" => r = run
<1>1. ~(r > run) /\ (r < run => job[r][f] # "queued") /\ run \in Int /\ r \in Int /\ ~Idle(r)
  BY DEF TypeOK, Phased, Begun, Idle, Runs
<1>2. r = run => \A g \in Folders : meta[g] = "none"
  BY <1>1 DEF Phased, RefreshedAlone
<1> QED BY <1>1, <1>2 DEF Lingering

LEMMA SavedFacts ==
    ASSUME TypeOK, NEW r \in Runs, NEW f \in Folders, DownloadItem(r, f) \/ TryItem(r, f)
    PROVE  /\ job[r][f] = "running" /\ UNCHANGED <<run, job, meta, read>>
           /\ config'[f] = loaded'[r][f] /\ SameWants(loaded[r][f], loaded'[r][f])
           /\ \A g \in Folders : g # f => config'[g] = config[g]
           /\ \A q \in Runs, g \in Folders : q # r \/ g # f => loaded'[q][g] = loaded[q][g]
<1>1. PICK cursor : SaveLoaded(r, f, cursor)
  <2>1. DownloadItem(r, f) => \E cursor : SaveLoaded(r, f, cursor)
    BY DEF DownloadItem
  <2>2. TryItem(r, f) => \E cursor : SaveLoaded(r, f, cursor)
    BY DEF TryItem
  <2> QED BY <2>1, <2>2
<1>2. job[r][f] = "running" /\ UNCHANGED <<run, job, meta, read>>
  BY DEF DownloadItem, TryItem, main, refreshes
<1>3. loaded' = [loaded EXCEPT ![r][f].cursor = cursor] /\ config' = [config EXCEPT ![f] = loaded'[r][f]]
  BY <1>1 DEF SaveLoaded
<1>4. loaded'[r][f] = [loaded[r][f] EXCEPT !.cursor = cursor]
  BY <1>3 DEF TypeOK
<1>5. SameWants(loaded[r][f], loaded'[r][f])
  <2>1. loaded[r][f] \in Configs
    BY DEF TypeOK
  <2> QED BY <1>4, <2>1, ConfigUpdates
<1> QED BY <1>2, <1>3, <1>5 DEF TypeOK

LEMMA StartedFacts ==
    ASSUME TypeOK, NEW r \in Runs, NEW f \in Folders, StartFolder(r, f)
    PROVE  /\ job[r][f] = "queued" /\ UNCHANGED <<run, meta, read>>
           /\ SameWants(config[f], config'[f])
           /\ job'[r][f] = "running" => loaded'[r][f] = config'[f]
           /\ \A g \in Folders : g # f => config'[g] = config[g]
           /\ \A q \in Runs, g \in Folders : q # r \/ g # f => loaded'[q][g] = loaded[q][g]
<1>1. job[r][f] = "queued" /\ UNCHANGED <<run, meta, read>>
  BY DEF StartFolder, main, refreshes
<1>2. CASE f \in broken \/ Skipped(f)
  <2>1. job'[r][f] # "running" /\ UNCHANGED <<config, loaded>>
    BY <1>2 DEF StartFolder, TypeOK
  <2> QED BY <1>1, <2>1 DEF SameWants
<1>3. CASE ~(f \in broken \/ Skipped(f))
  <2>1. PICK cursor : /\ config' = [config EXCEPT ![f].cursor = cursor]
                      /\ loaded' = [loaded EXCEPT ![r][f] = config'[f]]
    BY <1>3 DEF StartFolder
  <2>2. config[f] \in Configs /\ config'[f] = [config[f] EXCEPT !.cursor = cursor]
    BY <2>1 DEF TypeOK
  <2>3. SameWants(config[f], config'[f])
    BY <2>2, ConfigUpdates
  <2> QED BY <1>1, <2>1, <2>3 DEF TypeOK
<1> QED BY <1>2, <1>3

\* The threads of an earlier command stay with the folder until the next one.
LEMMA LingeringStays ==
    ASSUME TypeOK, NEW f \in Folders, run' = run, ~Lingering(f)',
           \A r \in Runs : r < run /\ job[r][f] # "none" => job'[r][f] # "none"
    PROVE  ~Lingering(f)
BY DEF Lingering

LEMMA FreshStep == TypeOK /\ Phased /\ Fresh /\ [Next]_vars => Fresh'
<1> SUFFICES ASSUME TypeOK, Phased, Fresh, [Next]_vars, NEW f \in Folders, ~Lingering(f)'
             PROVE  FreshRead(f)' /\ FreshLoaded(f)'
  BY DEF Fresh
<1>0. run \in Int /\ Runs \subseteq Int /\ job \in [Runs -> [Folders -> Jobs]]
      /\ meta \in [Folders -> {"none", "queued", "cached", "read", "done"}]
      /\ read \in [Folders -> Configs]
  BY DEF TypeOK, Runs
<1>1. CASE Choose
  <2>1. meta'[f] = "none"
    BY <1>1, PhaseFacts DEF Choose, refreshes
  <2>2. run' \in Runs => job'[run'][f] # "running"
    BY <1>0, <1>1 DEF Choose, Forgotten, Phased, Begun, Idle
  <2> QED BY <2>1, <2>2 DEF FreshRead, FreshLoaded
<1>2. CASE /\ UNCHANGED <<run, config, read, loaded>>
           /\ meta'[f] \in {"cached", "read"} => meta'[f] = meta[f]
           /\ \A r \in Runs : r < run => job'[r] = job[r]
           /\ run \in Runs => (job'[run][f] = "running" => job[run][f] = "running")
  <2>1. ~Lingering(f)
    BY <1>2, LingeringStays
  <2> QED BY <1>2, <2>1 DEF Fresh, FreshRead, FreshLoaded
<1>3. Scan \/ BeginRefresh \/ EndRefresh \/ Validate \/ PressQ \/ UNCHANGED vars =>
         /\ UNCHANGED <<run, config, read, loaded, job>>
         /\ meta'[f] \in {"cached", "read"} => meta'[f] = meta[f]
  BY DEF Scan, BeginRefresh, EndRefresh, Validate, PressQ, library, refreshes, downloads, vars, main
<1>4. ASSUME BeginDownload \/ EndDownload \/ LeavePool \/ FolderRaises \/ KeyboardInterrupt
      PROVE  /\ UNCHANGED <<run, config, read, loaded>>
             /\ meta'[f] \in {"cached", "read"} => meta'[f] = meta[f]
             /\ \A r \in Runs : r < run => job'[r] = job[r]
             /\ run \in Runs => (job'[run][f] = "running" => job[run][f] = "running")
  <2>1. UNCHANGED <<run, config, read, loaded>>
    BY <1>4 DEF BeginDownload, EndDownload, LeavePool, PrintReport, FolderRaises, KeyboardInterrupt,
                Leave, library, refreshes
  <2>2. meta'[f] \in {"cached", "read"} => meta'[f] = meta[f]
    BY <1>4 DEF BeginDownload, EndDownload, LeavePool, PrintReport, FolderRaises, KeyboardInterrupt,
                refreshes
  <2>3. PICK jobs : /\ job' \in {job, [job EXCEPT ![run] = jobs]}
                    /\ run \in Runs => (jobs[f] = "running" => job[run][f] = "running")
    <3>1. \/ job' \in {job, [job EXCEPT ![run] = Dropped(@)]}
          \/ job' = [job EXCEPT ![run] = [g \in Folders |-> "none"]]
          \/ job' = [job EXCEPT ![run] = [g \in Folders |-> IF g \in queue' THEN "queued" ELSE "none"]]
      BY <1>4 DEF BeginDownload, EndDownload, LeavePool, FolderRaises, KeyboardInterrupt
    <3>2. Dropped(job[run])[f] = "running" => job[run][f] = "running"
      BY DEF Dropped
    <3> QED BY <3>1, <3>2
  <2>4. run \in Runs => (job'[run][f] = "running" => job[run][f] = "running")
    BY <1>0, <2>3
  <2>5. \A r \in Runs : r < run => job'[r] = job[r]
    BY <1>0, <2>3
  <2> QED BY <2>1, <2>2, <2>4, <2>5
<1>5. ASSUME NEW g \in Folders, Collect(g)
      PROVE  UNCHANGED <<run, config, read, loaded, job, meta>>
  BY <1>5 DEF Collect, library, main, refreshes, downloads
<1>10. ASSUME NEW r \in Runs, NEW g \in Folders, DropResults(r, g)
       PROVE  UNCHANGED <<run, config, read, loaded, job, meta>>
  BY <1>10 DEF DropResults, main, refreshes
<1>6. ASSUME NEW g \in Folders, ReadConfig(g) PROVE FreshRead(f)' /\ FreshLoaded(f)'
  <2>1. UNCHANGED <<run, config, loaded, job>>
    BY <1>6 DEF ReadConfig, library, main, downloads
  <2>2. ~Lingering(f)
    BY <2>1, LingeringStays
  <2>3. FreshLoaded(f)'
    BY <2>1, <2>2 DEF Fresh, FreshLoaded
  <2>4. CASE g # f
    <3>1. meta'[f] = meta[f] /\ read'[f] = read[f]
      BY <1>0, <1>6, <2>4 DEF ReadConfig
    <3> QED BY <2>1, <2>2, <2>3, <3>1 DEF Fresh, FreshRead
  <2>5. CASE g = f
    <3>1. meta'[f] = "done" \/ read'[f] = config[f]
      BY <1>0, <1>6, <2>5 DEF ReadConfig
    <3> QED BY <2>1, <2>3, <3>1 DEF FreshRead, SameWants
  <2> QED BY <2>4, <2>5
<1>7. ASSUME NEW g \in Folders, WriteConfig(g) PROVE FreshRead(f)' /\ FreshLoaded(f)'
  <2>1. UNCHANGED <<run, loaded, job>> /\ meta' = [meta EXCEPT ![g] = "done"]
        /\ read' = [read EXCEPT ![g] = DefaultConfig(g)] /\ meta[g] # "none"
    BY <1>7 DEF WriteConfig, main, downloads
  <2>2. ~Lingering(f)
    BY <2>1, LingeringStays
  <2>3. run \in Runs => job'[run][f] # "running"
    BY <2>1 DEF Phased, RefreshedAlone, Idle
  <2>4. g # f => config'[f] = config[f]
    BY <1>7 DEF WriteConfig, TypeOK
  <2>5. FreshRead(f)'
    BY <1>0, <2>1, <2>2, <2>4 DEF Fresh, FreshRead
  <2> QED BY <2>1, <2>3, <2>5 DEF FreshLoaded
<1>8. ASSUME NEW r \in Runs, NEW g \in Folders, StartFolder(r, g) \/ DownloadItem(r, g) \/ TryItem(r, g)
      PROVE  FreshRead(f)' /\ FreshLoaded(f)'
  <2>1. /\ job[r][g] \in {"queued", "running"} /\ UNCHANGED <<run, meta, read>>
        /\ \A h \in Folders : h # g => config'[h] = config[h]
        /\ \A q \in Runs, h \in Folders : q # r \/ h # g => loaded'[q][h] = loaded[q][h]
    BY <1>8, SavedFacts, StartedFacts
  <2>2. \A q \in Runs, h \in Folders : q # r \/ h # g => job'[q][h] = job[q][h]
    BY <1>8, JobsAfter, SavedFacts
  <2>3. job'[r][g] # "none"
    BY <1>0, <1>8, SavedFacts DEF StartFolder
  <2>4. ~Lingering(f)
    BY <2>1, <2>2, <2>3, LingeringStays
  <2>5. CASE f # g
    BY <2>1, <2>2, <2>4, <2>5 DEF Fresh, FreshRead, FreshLoaded
  <2>6. CASE f = g
    <3>1. r = run /\ meta[f] = "none"
      BY <2>1, <2>4, <2>6, AtWork
    <3>2. job'[r][f] = "running" => loaded'[r][f] = config'[f]
      BY <1>8, <2>6, SavedFacts, StartedFacts
    <3> QED BY <2>1, <3>1, <3>2 DEF FreshRead, FreshLoaded, SameWants
  <2> QED BY <2>5, <2>6
<1>9. ASSUME NEW r \in Runs, NEW g \in Folders, LeaveFolder(r, g)
      PROVE  FreshRead(f)' /\ FreshLoaded(f)'
  <2>1. UNCHANGED <<run, meta, read, config>> /\ job'[r][g] \notin {"none", "running"}
    BY <1>0, <1>9 DEF LeaveFolder, library, main, refreshes
  <2>2. \A q \in Runs, h \in Folders : q # r \/ h # g =>
           job'[q][h] = job[q][h] /\ loaded'[q][h] = loaded[q][h]
    BY <1>9, JobsAfter DEF LeaveFolder, TypeOK
  <2>3. ~Lingering(f)
    BY <2>1, <2>2, LingeringStays
  <2> QED BY <2>1, <2>2, <2>3 DEF Fresh, FreshRead, FreshLoaded
<1> QED BY <1>1, <1>2, <1>3, <1>4, <1>5, <1>6, <1>7, <1>8, <1>9, <1>10 DEF Next

LEMMA FreshInit == Init => Fresh
BY CommandsAssumption DEF Init, Fresh, FreshRead, FreshLoaded, Runs

LEMMA KeptStep ==
    ASSUME TypeOK, Phased, Fresh, [Next]_vars, NEW f \in Folders, ~Lingering(f)
    PROVE  Keeps(config[f], config'[f])
<1>0. config[f] \in Configs /\ read[f] \in Configs /\ files[f] \in SUBSET Episodes
  BY DEF TypeOK
<1>1. config'[f] \in Configs
  BY TypeStep DEF TypeOK
<1>2. CASE SameWants(config[f], config'[f])
  BY <1>0, <1>1, <1>2, KeepsTransitive
<1>3. CASE config'[f] = config[f]
  BY <1>2, <1>3 DEF SameWants
<1>4. Choose \/ Scan \/ BeginRefresh \/ EndRefresh \/ Validate \/ PressQ \/ UNCHANGED vars => config' = config
  BY DEF Choose, Scan, BeginRefresh, EndRefresh, Validate, PressQ, library, vars
<1>5. BeginDownload \/ EndDownload \/ LeavePool \/ FolderRaises \/ KeyboardInterrupt => config' = config
  BY DEF BeginDownload, EndDownload, LeavePool, PrintReport, FolderRaises, KeyboardInterrupt, Leave, library
<1>6. ASSUME NEW g \in Folders, ReadConfig(g) \/ Collect(g) PROVE config' = config
  BY <1>6 DEF ReadConfig, Collect, library
<1>9. ASSUME NEW r \in Runs, NEW g \in Folders, DropResults(r, g) PROVE config' = config
  BY <1>9 DEF DropResults
<1>7. ASSUME NEW g \in Folders, WriteConfig(g) PROVE Keeps(config[f], config'[f])
  <2>1. PICK c : \/ config' = config
                 \/ c \in Refreshed(g, read[g]) /\ config' = [config EXCEPT ![g] = c]
    BY <1>7 DEF WriteConfig
  <2>2. CASE g = f /\ config' # config
    <3>1. config'[f] = c
      BY <2>1, <2>2 DEF TypeOK
    <3>2. Keeps(read[f], c)
      BY <1>0, <2>1, <2>2, RefreshedKeeps
    <3>3. SameWants(config[f], read[f])
      BY <1>7, <2>2 DEF WriteConfig, Fresh, FreshRead, SameWants
    <3> QED BY <1>0, <1>1, <3>1, <3>2, <3>3, KeepsTransitive
  <2>3. CASE g # f \/ config' = config
    BY <1>3, <2>1, <2>3 DEF TypeOK
  <2> QED BY <2>2, <2>3
<1>8. ASSUME NEW r \in Runs, NEW g \in Folders,
             StartFolder(r, g) \/ DownloadItem(r, g) \/ TryItem(r, g) \/ LeaveFolder(r, g)
      PROVE  Keeps(config[f], config'[f])
  <2>1. CASE StartFolder(r, g)
    BY <1>2, <1>3, <2>1, StartedFacts
  <2>2. CASE DownloadItem(r, g) \/ TryItem(r, g)
    <3>1. CASE g = f
      <4>1. r = run
        BY <2>2, <3>1, SavedFacts, AtWork
      <4>2. SameWants(loaded[r][f], config[f])
        BY <2>2, <3>1, <4>1, SavedFacts DEF Fresh, FreshLoaded
      <4>3. SameWants(loaded[r][f], config'[f])
        BY <2>2, <3>1, SavedFacts
      <4> QED BY <1>2, <4>2, <4>3 DEF SameWants
    <3>2. CASE g # f
      BY <1>3, <2>2, <3>2, SavedFacts
    <3> QED BY <3>1, <3>2
  <2>3. CASE LeaveFolder(r, g)
    BY <1>3, <2>3 DEF LeaveFolder, library
  <2> QED BY <1>8, <2>1, <2>2, <2>3
<1> QED BY <1>3, <1>4, <1>5, <1>6, <1>7, <1>8, <1>9 DEF Next

\* No step takes an episode off a list or lowers the number of episodes, for any
\* answers of Cinemeta and any library, but at a folder where a thread of an
\* earlier command is still at work.
THEOREM NothingUnlisted == Spec => WantedKept
<1>1. TypeOK /\ Phased /\ Fresh /\ [Next]_vars =>
         [\A f \in Folders :
             config[f].count # 0 /\ config[f].listed =>
                 \/ /\ config'[f].count >= config[f].count
                    /\ Wanted(config[f]) \subseteq Wanted(config'[f])
                 \/ Lingering(f)]_vars
  BY KeptStep DEF Keeps
<1> QED BY <1>1, TypedAndPhased, FreshInit, FreshStep, PTL DEF Spec, WantedKept

=============================================================================
