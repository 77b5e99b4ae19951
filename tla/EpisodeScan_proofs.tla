-------------------------- MODULE EpisodeScan_proofs --------------------------
(***************************************************************************)
(* Lemmas about the operators of EpisodeScan, for a season of any length   *)
(* and any folder: orders, types, the fields each operator leaves alone,   *)
(* and what the scan finds.                                                *)
(***************************************************************************)
EXTENDS EpisodeScan, WellFoundedInduction, TLAPS

(***************************************************************************)
(* Every non-empty set of queued episodes has one that comes first.        *)
(***************************************************************************)
HasFirst(S, R) ==
    \A T \in SUBSET S : T # {} => \E e \in T : \A f \in T \ {e} : <<e, f>> \in R

\* The episodes in ascending order are totally ordered ...
LEMMA AscendingOrder ==
    ASSUME NEW S \in SUBSET Episodes
    PROVE  IsTotalOrder(S, Ascending(S))
BY LastEpisodeAssumption DEF IsTotalOrder, Ascending, Episodes

\* ... and every set of them has a smallest one.
LEMMA AscendingFirst ==
    ASSUME NEW S \in SUBSET Episodes
    PROVE  HasFirst(S, Ascending(S))
<1> SUFFICES ASSUME NEW T \in SUBSET S, T # {}
             PROVE  \E e \in T : \A f \in T \ {e} : <<e, f>> \in Ascending(S)
    BY DEF HasFirst
<1>1. T \subseteq Nat
    BY LastEpisodeAssumption DEF Episodes
<1>2. DEFINE Less == {p \in Nat \X Nat : p[1] < p[2]}
<1>3. IsWellFoundedOn(Less, Nat)
    BY NatLessThanWellFounded DEF OpToRel
<1>4. PICK e \in T : \A f \in T : ~ (<<f, e>> \in Less)
    <2>. HIDE DEF Less
    <2>. QED BY <1>1, <1>3, WFMin
<1>5. ASSUME NEW f \in T \ {e}
      PROVE  e < f
    <2>1. e \in Nat /\ f \in Nat
        BY <1>1
    <2>2. <<f, e>> \notin Less
        BY <1>4
    <2>3. ~ (f < e)
        BY <2>1, <2>2
    <2>. QED BY <2>1, <2>3
<1>. QED BY <1>5 DEF Ascending

\* Hoisting any episodes keeps the order total: nothing is lost or repeated.
LEMMA HoistOrder ==
    ASSUME NEW S, NEW R, IsTotalOrder(S, R), NEW H
    PROVE  IsTotalOrder(S, Hoist(S, R, H))
BY DEF IsTotalOrder, Hoist

\* Hoisting keeps a first episode in every set: the first hoisted one, if any.
LEMMA HoistFirst ==
    ASSUME NEW S, NEW R, HasFirst(S, R), NEW H
    PROVE  HasFirst(S, Hoist(S, R, H))
<1> SUFFICES ASSUME NEW T \in SUBSET S, T # {}
             PROVE  \E e \in T : \A f \in T \ {e} : <<e, f>> \in Hoist(S, R, H)
    BY DEF HasFirst
<1>1. CASE T \cap H # {}
    <2>1. PICK e \in T \cap H : \A f \in (T \cap H) \ {e} : <<e, f>> \in R
        BY <1>1 DEF HasFirst
    <2>. QED BY <2>1 DEF Hoist
<1>2. CASE T \cap H = {}
    <2>1. PICK e \in T : \A f \in T \ {e} : <<e, f>> \in R
        BY DEF HasFirst
    <2>. QED BY <2>1, <1>2 DEF Hoist
<1>. QED BY <1>1, <1>2

\* So First is an episode of the queue.
LEMMA FirstInQueue ==
    ASSUME NEW S, NEW R, HasFirst(S, R), S # {}
    PROVE  First(S, R) \in S
<1>1. \E e \in S : \A f \in S \ {e} : <<e, f>> \in R
    BY DEF HasFirst
<1>. QED BY <1>1 DEF First

----------------------------------------------------------------------------
\* The operators of EpisodeScan turn folders into folders.
LEMMA AutoResetType ==
    ASSUME NEW l \in Libraries, NEW aged
    PROVE  AutoReset(l, aged) \in Libraries
BY DEF AutoReset, Libraries

LEMMA ConvertTinyType ==
    ASSUME NEW l \in Libraries
    PROVE  ConvertTiny(l) \in Libraries
<1>1. (Candidates(l) \cap TinyUntracked(l)) \ l.part \in SUBSET Episodes
    BY DEF TinyUntracked
<1>. QED BY <1>1 DEF ConvertTiny, Libraries

LEMMA SyncInProgressType ==
    ASSUME NEW l \in Libraries
    PROVE  SyncInProgress(l) \in Libraries
BY DEF SyncInProgress, Libraries

LEMMA PruneStartedType ==
    ASSUME NEW l \in Libraries
    PROVE  PruneStarted(l) \in Libraries
BY DEF PruneStarted, Libraries

LEMMA AddDownloadType ==
    ASSUME NEW l \in Libraries, NEW done \in SUBSET Episodes
    PROVE  AddDownload(l, done) \in Libraries
BY DEF AddDownload, ClearMarkers, Libraries

LEMMA RecordExistingType ==
    ASSUME NEW l \in Libraries, NEW renamed \in SUBSET Episodes
    PROVE  RecordExisting(l, renamed) \in Libraries
<1>1. AddDownload(l, Final(l) \ l.recorded) \in Libraries
    BY AddDownloadType DEF Final
<1>. QED BY <1>1 DEF RecordExisting, ClearMarkers, Libraries

LEMMA MissingType ==
    ASSUME NEW l \in Libraries, NEW retry \in BOOLEAN, NEW n \in Nat
    PROVE  Missing(l, retry, n) \in SUBSET Episodes
<1>1. MissingHistory(l, retry) \subseteq Episodes
    BY DEF MissingHistory, Vanished, Unseen, Libraries
<1>2. MissingAhead(l, retry) \subseteq Episodes
    BY DEF MissingAhead, Vanished, Unseen, TinyUntracked, Libraries
<1>. QED BY <1>1, <1>2 DEF Missing, FirstOf

\* Which fields the operators that clear markers and prune leave alone.
LEMMA ClearMarkersFields ==
    ASSUME NEW l \in Libraries, NEW done \in SUBSET Episodes
    PROVE  LET c == ClearMarkers(l, done)
           IN /\ c \in Libraries
              /\ c.file = l.file /\ c.part = l.part /\ c.recorded = l.recorded
              /\ c.listed = l.listed /\ c.available = l.available
              /\ c.started = l.started \ done
              /\ \A e \in Episodes : c.fails[e] = IF e \in done THEN 0 ELSE l.fails[e]
<1>1. ClearMarkers(l, done) \in Libraries
    BY DEF ClearMarkers, Libraries
<1>2. DOMAIN l = {"file", "part", "recorded", "fails", "inProgress", "started",
                  "expired", "listed", "available", "cursor"}
    BY DEF Libraries
<1>. QED BY <1>1, <1>2 DEF ClearMarkers, Libraries

LEMMA AddDownloadFields ==
    ASSUME NEW l \in Libraries, NEW done \in SUBSET Episodes
    PROVE  LET c == AddDownload(l, done)
           IN /\ c \in Libraries
              /\ c.file = l.file /\ c.part = l.part
              /\ c.recorded = l.recorded \cup done
              /\ c.listed = l.listed /\ c.available = l.available
              /\ c.started = l.started \ done
              /\ \A e \in Episodes : c.fails[e] = IF e \in done THEN 0 ELSE l.fails[e]
<1> DEFINE m == ClearMarkers(l, done)
<1>1. /\ m \in Libraries
      /\ m.file = l.file /\ m.part = l.part /\ m.recorded = l.recorded
      /\ m.listed = l.listed /\ m.available = l.available
      /\ m.started = l.started \ done
      /\ \A e \in Episodes : m.fails[e] = IF e \in done THEN 0 ELSE l.fails[e]
    BY ClearMarkersFields
<1>2. AddDownload(l, done) = [m EXCEPT !.recorded = @ \cup done]
    BY DEF AddDownload
<1> HIDE DEF m
<1>. QED BY <1>1, <1>2 DEF Libraries

LEMMA RecordExistingFields ==
    ASSUME NEW l \in Libraries, NEW renamed \in SUBSET Episodes
    PROVE  LET c == RecordExisting(l, renamed)
           IN /\ c.file = l.file /\ c.part = l.part
              /\ l.recorded \subseteq c.recorded
              /\ c.listed = l.listed /\ c.available = l.available
              /\ \A e \in Episodes : l.file[e] = "none" => c.fails[e] = l.fails[e]
<1> DEFINE a == AddDownload(l, Final(l) \ l.recorded)
           other == {e \in renamed : l.file[e] = "other"}
<1>1. /\ a \in Libraries
      /\ a.file = l.file /\ a.part = l.part
      /\ a.recorded = l.recorded \cup (Final(l) \ l.recorded)
      /\ a.listed = l.listed /\ a.available = l.available
      /\ \A e \in Episodes :
            a.fails[e] = IF e \in Final(l) \ l.recorded THEN 0 ELSE l.fails[e]
    BY AddDownloadFields DEF Final
<1>2. RecordExisting(l, renamed) = ClearMarkers(a, other)
    BY DEF RecordExisting
<1>3. \A e \in Episodes : l.file[e] = "none" => e \notin Final(l) /\ e \notin other
    BY DEF Final
<1> HIDE DEF a, other
<1>4. other \in SUBSET Episodes
    BY DEF other
<1>. QED BY <1>1, <1>2, <1>3, <1>4, ClearMarkersFields

LEMMA PruneStartedFields ==
    ASSUME NEW l \in Libraries
    PROVE  LET c == PruneStarted(l)
           IN /\ c.file = l.file /\ c.part = l.part /\ c.recorded = l.recorded
              /\ c.fails = l.fails
              /\ c.listed = l.listed /\ c.available = l.available
BY DEF PruneStarted, Libraries

\* The scan of a folder misses nothing it should find.
LEMMA ScanFindsWanted ==
    ASSUME NEW l \in Libraries, NEW retry \in BOOLEAN,
           NEW e \in Unseen(ConvertTiny(l)),
           e \notin Missing(l, retry, 0),
           ~ (l.listed /\ e \notin l.available)
    PROVE  e \in Exhausted(ConvertTiny(l), retry)
<1> DEFINE moved == (Candidates(l) \cap TinyUntracked(l)) \ l.part
<1>1. e \in Episodes /\ e \notin l.recorded
    BY DEF Unseen, ConvertTiny, Libraries
<1>2. e \notin MissingHistory(l, retry) /\ e \notin MissingAhead(l, retry)
    BY DEF Missing, FirstOf
<1>3. e >= StartEpisode(l) => e \in Candidates(l)
    BY <1>1 DEF Candidates
<1>4. e \notin moved
    BY <1>1, <1>2 DEF MissingAhead
<1>5. l.file[e] = "none"
    BY <1>1, <1>4 DEF Unseen, OnDisk, ConvertTiny, Libraries
<1>6. e \in Unseen(l)
    BY <1>1, <1>5 DEF Unseen, OnDisk
<1>7. StartEpisode(l) \in Int /\ e \in Int
    BY <1>1, LastEpisodeAssumption DEF StartEpisode, Libraries, Episodes
<1>8. e < StartEpisode(l) \/ e >= StartEpisode(l)
    BY <1>7
<1>9. e \in Exhausted(l, retry)
    BY <1>1, <1>2, <1>3, <1>6, <1>8 DEF MissingHistory, MissingAhead
<1>. QED BY <1>9 DEF Exhausted, ConvertTiny, Libraries

\* An exhausted episode in the scan's result has bytes or a record.
LEMMA ScanExhausted ==
    ASSUME NEW l \in Libraries, NEW retry \in BOOLEAN, NEW n \in Nat,
           NEW e \in Missing(l, retry, n),
           e \in Exhausted(ConvertTiny(l), retry)
    PROVE  LET c == ConvertTiny(l) IN e \in c.part \cup c.recorded \cup Final(c)
<1> DEFINE c == ConvertTiny(l)
<1>1. e \in Exhausted(l, retry)
    BY DEF Exhausted, ConvertTiny, Libraries
<1>2. e \in MissingHistory(l, retry) \/ e \in MissingAhead(l, retry)
    BY DEF Missing, FirstOf
<1>3. l.part \subseteq c.part /\ c.recorded = l.recorded
    BY DEF ConvertTiny, Libraries
<1>4. CASE e \in MissingHistory(l, retry)
    BY <1>1, <1>3, <1>4 DEF MissingHistory, Vanished
<1>5. CASE e \in MissingAhead(l, retry)
    <2>1. \/ e \in l.recorded
          \/ e \in Candidates(l) \cap TinyUntracked(l)
          \/ e \in l.part
        BY <1>1, <1>5 DEF MissingAhead, Vanished
    <2>2. e \in Candidates(l) \cap TinyUntracked(l) => e \in c.part
        BY DEF ConvertTiny, Libraries
    <2>. QED BY <1>3, <2>1, <2>2
<1>. QED BY <1>2, <1>4, <1>5
============================================================================
