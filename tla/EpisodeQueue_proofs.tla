------------------------- MODULE EpisodeQueue_proofs -------------------------
(***************************************************************************)
(* Proofs about EpisodeQueue, for a season of any length, any retry budget *)
(* and any folder.                                                         *)
(***************************************************************************)
EXTENDS EpisodeQueue, EpisodeScan_proofs, TLAPS

(***************************************************************************)
(* Type correctness and the order of the queue.  The cursor's type rests   *)
(* on the queue having a first episode, so the two are one invariant.      *)
(***************************************************************************)
QueueInv ==
    /\ TypeOK
    /\ QueueIsTotalOrder
    /\ HasFirst(missing, before)

LEMMA QueueInvInit == Init => QueueInv
BY DEF Init, QueueInv, TypeOK, Libraries, Phases, QueueIsTotalOrder, IsTotalOrder,
       HasFirst

LEMMA QueueInvNext == QueueInv /\ [Next]_vars => QueueInv'
<1> SUFFICES ASSUME QueueInv, [Next]_vars
             PROVE  QueueInv'
    OBVIOUS
<1> USE DEF QueueInv
<1>1. CASE Scan
    <2>1. PICK aged \in SUBSET Episodes :
              LET seen == IF settings.retryFailed THEN lib ELSE AutoReset(lib, aged)
                  found == Missing(seen, settings.retryFailed, settings.limit)
              IN /\ lib' = ConvertTiny(seen)
                 /\ missing' = found
                 /\ before' = Ascending(found)
        BY <1>1 DEF Scan
    <2> DEFINE seen == IF settings.retryFailed THEN lib ELSE AutoReset(lib, aged)
    <2>2. seen \in Libraries
        BY AutoResetType DEF TypeOK
    <2>3. missing' \in SUBSET Episodes
        BY <2>1, <2>2, MissingType DEF TypeOK
    <2>4. before' = Ascending(missing')
        BY <2>1
    <2>5. TypeOK'
        BY <1>1, <2>1, <2>2, <2>3, <2>4, ConvertTinyType
           DEF Scan, TypeOK, Phases, Ascending
    <2>. QED BY <2>3, <2>4, <2>5, AscendingOrder, AscendingFirst
             DEF QueueIsTotalOrder
<1>2. CASE ResumeFirst
    <2>1. TypeOK'
        BY <1>2, SyncInProgressType DEF ResumeFirst, TypeOK, Phases, Hoist
    <2>. QED BY <1>2, <2>1, HoistOrder, HoistFirst
             DEF ResumeFirst, QueueIsTotalOrder
<1>3. CASE PriorityFirst
    <2> DEFINE pruned == PruneStarted(lib)
    <2>1. before' = Hoist(missing, before, pruned.started \ pruned.part)
        BY <1>3 DEF PriorityFirst, AfterPriority
    <2>2. IsTotalOrder(missing, before') /\ HasFirst(missing, before')
        BY <2>1, HoistOrder, HoistFirst DEF QueueIsTotalOrder
    <2>3. pruned \in Libraries
        BY PruneStartedType DEF TypeOK
    <2>4. missing # {} => First(missing, before') \in Episodes
        BY <2>2, FirstInQueue DEF TypeOK
    <2>5. pruned.cursor \in 1 .. (LastEpisode + 1)
        BY <2>3 DEF Libraries
    <2>6. lib' = [pruned EXCEPT !.cursor =
                     IF missing # {} THEN First(missing, before')
                     ELSE IF ~lib.listed /\ @ <= LastEpisode THEN LastEpisode + 1
                     ELSE @]
        BY <1>3 DEF PriorityFirst, PruneStarted
    <2>7. lib' \in Libraries
        BY <2>3, <2>4, <2>5, <2>6, LastEpisodeAssumption DEF Libraries, Episodes
    <2>8. TypeOK'
        BY <1>3, <2>1, <2>7 DEF PriorityFirst, TypeOK, Phases, Hoist
    <2>. QED BY <1>3, <2>2, <2>8 DEF PriorityFirst, QueueIsTotalOrder
<1>4. CASE DropExisting
    <2> DEFINE there == AlreadyThere(lib, missing)
               kept == AddDownload(lib, there \ lib.recorded)
               left == missing \ there
    <2>1. missing' = left /\ before' = before \cap (left \X left)
        BY <1>4 DEF DropExisting
    <2>2. kept \in Libraries
        BY AddDownloadType DEF TypeOK, AlreadyThere
    <2>3. lib' \in Libraries
        BY <1>4, <2>2, RecordExistingType DEF DropExisting
    <2>4. TypeOK'
        BY <1>4, <2>1, <2>3 DEF DropExisting, TypeOK, Phases
    <2>5. QueueIsTotalOrder'
        BY <2>1 DEF QueueIsTotalOrder, IsTotalOrder
    <2>6. HasFirst(missing, before)'
        <3> SUFFICES ASSUME NEW T \in SUBSET left, T # {}
                     PROVE  \E e \in T : \A f \in T \ {e} : <<e, f>> \in before'
            BY <2>1 DEF HasFirst
        <3>1. PICK e \in T : \A f \in T \ {e} : <<e, f>> \in before
            BY DEF HasFirst
        <3>. QED BY <2>1, <3>1
    <2>. QED BY <2>4, <2>5, <2>6
<1>5. CASE UNCHANGED vars
    BY <1>5 DEF vars, TypeOK, QueueIsTotalOrder
<1>. QED BY <1>1, <1>2, <1>3, <1>4, <1>5 DEF Next

\* The two partitions of setup_season_folder neither lose nor repeat an
\* episode: the queue is always a strict total order of the missing ones.
THEOREM QueueTotal == Spec => []QueueIsTotalOrder
<1>1. Init => QueueInv
    BY QueueInvInit
<1>2. QueueInv /\ [Next]_vars => QueueInv'
    BY QueueInvNext
<1>3. QueueInv => QueueIsTotalOrder
    BY DEF QueueInv
<1>. QED BY <1>1, <1>2, <1>3, PTL DEF Spec

\* Preparation keeps the folder, the settings and the queue well-typed; the
\* cursor is written from the queue's first episode, which always exists.
THEOREM TypeCorrect == Spec => []TypeOK
<1>1. Init => QueueInv
    BY QueueInvInit
<1>2. QueueInv /\ [Next]_vars => QueueInv'
    BY QueueInvNext
<1>3. QueueInv => TypeOK
    BY DEF QueueInv
<1>. QED BY <1>1, <1>2, <1>3, PTL DEF Spec

----------------------------------------------------------------------------
(***************************************************************************)
(* What is in the queue, and in which order.  `Wanted' and `PartsFirst'    *)
(* are what the properties of the finished queue need of the steps before. *)
(***************************************************************************)
Wanted ==
    settings.limit = 0 =>
        \A e \in Unseen(lib) :
            \/ e \in missing
            \/ e \in Exhausted(lib, settings.retryFailed)
            \/ lib.listed /\ e \notin lib.available

PartsFirst ==
    \A e, f \in missing : e \notin lib.part /\ f \in lib.part => <<f, e>> \in before

ContentInv ==
    /\ phase # "loaded" => Wanted
    /\ phase = "synced" => PartsFirst
    /\ PresentEpisodesNotQueued
    /\ FreshEpisodesLast
    /\ ExhaustedOnlyWithHistory

LEMMA ContentInvNext ==
    QueueInv /\ QueueInv' /\ ContentInv /\ [Next]_vars => ContentInv'
<1> SUFFICES ASSUME QueueInv, QueueInv', ContentInv, [Next]_vars
             PROVE  ContentInv'
    OBVIOUS
<1> USE DEF QueueInv
<1>1. CASE Scan
    <2>1. PICK aged \in SUBSET Episodes :
              LET seen == IF settings.retryFailed THEN lib ELSE AutoReset(lib, aged)
                  found == Missing(seen, settings.retryFailed, settings.limit)
              IN lib' = ConvertTiny(seen) /\ missing' = found
        BY <1>1 DEF Scan
    <2> DEFINE seen == IF settings.retryFailed THEN lib ELSE AutoReset(lib, aged)
    <2>2. seen \in Libraries
        BY AutoResetType DEF TypeOK
    <2>3. settings' = settings /\ settings.retryFailed \in BOOLEAN
              /\ settings.limit \in Nat /\ phase' = "scanned"
        BY <1>1 DEF Scan, TypeOK
    <2>4. lib' = ConvertTiny(seen)
              /\ missing' = Missing(seen, settings.retryFailed, settings.limit)
        BY <2>1
    <2>5. lib'.listed = seen.listed /\ lib'.available = seen.available
        BY <2>2, <2>4 DEF ConvertTiny, Libraries
    <2> HIDE DEF seen
    <2>6. Wanted'
        BY <2>2, <2>3, <2>4, <2>5, ScanFindsWanted DEF Wanted
    <2>7. ExhaustedOnlyWithHistory'
        BY <2>2, <2>3, <2>4, ScanExhausted DEF ExhaustedOnlyWithHistory
    <2>. QED BY <2>3, <2>6, <2>7
             DEF ContentInv, PresentEpisodesNotQueued, FreshEpisodesLast
<1>2. CASE ResumeFirst
    <2>1. /\ phase = "scanned" /\ phase' = "synced"
          /\ missing' = missing /\ settings' = settings
          /\ before' = Hoist(missing, before, lib.part)
          /\ lib' = [lib EXCEPT !.inProgress = lib.part]
        BY <1>2 DEF ResumeFirst, SyncInProgress
    <2>2. /\ Unseen(lib') = Unseen(lib)
          /\ Exhausted(lib', settings.retryFailed) = Exhausted(lib, settings.retryFailed)
          /\ Final(lib') = Final(lib)
          /\ lib'.listed = lib.listed /\ lib'.available = lib.available
          /\ lib'.part = lib.part /\ lib'.recorded = lib.recorded
        BY <2>1 DEF Unseen, OnDisk, Exhausted, Final, TypeOK, Libraries
    <2>3. Wanted' /\ ExhaustedOnlyWithHistory'
        BY <2>1, <2>2 DEF ContentInv, Wanted, ExhaustedOnlyWithHistory
    <2>4. PartsFirst'
        BY <2>1, <2>2 DEF PartsFirst, Hoist
    <2>. QED BY <2>1, <2>3, <2>4
             DEF ContentInv, PresentEpisodesNotQueued, FreshEpisodesLast
<1>3. CASE PriorityFirst
    <2> DEFINE pruned == PruneStarted(lib)
    <2>1. /\ phase = "synced" /\ phase' = "ordered"
          /\ missing' = missing /\ settings' = settings
          /\ before' = Hoist(missing, before, pruned.started \ pruned.part)
        BY <1>3 DEF PriorityFirst, AfterPriority
    <2>2. PICK c : lib' = [pruned EXCEPT !.cursor = c]
        BY <1>3 DEF PriorityFirst
    <2>3. /\ lib'.file = lib.file /\ lib'.recorded = lib.recorded
          /\ lib'.fails = lib.fails /\ lib'.part = lib.part
          /\ lib'.listed = lib.listed /\ lib'.available = lib.available
          /\ lib'.started = pruned.started /\ pruned.part = lib.part
        <3>1. pruned \in Libraries
            BY PruneStartedType DEF TypeOK
        <3>2. /\ lib'.file = pruned.file /\ lib'.recorded = pruned.recorded
              /\ lib'.fails = pruned.fails /\ lib'.part = pruned.part
              /\ lib'.listed = pruned.listed /\ lib'.available = pruned.available
              /\ lib'.started = pruned.started
            <4> HIDE DEF pruned
            <4>. QED BY <2>2, <3>1 DEF Libraries
        <3>. QED BY <3>2, PruneStartedFields DEF TypeOK
    <2>4. /\ Unseen(lib') = Unseen(lib)
          /\ Exhausted(lib', settings.retryFailed) = Exhausted(lib, settings.retryFailed)
          /\ Final(lib') = Final(lib)
        BY <2>3 DEF Unseen, OnDisk, Exhausted, Final
    <2>5. Wanted' /\ ExhaustedOnlyWithHistory'
        BY <2>1, <2>3, <2>4 DEF ContentInv, Wanted, ExhaustedOnlyWithHistory
    <2>6. FreshEpisodesLast'
        BY <2>1, <2>3 DEF ContentInv, FreshEpisodesLast, PartsFirst, Hoist
    <2>. QED BY <2>1, <2>5, <2>6 DEF ContentInv, PresentEpisodesNotQueued
<1>4. CASE DropExisting
    <2> DEFINE there == AlreadyThere(lib, missing)
               kept == AddDownload(lib, there \ lib.recorded)
               left == missing \ there
    <2>1. /\ phase = "ordered" /\ phase' = "scheduled"
          /\ missing' = left /\ settings' = settings
          /\ before' = before \cap (left \X left)
        BY <1>4 DEF DropExisting
    <2>2. there \ lib.recorded \in SUBSET Episodes
        BY DEF AlreadyThere, TypeOK
    <2>3. /\ kept \in Libraries
           /\ kept.file = lib.file /\ kept.part = lib.part
           /\ kept.recorded = lib.recorded \cup (there \ lib.recorded)
           /\ kept.listed = lib.listed /\ kept.available = lib.available
           /\ kept.started = lib.started \ (there \ lib.recorded)
           /\ \A e \in Episodes :
                 kept.fails[e] = IF e \in there \ lib.recorded THEN 0 ELSE lib.fails[e]
        BY <2>2, AddDownloadFields DEF TypeOK
    <2>4. left # {} => lib' = kept
        BY <1>4 DEF DropExisting
    <2>5. left = {} => \E renamed \in SUBSET Episodes : lib' = RecordExisting(kept, renamed)
        BY <1>4 DEF DropExisting
    <2>6. /\ lib'.file = lib.file /\ lib'.part = lib.part
          /\ lib'.listed = lib.listed /\ lib'.available = lib.available
          /\ lib.recorded \subseteq lib'.recorded
        <3> HIDE DEF kept, left
        <3>1. CASE left # {}
            BY <2>3, <2>4, <3>1
        <3>2. CASE left = {}
            BY <2>3, <2>5, <3>2, RecordExistingFields
        <3>. QED BY <3>1, <3>2
    <2>7. Final(lib') = Final(lib) /\ there = missing \cap Final(lib)
        BY <2>6 DEF Final, AlreadyThere
    <2>8. PresentEpisodesNotQueued'
        BY <2>1, <2>7 DEF PresentEpisodesNotQueued
    <2>9. left # {} =>
              /\ lib'.started = lib.started \ (there \ lib.recorded)
              /\ \A e \in Episodes :
                    lib'.fails[e] = IF e \in there \ lib.recorded THEN 0 ELSE lib.fails[e]
        BY <2>3, <2>4
    <2>10. FreshEpisodesLast'
        <3> SUFFICES ASSUME NEW e \in left, NEW f \in left,
                            e \notin lib'.part \cup lib'.started,
                            f \in lib'.part \cup lib'.started
                     PROVE  <<f, e>> \in before'
            BY <2>1 DEF FreshEpisodesLast
        <3>1. e \notin lib.part \cup lib.started /\ f \in lib.part \cup lib.started
            BY <2>6, <2>9
        <3>. QED BY <2>1, <3>1 DEF ContentInv, FreshEpisodesLast
    <2>11. \A e \in Unseen(lib') : lib.fails[e] = lib'.fails[e] /\ e \in Unseen(lib)
        <3>1. \A e \in Unseen(lib') : e \in Unseen(lib) /\ e \notin there
            BY <2>6, <2>7 DEF Unseen, OnDisk, Final
        <3>2. CASE left # {}
            BY <2>9, <3>1, <3>2 DEF Unseen
        <3>3. CASE left = {}
            <4>1. PICK renamed \in SUBSET Episodes : lib' = RecordExisting(kept, renamed)
                BY <1>4, <3>3 DEF DropExisting
            <4>2. kept.file = lib.file
                    /\ \A e \in Episodes : e \notin there => kept.fails[e] = lib.fails[e]
                BY <2>3
            <4>3. \A e \in Episodes : lib.file[e] = "none" => lib'.fails[e] = kept.fails[e]
                <5> HIDE DEF kept
                <5>. QED BY <2>3, <4>1, <4>2, RecordExistingFields
            <4>4. \A e \in Unseen(lib') : e \in Episodes /\ lib.file[e] = "none"
                BY <2>6 DEF Unseen, OnDisk
            <4>. QED BY <3>1, <4>2, <4>3, <4>4
        <3>. QED BY <3>2, <3>3
    <2>12. Wanted'
        <3> SUFFICES ASSUME settings.limit = 0, NEW e \in Unseen(lib'),
                            ~ (lib'.listed /\ e \notin lib'.available)
                     PROVE  e \in left \/ e \in Exhausted(lib', settings.retryFailed)
            BY <2>1 DEF Wanted
        <3>1. e \in missing \/ e \in Exhausted(lib, settings.retryFailed)
            BY <2>1, <2>6, <2>11 DEF ContentInv, Wanted
        <3>2. e \notin Final(lib)
            BY <2>11 DEF Unseen, OnDisk, Final
        <3>. QED BY <2>7, <2>11, <3>1, <3>2 DEF Exhausted
    <2>13. ExhaustedOnlyWithHistory'
        <3> SUFFICES ASSUME NEW e \in left, e \in Exhausted(lib', settings.retryFailed)
                     PROVE  e \in lib'.part \cup lib'.recorded \cup Final(lib')
            BY <2>1 DEF ExhaustedOnlyWithHistory
        <3>1. e \in Exhausted(lib, settings.retryFailed)
            BY <2>9 DEF Exhausted
        <3>. QED BY <2>1, <2>6, <2>7, <3>1 DEF ContentInv, ExhaustedOnlyWithHistory
    <2>. QED BY <2>1, <2>8, <2>10, <2>12, <2>13 DEF ContentInv
<1>5. CASE UNCHANGED vars
    BY <1>5 DEF vars, ContentInv, Wanted, PartsFirst, PresentEpisodesNotQueued,
                FreshEpisodesLast, ExhaustedOnlyWithHistory
<1>. QED BY <1>1, <1>2, <1>3, <1>4, <1>5 DEF Next

LEMMA ContentInvInit == Init => ContentInv
BY DEF Init, ContentInv, PresentEpisodesNotQueued, FreshEpisodesLast,
       ExhaustedOnlyWithHistory

THEOREM ContentCorrect == Spec => []ContentInv
<1>1. Init => QueueInv /\ ContentInv
    BY QueueInvInit, ContentInvInit
<1>2. QueueInv /\ ContentInv /\ [Next]_vars => QueueInv' /\ ContentInv'
    BY QueueInvNext, ContentInvNext
<1>. QED BY <1>1, <1>2, PTL DEF Spec

\* Whatever the state file, the cursor and the files say, an unrecorded episode
\* without a video is queued, exhausted, or not listed by the metadata.
THEOREM WantedQueued == Spec => []WantedEpisodesQueued
<1>1. ContentInv => WantedEpisodesQueued
    BY DEF ContentInv, Wanted, WantedEpisodesQueued
<1>. QED BY <1>1, ContentCorrect, PTL

\* No episode whose generated file is in the folder reaches a worker.
THEOREM PresentNotQueued == Spec => []PresentEpisodesNotQueued
<1>1. ContentInv => PresentEpisodesNotQueued
    BY DEF ContentInv
<1>. QED BY <1>1, ContentCorrect, PTL

\* Never-started episodes come after all .part files and started ones.
THEOREM FreshLast == Spec => []FreshEpisodesLast
<1>1. ContentInv => FreshEpisodesLast
    BY DEF ContentInv
<1>. QED BY <1>1, ContentCorrect, PTL

\* An exhausted episode is queued only for bytes on disk or a lost recorded file.
THEOREM ExhaustedHistory == Spec => []ExhaustedOnlyWithHistory
<1>1. ContentInv => ExhaustedOnlyWithHistory
    BY DEF ContentInv
<1>. QED BY <1>1, ContentCorrect, PTL

\* No step of the preparation loses an episode's bytes: an episode with a video
\* or a .part has one afterwards (the scan turns a short file into the .part).
THEOREM BytesNeverLost == Spec => BytesKept
<1> DEFINE Kept == \A e \in Episodes :
        (lib.file[e] # "none" \/ e \in lib.part)
            => (lib'.file[e] # "none" \/ e \in lib'.part)
<1>1. Init => QueueInv
    BY QueueInvInit
<1>2. QueueInv /\ [Next]_vars => QueueInv'
    BY QueueInvNext
<1>3. QueueInv /\ [Next]_vars => [Kept]_vars
    <2> SUFFICES ASSUME QueueInv, Next
                 PROVE  Kept
        OBVIOUS
    <2> USE DEF QueueInv
    <2>1. CASE Scan
        <3>1. PICK aged \in SUBSET Episodes :
                  lib' = ConvertTiny(IF settings.retryFailed THEN lib
                                     ELSE AutoReset(lib, aged))
            BY <2>1 DEF Scan
        <3> DEFINE seen == IF settings.retryFailed THEN lib ELSE AutoReset(lib, aged)
        <3>2. seen \in Libraries
            BY AutoResetType DEF TypeOK
        <3>3. seen.file = lib.file /\ seen.part = lib.part
            BY DEF AutoReset, TypeOK, Libraries
        <3>4. lib' = ConvertTiny(seen)
            BY <3>1
        <3> HIDE DEF seen
        <3>. QED BY <3>2, <3>3, <3>4 DEF ConvertTiny, TinyUntracked, Libraries
    <2>2. CASE ResumeFirst
        BY <2>2 DEF ResumeFirst, SyncInProgress, TypeOK, Libraries
    <2>3. CASE PriorityFirst
        <3>1. PICK c : lib' = [PruneStarted(lib) EXCEPT !.cursor = c]
            BY <2>3 DEF PriorityFirst
        <3>2. PruneStarted(lib) \in Libraries
            BY PruneStartedType DEF TypeOK
        <3>3. lib'.file = PruneStarted(lib).file /\ lib'.part = PruneStarted(lib).part
            BY <3>1, <3>2 DEF Libraries
        <3>. QED BY <3>3, PruneStartedFields DEF TypeOK
    <2>4. CASE DropExisting
        <3> DEFINE done == AlreadyThere(lib, missing) \ lib.recorded
                   kept == AddDownload(lib, done)
        <3>1. done \in SUBSET Episodes
            BY DEF AlreadyThere, TypeOK
        <3>2. kept \in Libraries /\ kept.file = lib.file /\ kept.part = lib.part
            BY <3>1, AddDownloadFields DEF TypeOK
        <3>3. \/ lib' = kept
              \/ \E renamed \in SUBSET Episodes : lib' = RecordExisting(kept, renamed)
            BY <2>4 DEF DropExisting
        <3> HIDE DEF kept
        <3>4. lib'.file = lib.file /\ lib'.part = lib.part
            BY <3>2, <3>3, RecordExistingFields
        <3>. QED BY <3>4
    <2>. QED BY <2>1, <2>2, <2>3, <2>4 DEF Next
<1>. QED BY <1>1, <1>2, <1>3, PTL DEF Spec, BytesKept
============================================================================
