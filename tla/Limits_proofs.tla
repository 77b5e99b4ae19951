---------------------------- MODULE Limits_proofs ----------------------------
(***************************************************************************)
(* What the locks of the two limits buy, of the workers and of the         *)
(* requests to one addon: a counter and a list of stamps that are right    *)
(* although those who wait let go of the lock, or sleep with it.           *)
(***************************************************************************)
EXTENDS DynamicLimit, RateLimiter, FiniteSetTheorems, SequenceTheorems, TLAPS

----------------------------------------------------------------------------
(***************************************************************************)
(* The counter of DynamicLimit never drifts from the jobs that hold a slot, *)
(* and acquire/release implement WorkerSlots, for any number of jobs and   *)
(* any largest limit.                                                      *)
(***************************************************************************)
\* The counter alone is not inductive: that a job which saw a free slot still
\* finds it free needs the lock, at most one job between a look and its result.
LimitInv ==
    /\ DLTypeOK
    /\ ActiveIsHolders
    /\ \A j, k \in Inside : j = k

HoldersOf(p) == {j \in Jobs : p[j] = "holding"}

LEMMA HoldersCounted ==
    ASSUME NEW p \in [Jobs -> States]
    PROVE  /\ IsFiniteSet(HoldersOf(p))
           /\ Cardinality(HoldersOf(p)) \in 0 .. Cardinality(Jobs)
<1>1. HoldersOf(p) \subseteq Jobs
    BY DEF HoldersOf
<1>2. IsFiniteSet(HoldersOf(p)) /\ Cardinality(HoldersOf(p)) <= Cardinality(Jobs)
    BY <1>1, JobsAssumption, FS_Subset
<1>3. Cardinality(HoldersOf(p)) \in Nat /\ Cardinality(Jobs) \in Nat
    BY <1>2, JobsAssumption, FS_CardinalityType
<1>. QED BY <1>2, <1>3

LEMMA LimitInvInit == DLInit => LimitInv
<1> SUFFICES ASSUME DLInit PROVE LimitInv
    OBVIOUS
<1>1. Holding = {} /\ Inside = {}
    BY DEF DLInit, Holding, Inside
<1>2. active = Cardinality(Holding)
    BY <1>1, FS_EmptySet DEF DLInit
<1>3. Cardinality(Jobs) \in Nat
    BY JobsAssumption, FS_CardinalityType
<1>4. place \in [Jobs -> States] /\ active \in 0 .. Cardinality(Jobs)
    BY <1>3 DEF DLInit, States
<1>5. DLTypeOK
    BY <1>4 DEF DLInit, DLTypeOK
<1>. QED BY <1>1, <1>2, <1>5 DEF LimitInv, ActiveIsHolders

\* Steps that hand out and take back no slot.
LEMMA SameHolders ==
    ASSUME LimitInv, place' \in [Jobs -> States], active' = active,
           limit' \in 1 .. MaxLimit, shutdown' \in BOOLEAN,
           Holding' = Holding, \A j, k \in Inside' : j = k
    PROVE  LimitInv'
BY DEF LimitInv, DLTypeOK, ActiveIsHolders

LEMMA LimitInvNext == LimitInv /\ [DLNext]_dlVars => LimitInv'
<1> SUFFICES ASSUME LimitInv, [DLNext]_dlVars
             PROVE  LimitInv'
    OBVIOUS
<1> USE DEF States
<1>1. place \in [Jobs -> States] /\ active = Cardinality(Holding)
        /\ limit \in 1 .. MaxLimit /\ shutdown \in BOOLEAN
    BY DEF LimitInv, DLTypeOK, ActiveIsHolders
<1>2. IsFiniteSet(Holding) /\ Cardinality(Holding) \in Nat
    BY <1>1, HoldersCounted, FS_CardinalityType DEF Holding, HoldersOf
<1>3. ASSUME NEW j \in Jobs, CallAcquire(j) \/ Timeout(j)
      PROVE  LimitInv'
    <2>1. place' \in [Jobs -> States] /\ Holding' = Holding /\ Inside' = Inside
        BY <1>1, <1>3 DEF CallAcquire, Timeout, Holding, Inside
    <2>2. active' = active /\ limit' = limit /\ shutdown' = shutdown
        BY <1>3 DEF CallAcquire, Timeout
    <2>. QED BY <1>1, <2>1, <2>2, SameHolders DEF LimitInv
<1>4. ASSUME NEW j \in Jobs, Look(j)
      PROVE  LimitInv'
    <2>1. place' \in [Jobs -> States] /\ Holding' = Holding /\ Inside' \subseteq {j}
        BY <1>1, <1>4 DEF Look, Holding, Inside
    <2>2. active' = active /\ limit' = limit /\ shutdown' = shutdown
        BY <1>4 DEF Look
    <2>. QED BY <1>1, <2>1, <2>2, SameHolders
<1>5. ASSUME NEW j \in Jobs, Full(j)
      PROVE  LimitInv'
    <2>1. place' \in [Jobs -> States] /\ Holding' = Holding /\ Inside' \subseteq Inside
        BY <1>1, <1>5 DEF Full, Holding, Inside
    <2>2. active' = active /\ limit' = limit /\ shutdown' = shutdown
        BY <1>5 DEF Full
    <2>. QED BY <1>1, <2>1, <2>2, SameHolders DEF LimitInv
<1>6. ASSUME NEW j \in Jobs, Passed(j)
      PROVE  LimitInv'
    <2>1. place' \in [Jobs -> States] /\ Inside' \subseteq Inside
        BY <1>1, <1>6 DEF Passed, Inside
    <2>2. limit' = limit /\ shutdown' = shutdown
        BY <1>6 DEF Passed
    <2>3. CASE shutdown
        <3>1. Holding' = Holding /\ active' = active
            BY <1>1, <1>6, <2>3 DEF Passed, Holding
        <3>. QED BY <1>1, <2>1, <2>2, <3>1, SameHolders DEF LimitInv
    <2>4. CASE ~shutdown
        <3>1. Holding' = Holding \cup {j} /\ j \notin Holding /\ active' = active + 1
            BY <1>1, <1>6, <2>4 DEF Passed, Holding
        <3>2. active' = Cardinality(Holding')
            BY <1>1, <1>2, <3>1, FS_AddElement
        <3>3. active' \in 0 .. Cardinality(Jobs)
            BY <2>1, <3>2, HoldersCounted DEF Holding, HoldersOf
        <3>. QED BY <1>1, <2>1, <2>2, <3>2, <3>3
                 DEF LimitInv, DLTypeOK, ActiveIsHolders
    <2>. QED BY <2>3, <2>4
<1>7. ASSUME NEW j \in Jobs, Release(j)
      PROVE  LimitInv'
    <2>1. /\ place' \in [Jobs -> States] /\ Inside' \subseteq Inside
          /\ Holding' = Holding \ {j} /\ j \in Holding
        BY <1>1, <1>7 DEF Release, Inside, Holding, Asleep
    <2>2. limit' = limit /\ shutdown' = shutdown
        BY <1>7 DEF Release
    <2>3. Cardinality(Holding \ {j}) = Cardinality(Holding) - 1
        BY <1>2, <2>1, FS_RemoveElement
    <2>4. active' = Cardinality(Holding')
        <3>1. Cardinality(Holding \ {j}) \in Nat
            BY <1>2, FS_RemoveElement, FS_CardinalityType
        <3>2. active > 0
            BY <1>1, <1>2, <2>3, <3>1
        <3>. QED BY <1>1, <1>7, <2>1, <2>3, <3>2 DEF Release
    <2>5. active' \in 0 .. Cardinality(Jobs)
        BY <2>1, <2>4, HoldersCounted DEF Holding, HoldersOf
    <2>. QED BY <1>1, <2>1, <2>2, <2>4, <2>5
             DEF LimitInv, DLTypeOK, ActiveIsHolders
<1>8. CASE Dial
    BY <1>1, <1>8, SameHolders DEF Dial, LimitInv, Holding, Inside
<1>9. CASE RequestShutdown
    BY <1>1, <1>9, SameHolders DEF RequestShutdown, LimitInv, Holding, Inside
<1>10. CASE UNCHANGED dlVars
    BY <1>1, <1>10, SameHolders DEF dlVars, LimitInv, Holding, Inside
<1>. QED BY <1>3, <1>4, <1>5, <1>6, <1>7, <1>8, <1>9, <1>10 DEF DLNext, Acquire

\* The counter is the number of jobs between acquire() and release(): no order
\* of waits, releases, dials and interrupts leaks a slot or hands one out twice.
THEOREM CounterExact == DLSpec => []ActiveIsHolders
<1>1. LimitInv => ActiveIsHolders
    BY DEF LimitInv
<1>. QED BY <1>1, LimitInvInit, LimitInvNext, PTL DEF DLSpec

\* The counter stays between zero and the number of jobs, so the max(0, ...) of
\* release() never hides a miscount.
THEOREM LimitTypeCorrect == DLSpec => []DLTypeOK
<1>1. LimitInv => DLTypeOK
    BY DEF LimitInv
<1>. QED BY <1>1, LimitInvInit, LimitInvNext, PTL DEF DLSpec

----------------------------------------------------------------------------
\* The instance has a copy of Cardinality of its own.
LEMMA SameCardinality == \A S : Slots!Cardinality(S) = Cardinality(S)
BY DEF Slots!Cardinality, Cardinality

\* Every step of acquire() and release() is a step of WorkerSlots or invisible
\* there: admission is the moment the limit is read under the lock.
LEMMA StepImplements == LimitInv /\ [DLNext]_dlVars => [Slots!Next]_Slots!slots
<1> SUFFICES ASSUME LimitInv, [DLNext]_dlVars
             PROVE  [Slots!Next]_Slots!slots
    OBVIOUS
<1> DEFINE has == {j \in Jobs : place[j] \in {"passed", "holding"}}
           gone == {j \in Jobs : place[j] = "refused"}
<1>1. place \in [Jobs -> States] /\ active = Cardinality(Holding)
    BY DEF LimitInv, DLTypeOK, ActiveIsHolders
<1>2. ASSUME NEW j \in Jobs, CallAcquire(j) \/ Timeout(j)
      PROVE  UNCHANGED Slots!slots
    BY <1>1, <1>2 DEF CallAcquire, Timeout, Slots!slots
<1>3. ASSUME NEW j \in Jobs, Look(j)
      PROVE  Slots!Admit(j) \/ UNCHANGED Slots!slots
    <2>1. has = Holding /\ j \notin has \cup gone
        BY <1>1, <1>3 DEF Look, Inside, Holding
    <2>2. CASE active < limit
        <3>1. has' = has \cup {j} /\ gone' = gone
            BY <1>1, <1>3, <2>2 DEF Look
        <3>2. Slots!Cardinality(has) < limit
            BY <1>1, <2>1, <2>2, SameCardinality
        <3>. QED BY <1>3, <2>1, <3>1, <3>2 DEF Slots!Admit, Look
    <2>3. CASE ~(active < limit)
        BY <1>1, <1>3, <2>3 DEF Look, Slots!slots
    <2>. QED BY <2>2, <2>3
<1>4. ASSUME NEW j \in Jobs, Full(j)
      PROVE  Slots!Refuse(j) \/ UNCHANGED Slots!slots
    <2>1. CASE shutdown
        <3>1. has' = has \ {j} /\ gone' = gone \cup {j} /\ j \notin gone
            BY <1>1, <1>4, <2>1 DEF Full
        <3>. QED BY <1>4, <2>1, <3>1 DEF Full, Slots!Refuse
    <2>2. CASE ~shutdown
        BY <1>1, <1>4, <2>2 DEF Full, Slots!slots
    <2>. QED BY <2>1, <2>2
<1>5. ASSUME NEW j \in Jobs, Passed(j)
      PROVE  Slots!Refuse(j) \/ UNCHANGED Slots!slots
    <2>1. CASE shutdown
        <3>1. has' = has \ {j} /\ gone' = gone \cup {j} /\ j \notin gone
            BY <1>1, <1>5, <2>1 DEF Passed
        <3>. QED BY <1>5, <2>1, <3>1 DEF Passed, Slots!Refuse
    <2>2. CASE ~shutdown
        BY <1>1, <1>5, <2>2 DEF Passed, Slots!slots
    <2>. QED BY <2>1, <2>2
<1>6. ASSUME NEW j \in Jobs, Release(j)
      PROVE  Slots!Leave(j)
    <2>1. has' = has \ {j} /\ gone' = gone /\ j \in has
        BY <1>1, <1>6 DEF Release, Asleep
    <2>. QED BY <1>6, <2>1 DEF Release, Slots!Leave
<1>7. CASE Dial
    BY <1>7 DEF Dial, Slots!Next, Slots!Dial
<1>8. CASE RequestShutdown
    BY <1>8 DEF RequestShutdown, Slots!Next, Slots!Interrupt
<1>9. CASE UNCHANGED dlVars
    BY <1>9 DEF dlVars, Slots!slots
<1>. QED BY <1>2, <1>3, <1>4, <1>5, <1>6, <1>7, <1>8, <1>9
         DEF DLNext, Acquire, Slots!Next

\* DynamicLimit implements the slots SeasonRun's workers take: nobody enters
\* past the limit last read, and dialing down evicts nobody.
THEOREM SlotsImplemented == DLSpec => ImplementsSlots
<1>1. DLInit => Slots!Init
    BY DEF DLInit, Slots!Init
<1>2. LimitInv /\ [DLNext]_dlVars => [Slots!Next]_Slots!slots
    BY StepImplements
<1>. QED BY <1>1, <1>2, LimitInvInit, LimitInvNext, PTL
         DEF DLSpec, ImplementsSlots, Slots!Spec

----------------------------------------------------------------------------
(***************************************************************************)
(* The lock of RateLimiter, for any number of threads and any gap, ban, cap *)
(* and window: requests stay the gap apart, a banned host is not asked and, *)
(* if a ban lasts at least the gap, no window sees more requests than the   *)
(* cap.                                                                    *)
(***************************************************************************)
Exclusive == \A t, u \in Threads : pc[t] \in WithLock /\ pc[u] \in WithLock => t = u

\* What the holder of the lock found out before its sleep still holds after it:
\* no ban can come, and the sleep and the age of the last request add up.
Paced ==
    /\ \A t \in Threads : pc[t] \in Sleeping => cooldown = 0
    /\ \A t \in Threads : pc[t] = "gapSleep" => last + nap >= MinGap
    /\ \A age \in sent : age >= last

RateInv == TypeOK /\ Exclusive /\ Paced

\* What a step may send.
SendsPaced ==
    \A t \in Threads :
        Sends(t) => cooldown = 0 /\ \A age \in sent : age >= MinGap

USE DEF WithLock, Sleeping, Least, Greatest

LEMMA TrimType ==
    ASSUME NEW s \in Seq(0 .. Window)
    PROVE  Trim(s) \in Seq(0 .. Window) /\ Len(Trim(s)) \in 0 .. Len(s)
<1> DEFINE old == {i \in DOMAIN s : s[i] >= Window}
           k == Cardinality(old)
<1>1. Len(s) \in Nat /\ DOMAIN s = 1 .. Len(s)
    BY LenProperties
<1>2. IsFiniteSet(1 .. Len(s)) /\ Cardinality(1 .. Len(s)) = Len(s)
    BY <1>1, FS_Interval
<1>3. k \in Nat /\ k <= Len(s)
    BY <1>1, <1>2, FS_Subset, FS_CardinalityType
<1> HIDE DEF k
<1>4. \A i \in (1 + k) .. Len(s) : s[i] \in 0 .. Window
    <2> SUFFICES ASSUME NEW i \in (1 + k) .. Len(s) PROVE s[i] \in 0 .. Window
        OBVIOUS
    <2>1. i \in 1 .. Len(s)
        BY <1>1, <1>3
    <2>. QED BY <2>1, ElementOfSeq
<1>5. SubSeq(s, 1 + k, Len(s)) \in Seq(0 .. Window)
    BY <1>1, <1>3, <1>4, SubSeqProperties
<1>6. Len(SubSeq(s, 1 + k, Len(s))) = IF 1 + k <= Len(s) THEN Len(s) - (1 + k) + 1 ELSE 0
    BY <1>1, <1>3, <1>4, SubSeqProperties
<1>7. Trim(s) = SubSeq(s, 1 + k, Len(s))
    BY DEF Trim, DropOlder, k
<1>. QED BY <1>1, <1>3, <1>5, <1>6, <1>7

\* The holder of the lock checks the cap, then sleeps, sends or is refused.
LEMMA CheckCapStep ==
    ASSUME RateInv, NEW t \in Threads, CheckCap(t), cooldown = 0,
           \A u \in Threads \ {t} : pc[u] \notin WithLock
    PROVE  RateInv' /\ SendsPaced
<1> DEFINE recent == Trim(stamps)
<1> USE DEF RateInv, TypeOK, PacingAssumption
<1>1. /\ recent \in Seq(0 .. Window) /\ Len(recent) \in 0 .. Len(stamps)
      /\ Len(stamps) \in Nat /\ Len(stamps) <= Cap
    BY TrimType, LenProperties
<1> HIDE DEF recent
<1>2. CASE Len(recent) < Cap /\ StampAndSend(t, recent)
    <2>1. /\ stamps' = Append(recent, 0)
          /\ cooldown' = cooldown /\ nextBan' = nextBan
        BY <1>2 DEF StampAndSend
    <2>2. stamps' \in Seq(0 .. Window) /\ Len(stamps') <= Cap
        <3>1. 0 \in 0 .. Window /\ Cap \in Nat
            BY PacingAssumption
        <3>. QED BY <1>1, <1>2, <2>1, <3>1, AppendProperties
    <2>3. CASE last >= MinGap /\ Send(t)
        <3>1. /\ pc' = [pc EXCEPT ![t] = "inFlight"] /\ nap' = 0 /\ last' = 0
              /\ sent' = sent \cup {0}
            BY <2>3 DEF Send
        <3>2. TypeOK'
            BY <2>1, <2>2, <3>1, PacingAssumption
        <3>3. Exclusive'
            BY <3>1 DEF Exclusive
        <3>4. Paced'
            BY <2>1, <3>1, PacingAssumption DEF Paced
        <3>5. SendsPaced
            BY <2>3, <3>1, PacingAssumption DEF SendsPaced, Sends, Paced
        <3>. QED BY <3>2, <3>3, <3>4, <3>5
    <2>4. CASE /\ last < MinGap
               /\ pc' = [pc EXCEPT ![t] = "gapSleep"] /\ nap' = MinGap - last
               /\ last' = last /\ sent' = sent
        <3>1. TypeOK'
            BY <2>1, <2>2, <2>4, PacingAssumption
        <3>2. Exclusive'
            BY <2>4 DEF Exclusive
        <3>3. Paced'
            BY <2>1, <2>4, PacingAssumption DEF Paced
        <3>4. SendsPaced
            BY <2>4 DEF SendsPaced, Sends
        <3>. QED BY <3>1, <3>2, <3>3, <3>4
    <2>. QED BY <1>2, <2>3, <2>4, PacingAssumption DEF StampAndSend
<1>3. CASE Len(recent) >= Cap /\ WaitForWindow(t, recent)
    <2> DEFINE wait == Window - recent[1]
    <2>1. wait \in Int
        <3>1. 1 \in 1 .. Len(recent)
            BY <1>1, <1>3, PacingAssumption
        <3>. QED BY <1>1, <3>1, ElementOfSeq, PacingAssumption
    <2>2. wait >= 0
        <3>1. 1 \in 1 .. Len(recent)
            BY <1>1, <1>3, PacingAssumption
        <3>. QED BY <1>1, <3>1, ElementOfSeq, PacingAssumption
    <2>3. /\ stamps' = recent /\ cooldown' = cooldown /\ nextBan' = nextBan
          /\ last' = last /\ sent' = sent
          /\ \/ pc' = [pc EXCEPT ![t] = "idle"] /\ nap' = 0
             \/ wait <= MaxSleep /\ pc' = [pc EXCEPT ![t] = "capSleep"] /\ nap' = wait
        BY <1>3, <2>1, PacingAssumption DEF WaitForWindow
    <2> HIDE DEF wait
    <2>4. TypeOK'
        <3>1. nap' \in 0 .. Greatest(MaxSleep, MinGap)
            BY <2>1, <2>2, <2>3, PacingAssumption
        <3>2. pc' \in [Threads -> {"idle", "queued"} \cup WithLock]
            BY <2>3
        <3>3. stamps' \in Seq(0 .. Window) /\ Len(stamps') <= Cap
            BY <1>1, <2>3, PacingAssumption
        <3>. QED BY <2>3, <3>1, <3>2, <3>3
    <2>5. Exclusive'
        BY <2>3 DEF Exclusive
    <2>6. Paced'
        BY <2>3 DEF Paced
    <2>7. SendsPaced
        BY <2>3 DEF SendsPaced, Sends
    <2>. QED BY <2>4, <2>5, <2>6, <2>7
<1>4. \/ Len(recent) < Cap /\ StampAndSend(t, recent)
      \/ Len(recent) >= Cap /\ WaitForWindow(t, recent)
    BY <1>1, PacingAssumption DEF CheckCap, recent
<1>. QED BY <1>2, <1>3, <1>4

LEMMA RateInvInit == Init => RateInv
<1> SUFFICES ASSUME Init PROVE RateInv
    OBVIOUS
<1>1. stamps \in Seq(0 .. Window) /\ Len(stamps) = 0
    BY EmptySeq DEF Init
<1>2. TypeOK
    BY <1>1, PacingAssumption DEF Init, TypeOK
<1>. QED BY <1>2 DEF Init, RateInv, Exclusive, Paced

LEMMA RateInvNext == RateInv /\ [Next]_vars => RateInv' /\ (SendsPaced \/ UNCHANGED vars)
<1> SUFFICES ASSUME RateInv, [Next]_vars
             PROVE  RateInv' /\ (SendsPaced \/ UNCHANGED vars)
    OBVIOUS
<1>1. TypeOK /\ Exclusive /\ Paced
    BY DEF RateInv
<1>2. ASSUME NEW t \in Threads, Call(t)
      PROVE  RateInv' /\ SendsPaced
    BY <1>1, <1>2 DEF Call, RateInv, TypeOK, Exclusive, Paced, SendsPaced, Sends
<1>3. ASSUME NEW t \in Threads, Enter(t)
      PROVE  RateInv' /\ SendsPaced
    <2>1. CASE cooldown > 0
        BY <1>1, <1>3, <2>1
           DEF Enter, RateInv, TypeOK, Exclusive, Paced, SendsPaced, Sends
    <2>2. CASE ~(cooldown > 0)
        <3>1. cooldown = 0
            BY <1>1, <2>2, PacingAssumption DEF TypeOK
        <3>2. CheckCap(t) /\ \A u \in Threads \ {t} : pc[u] \notin WithLock
            BY <1>3, <2>2 DEF Enter, LockFree
        <3>. QED BY <3>1, <3>2, CheckCapStep
    <2>. QED BY <2>1, <2>2
<1>4. ASSUME NEW t \in Threads, CapWake(t)
      PROVE  RateInv' /\ SendsPaced
    <2>1. cooldown = 0 /\ CheckCap(t) /\ \A u \in Threads \ {t} : pc[u] \notin WithLock
        BY <1>1, <1>4 DEF CapWake, Paced, Exclusive
    <2>. QED BY <2>1, CheckCapStep
<1>5. ASSUME NEW t \in Threads, GapWake(t)
      PROVE  RateInv' /\ SendsPaced
    <2>1. last >= MinGap /\ cooldown = 0
        BY <1>1, <1>5, PacingAssumption DEF GapWake, Paced, TypeOK
    <2>2. /\ pc' = [pc EXCEPT ![t] = "inFlight"] /\ nap' = 0 /\ last' = 0
          /\ sent' = sent \cup {0} /\ cooldown' = cooldown /\ nextBan' = nextBan
          /\ stamps' = stamps
        BY <1>5 DEF GapWake, Send
    <2>3. TypeOK'
        BY <1>1, <2>2, PacingAssumption DEF TypeOK
    <2>4. Exclusive'
        BY <1>1, <1>5, <2>2 DEF Exclusive, GapWake
    <2>5. \A u \in Threads : pc'[u] \notin Sleeping
        BY <1>1, <1>5, <2>2 DEF Exclusive, GapWake, TypeOK
    <2>6. Paced'
        BY <1>1, <2>2, <2>5, PacingAssumption DEF Paced, TypeOK
    <2>7. SendsPaced
        BY <1>1, <2>1, <2>2, PacingAssumption DEF SendsPaced, Sends, Paced, TypeOK
    <2>. QED BY <2>3, <2>4, <2>6, <2>7 DEF RateInv
<1>6. ASSUME NEW t \in Threads, Respond429(t)
      PROVE  RateInv' /\ SendsPaced
    <2>1. /\ pc' = [pc EXCEPT ![t] = "idle"] /\ last' = 0
          /\ nap' = nap /\ stamps' = stamps /\ sent' = sent
          /\ nextBan' = Least(2 * nextBan, MaxCooldown) /\ cooldown' = nextBan
        BY <1>6 DEF Respond429
    <2>2. TypeOK'
        BY <1>1, <2>1, PacingAssumption DEF TypeOK
    <2>3. Exclusive'
        BY <1>1, <2>1 DEF Exclusive, TypeOK
    <2>4. \A u \in Threads : pc'[u] \notin Sleeping
        BY <1>1, <1>6, <2>1 DEF Exclusive, Respond429, TypeOK
    <2>5. Paced'
        BY <1>1, <2>1, <2>4, PacingAssumption DEF Paced, TypeOK
    <2>. QED BY <1>1, <2>1, <2>2, <2>3, <2>5 DEF RateInv, SendsPaced, Sends, TypeOK
<1>7. ASSUME NEW t \in Threads, Respond(t)
      PROVE  RateInv' /\ SendsPaced
    <2>1. /\ pc' = [pc EXCEPT ![t] = "idle"] /\ last' = last /\ cooldown' = cooldown
          /\ nap' = nap /\ stamps' = stamps /\ sent' = sent
          /\ nextBan' \in {Least(CooldownBase, MaxCooldown), nextBan}
        BY <1>7 DEF Respond
    <2>2. TypeOK'
        BY <1>1, <2>1, PacingAssumption DEF TypeOK
    <2>3. Exclusive'
        BY <1>1, <2>1 DEF Exclusive, TypeOK
    <2>4. Paced'
        BY <1>1, <2>1 DEF Paced, TypeOK
    <2>. QED BY <1>1, <2>1, <2>2, <2>3, <2>4 DEF RateInv, SendsPaced, Sends, TypeOK
<1>8. ASSUME NEW t \in Threads, IsSaturated(t)
      PROVE  RateInv' /\ SendsPaced
    <2>1. stamps' \in Seq(0 .. Window) /\ Len(stamps') <= Cap
        BY <1>1, <1>8, TrimType, LenProperties, PacingAssumption DEF IsSaturated, TypeOK
    <2>. QED BY <1>1, <1>8, <2>1
             DEF IsSaturated, RateInv, TypeOK, Exclusive, Paced, SendsPaced, Sends
<1>9. CASE Tick
    <2>1. /\ nap' = Greatest(nap - 1, 0) /\ cooldown' = Greatest(cooldown - 1, 0)
          /\ last' = Least(last + 1, MinGap) /\ pc' = pc /\ nextBan' = nextBan
          /\ sent' = {age + 1 : age \in sent} \cap 0 .. (Window - 1)
          /\ stamps' = [i \in 1 .. Len(stamps) |-> Least(stamps[i] + 1, Window)]
        BY <1>9 DEF Tick
    <2>2. stamps' \in Seq(0 .. Window) /\ Len(stamps') <= Cap
        <3>1. Len(stamps) \in Nat /\ Len(stamps) <= Cap
            BY <1>1, LenProperties DEF TypeOK
        <3>2. \A i \in 1 .. Len(stamps) : Least(stamps[i] + 1, Window) \in 0 .. Window
            BY <1>1, ElementOfSeq, PacingAssumption DEF TypeOK
        <3>3. stamps' \in [1 .. Len(stamps) -> 0 .. Window]
            BY <2>1, <3>2
        <3>4. stamps' \in Seq(0 .. Window)
            BY <3>1, <3>3, SeqDef
        <3>5. Len(stamps') = Len(stamps)
            BY <2>1, <3>1, <3>3
        <3>. QED BY <3>1, <3>4, <3>5
    <2>3. TypeOK'
        BY <1>1, <2>1, <2>2, PacingAssumption DEF TypeOK
    <2>4. \A t \in Threads : pc[t] \in Sleeping => nap > 0
        BY <1>1, <1>9, PacingAssumption DEF Tick, TypeOK
    <2>5. \A age \in sent' : age >= last'
        BY <1>1, <2>1, PacingAssumption DEF Paced, TypeOK
    <2>6. \A t \in Threads : pc[t] = "gapSleep" => last' + nap' >= MinGap
        BY <1>1, <2>1, <2>4, PacingAssumption DEF Paced, TypeOK
    <2>7. \A t \in Threads : pc[t] \in Sleeping => cooldown' = 0
        BY <1>1, <2>1 DEF Paced
    <2>. QED BY <1>1, <2>1, <2>3, <2>5, <2>6, <2>7
             DEF RateInv, Exclusive, Paced, SendsPaced, Sends
<1>10. CASE UNCHANGED vars
    BY <1>1, <1>10 DEF vars, RateInv, TypeOK, Exclusive, Paced
<1>. QED BY <1>2, <1>3, <1>4, <1>5, <1>6, <1>7, <1>8, <1>9, <1>10 DEF Next

\* The limiter's clocks and counters stay in their ranges; the holder of the
\* lock never sleeps longer than _MAX_SLEEP_ON_CAP or the gap.
THEOREM RateTypeCorrect == Spec => []TypeOK
<1>1. RateInv => TypeOK
    BY DEF RateInv
<1>2. RateInv /\ [Next]_vars => RateInv'
    BY RateInvNext
<1>. QED BY <1>1, <1>2, RateInvInit, PTL DEF Spec

\* A ban is seen by every thread: the lock is held from the check of the ban to
\* the report of the answer.
THEOREM BanRespected == Spec => CooldownRespected
<1>1. RateInv /\ [Next]_vars => RateInv'
    BY RateInvNext
<1>2. RateInv /\ [Next]_vars => [\A t \in Threads : Sends(t) => cooldown = 0]_vars
    BY RateInvNext DEF SendsPaced
<1>. QED BY <1>1, <1>2, RateInvInit, PTL DEF Spec, CooldownRespected

\* Consecutive requests are the gap apart, also after a sleep on the cap.
THEOREM GapKept == Spec => GapRespected
<1>1. RateInv /\ [Next]_vars => RateInv'
    BY RateInvNext
<1>2. RateInv /\ [Next]_vars =>
          [\A t \in Threads : Sends(t) => \A age \in sent : age >= MinGap]_vars
    BY RateInvNext DEF SendsPaced
<1>. QED BY <1>1, <1>2, RateInvInit, PTL DEF Spec, GapRespected

----------------------------------------------------------------------------
(***************************************************************************)
(* The cap.  A request is sent up to the gap after its stamp, so when the  *)
(* stamp leaves the window the request may still be in it: an orphan.  But *)
(* it was late only because another request went out exactly the gap       *)
(* before; that one was within the cap, and what followed makes up for it. *)
(*                                                                         *)
(* at[a] counts the stamps after the one of the request of age a; late are *)
(* the requests that slept for the gap.                                    *)
(***************************************************************************)
Distinct == \A a, b \in sent : a = b \/ a >= b + MinGap \/ b >= a + MinGap

Sorted(s) == \A i, j \in 1 .. Len(s) : i <= j => s[i] >= s[j]

\* The request that was stamped last is not sent yet.
Pending == IF \E t \in Threads : pc[t] = "gapSleep" THEN 1 ELSE 0

Stamp(s, q) == s[Len(s) - q]

Oldest(S, a) == \A b \in S : b <= a

\* The stamps s, p of them pending, account for the requests of the ages S.
Accounts(S, p, s, at, late) ==
    /\ at \in [S -> Nat] /\ late \in SUBSET S
    /\ \A a, b \in S : at[a] = at[b] => a = b
    /\ \A a \in S : at[a] >= p
    /\ \A a \in S \ late : at[a] < Len(s) /\ Stamp(s, at[a]) = a
    /\ \A a \in late : at[a] < Len(s) => a <= Stamp(s, at[a]) /\ Stamp(s, at[a]) <= a + MinGap
    /\ \A a \in late : at[a] >= Len(s) => a + MinGap >= Window
    /\ \A a \in late : a + MinGap \in S \/ a + MinGap >= Window
    /\ \A a \in late : Cardinality(S) = Cap /\ Oldest(S, a) =>
                           \E b \in S : a >= b + (Window - MinGap)

\* What the sleeper for the gap knows; and no response but a ban sets the time
\* of the last request.
Chained ==
    /\ last < MinGap => last \in sent \/ cooldown + last >= MinGap
    /\ \A t \in Threads : pc[t] = "gapSleep" =>
          /\ last + nap = MinGap /\ last \in sent
          /\ stamps # << >> /\ stamps[Len(stamps)] + nap <= MinGap

CapInv ==
    /\ WindowCap /\ Distinct /\ Sorted(stamps) /\ Chained
    /\ nextBan >= MinGap
    /\ \E at, late : Accounts(sent, Pending, stamps, at, late)

\* So it is with the values of the code, 2 seconds of gap and 60 of ban.
LongBans == CooldownBase >= MinGap /\ MaxCooldown >= MinGap

LEMMA SentFinite ==
    ASSUME TypeOK
    PROVE  IsFiniteSet(sent) /\ Cardinality(sent) \in Nat
<1>1. IsFiniteSet(0 .. (Window - 1))
    BY FS_Interval, PacingAssumption
<1>. QED BY <1>1, FS_Subset, FS_CardinalityType DEF TypeOK

LEMMA IntervalSize ==
    ASSUME NEW i \in Int, NEW j \in Int, j >= i - 1
    PROVE  IsFiniteSet(i .. j) /\ Cardinality(i .. j) = j - i + 1
<1>1. IsFiniteSet(i .. j) /\ Cardinality(i .. j) = IF i > j THEN 0 ELSE j - i + 1
    BY FS_Interval, Zenon
<1>. QED BY <1>1

\* The stamps that are trimmed are as old as the window.
LEMMA TrimOld ==
    ASSUME NEW s \in Seq(0 .. Window), Sorted(s)
    PROVE  \E k \in 0 .. Len(s) :
              /\ Len(Trim(s)) = Len(s) - k
              /\ \A i \in 1 .. (Len(s) - k) : Trim(s)[i] = s[k + i]
              /\ \A i \in 1 .. k : s[i] >= Window
<1> DEFINE old == {i \in DOMAIN s : s[i] >= Window}
           k == Cardinality(old)
<1>1. Len(s) \in Nat /\ DOMAIN s = 1 .. Len(s) /\ \A i \in 1 .. Len(s) : s[i] \in 0 .. Window
    BY LenProperties, ElementOfSeq
<1>2. IsFiniteSet(1 .. Len(s)) /\ Cardinality(1 .. Len(s)) = Len(s)
    BY <1>1, FS_Interval
<1>3. k \in 0 .. Len(s)
    BY <1>1, <1>2, FS_Subset, FS_CardinalityType
<1>4. \A i \in 1 .. k : s[i] >= Window
    <2> SUFFICES ASSUME NEW i \in 1 .. k, ~(s[i] >= Window) PROVE FALSE
        OBVIOUS
    <2>1. i \in 1 .. Len(s)
        BY <1>1, <1>3
    <2>2. old \subseteq 1 .. (i - 1)
        <3> SUFFICES ASSUME NEW j \in 1 .. Len(s), s[j] >= Window PROVE j < i
            BY <1>1, <2>1
        <3>. QED BY <1>1, <2>1, PacingAssumption DEF Sorted
    <2>3. IsFiniteSet(1 .. (i - 1)) /\ Cardinality(1 .. (i - 1)) = i - 1
        <3>1. 1 \in Int /\ i - 1 \in Int /\ i - 1 >= 1 - 1
            BY <1>1, <2>1
        <3>2. IsFiniteSet(1 .. (i - 1)) /\ Cardinality(1 .. (i - 1)) = (i - 1) - 1 + 1
            BY <3>1, IntervalSize, Zenon
        <3>. QED BY <3>1, <3>2
    <2>4. k <= i - 1
        BY <2>2, <2>3, FS_Subset
    <2>. QED BY <1>3, <2>1, <2>4
<1> HIDE DEF k
<1>5. \A i \in (1 + k) .. Len(s) : s[i] \in 0 .. Window
    BY <1>1, <1>3
<1>6. /\ Len(SubSeq(s, 1 + k, Len(s))) = Len(s) - k
      /\ \A i \in 1 .. (Len(s) - k) : SubSeq(s, 1 + k, Len(s))[i] = s[k + i]
    <2>1. 1 + k \in Int /\ Len(s) \in Int /\ Len(s) - (1 + k) + 1 = Len(s) - k
        BY <1>1, <1>3
    <2>2. \A m, n \in Int :
              (\A i \in m .. n : s[i] \in 0 .. Window) =>
                  /\ Len(SubSeq(s, m, n)) = IF m <= n THEN n - m + 1 ELSE 0
                  /\ \A i \in 1 .. n - m + 1 : SubSeq(s, m, n)[i] = s[m + i - 1]
        <3> SUFFICES ASSUME NEW m \in Int, NEW n \in Int,
                            \A i \in m .. n : s[i] \in 0 .. Window
                     PROVE  /\ Len(SubSeq(s, m, n)) = IF m <= n THEN n - m + 1 ELSE 0
                            /\ \A i \in 1 .. n - m + 1 : SubSeq(s, m, n)[i] = s[m + i - 1]
            OBVIOUS
        <3>. QED BY SubSeqProperties
    <2>3. \A i \in 1 .. (Len(s) - k) : SubSeq(s, 1 + k, Len(s))[i] = s[k + i]
        <3> SUFFICES ASSUME NEW i \in 1 .. (Len(s) - k)
                     PROVE  SubSeq(s, 1 + k, Len(s))[i] = s[k + i]
            OBVIOUS
        <3>1. SubSeq(s, 1 + k, Len(s))[i] = s[(1 + k) + i - 1]
            BY <1>5, <2>1, <2>2
        <3>2. (1 + k) + i - 1 = k + i
            BY <1>1, <1>3
        <3>. QED BY <3>1, <3>2
    <2>4. Len(SubSeq(s, 1 + k, Len(s))) = Len(s) - k
        <3>1. Len(SubSeq(s, 1 + k, Len(s)))
                  = IF 1 + k <= Len(s) THEN Len(s) - (1 + k) + 1 ELSE 0
            BY <1>5, <2>1, <2>2
        <3>2. CASE k = Len(s)
            <4>1. ~(1 + k <= Len(s)) /\ Len(s) - k = 0
                BY <1>1, <3>2
            <4>. QED BY <3>1, <4>1
        <3>3. CASE k < Len(s)
            <4>1. 1 + k <= Len(s)
                BY <1>1, <1>3, <3>3
            <4>2. Len(SubSeq(s, 1 + k, Len(s))) = Len(s) - (1 + k) + 1
                BY <3>1, <4>1
            <4>. QED BY <2>1, <4>2
        <3>4. k = Len(s) \/ k < Len(s)
            <4>1. Len(s) \in Nat /\ k \in Nat /\ k <= Len(s)
                BY <1>1, <1>3
            <4>. QED BY <4>1
        <3>. QED BY <3>2, <3>3, <3>4, Zenon
    <2>. QED BY <2>3, <2>4
<1>7. Trim(s) = SubSeq(s, 1 + k, Len(s))
    BY DEF Trim, DropOlder, k
<1>. QED BY <1>3, <1>4, <1>6, <1>7

\* Trimming makes orphans of late requests only.
LEMMA TrimAccounts ==
    ASSUME TypeOK, Sorted(stamps), NEW at, NEW late,
           Accounts(sent, Pending, stamps, at, late)
    PROVE  Sorted(Trim(stamps)) /\ Accounts(sent, Pending, Trim(stamps), at, late)
<1> DEFINE recent == Trim(stamps)
<1>1. PICK k \in 0 .. Len(stamps) :
              /\ Len(recent) = Len(stamps) - k
              /\ \A i \in 1 .. (Len(stamps) - k) : recent[i] = stamps[k + i]
              /\ \A i \in 1 .. k : stamps[i] >= Window
    BY TrimOld DEF TypeOK
<1>2. Len(stamps) \in Nat /\ \A i \in 1 .. Len(stamps) : stamps[i] \in 0 .. Window
    BY LenProperties, ElementOfSeq DEF TypeOK
<1> HIDE DEF recent
<1>3. Sorted(recent)
    BY <1>1, <1>2 DEF Sorted
<1>4. \A q \in Nat : q < Len(recent) => q < Len(stamps) /\ Stamp(recent, q) = Stamp(stamps, q)
    BY <1>1, <1>2 DEF Stamp
<1>5. \A q \in Nat : q >= Len(recent) /\ q < Len(stamps) => Stamp(stamps, q) >= Window
    BY <1>1, <1>2 DEF Stamp
<1>6. \A a \in sent : a \in 0 .. (Window - 1) /\ at[a] \in Nat
    BY DEF TypeOK, Accounts
<1>7. \A a \in sent \ late : at[a] < Len(recent) /\ Stamp(recent, at[a]) = a
    <2> SUFFICES ASSUME NEW a \in sent \ late
                 PROVE  at[a] < Len(recent) /\ Stamp(recent, at[a]) = a
        OBVIOUS
    <2>1. at[a] < Len(stamps) /\ Stamp(stamps, at[a]) = a /\ at[a] \in Nat /\ a < Window
        BY <1>6, PacingAssumption DEF Accounts
    <2>2. at[a] < Len(recent)
        <3> SUFFICES ASSUME at[a] >= Len(recent) PROVE FALSE
            BY <1>1, <1>2, <2>1
        <3>1. Stamp(stamps, at[a]) >= Window
            BY <1>5, <2>1
        <3>. QED BY <1>6, <2>1, <3>1, PacingAssumption
    <2>. QED BY <1>4, <2>1, <2>2
<1>8. \A a \in late : at[a] < Len(recent) =>
                          a <= Stamp(recent, at[a]) /\ Stamp(recent, at[a]) <= a + MinGap
    BY <1>4, <1>6 DEF Accounts
<1>9. \A a \in late : at[a] >= Len(recent) => a + MinGap >= Window
    <2> SUFFICES ASSUME NEW a \in late, at[a] >= Len(recent) PROVE a + MinGap >= Window
        OBVIOUS
    <2>1. a \in 0 .. (Window - 1) /\ at[a] \in Nat
        BY <1>6 DEF Accounts
    <2>2. CASE at[a] >= Len(stamps)
        BY <2>2 DEF Accounts
    <2>3. CASE at[a] < Len(stamps)
        <3>1. Stamp(stamps, at[a]) >= Window /\ Stamp(stamps, at[a]) <= a + MinGap
            BY <1>5, <2>1, <2>3 DEF Accounts
        <3>2. Stamp(stamps, at[a]) \in Int
            BY <1>2, <2>1, <2>3 DEF Stamp
        <3>. QED BY <2>1, <3>1, <3>2, PacingAssumption
    <2>. QED BY <1>2, <2>1, <2>2, <2>3
<1>. QED BY <1>3, <1>7, <1>8, <1>9 DEF Accounts, recent

\* There is at most one orphan, and when the cap is reached none that a request
\* the gap later would still find in the window.
LEMMA RoomForOne ==
    ASSUME TypeOK, WindowCap, Distinct, NEW s, Len(s) \in Nat, NEW at, NEW late,
           Accounts(sent, Pending, s, at, late), Len(s) - Pending < Cap, Len(s) >= Pending,
           \A a \in sent : a >= MinGap
    PROVE  Cardinality(sent \cup {0}) <= Cap
<1> DEFINE orphans == {a \in sent : at[a] >= Len(s)}
           rest == sent \ orphans
<1>1. IsFiniteSet(sent) /\ Cardinality(sent) \in Nat
    BY SentFinite
<1>2. /\ Pending \in {0, 1} /\ Cap \in Nat /\ Window \in Nat
      /\ MinGap \in Nat /\ MinGap >= 1 /\ MinGap < Window
    BY PacingAssumption DEF Pending
<1>3. 0 \notin sent /\ Cardinality(sent \cup {0}) = Cardinality(sent) + 1
    <2>1. 0 \notin sent
        BY <1>2
    <2>. QED BY <1>1, <2>1, FS_AddElement
<1>4. IsFiniteSet(rest) /\ Cardinality(rest) \in Nat /\ Cardinality(rest) <= Len(s) - Pending
    <2>1. IsFiniteSet(Pending .. (Len(s) - 1)) /\
          Cardinality(Pending .. (Len(s) - 1)) = Len(s) - Pending
        <3>1. Pending \in Int /\ Len(s) - 1 \in Int /\ Len(s) - 1 >= Pending - 1
            BY <1>2
        <3>2. IsFiniteSet(Pending .. (Len(s) - 1)) /\
              Cardinality(Pending .. (Len(s) - 1)) = (Len(s) - 1) - Pending + 1
            BY <3>1, IntervalSize, Zenon
        <3>. QED BY <3>1, <3>2
    <2>2. \A a \in rest : at[a] \in Pending .. (Len(s) - 1)
        BY <1>2 DEF Accounts
    <2>3. [a \in rest |-> at[a]] \in Injection(rest, Pending .. (Len(s) - 1))
        BY <2>2 DEF Injection, IsInjective, Accounts
    <2>4. IsFiniteSet(rest) /\ Cardinality(rest) <= Cardinality(Pending .. (Len(s) - 1))
        BY <2>1, <2>3, FS_Injection
    <2>. QED BY <2>1, <2>4, FS_CardinalityType
<1>5. CASE orphans = {}
    <2>1. rest = sent
        BY <1>5
    <2> HIDE DEF rest
    <2>2. Cardinality(sent) <= Len(s) - Pending
        BY <1>4, <2>1
    <2>. QED BY <1>1, <1>2, <1>3, <2>2
<1>6. CASE orphans # {}
    <2>1. PICK o \in sent : at[o] >= Len(s)
        BY <1>6
    <2>2. o \in late /\ o + MinGap >= Window
        BY <1>2, <2>1 DEF Accounts
    <2>3. \A a \in sent : a \in 0 .. (Window - 1)
        BY DEF TypeOK
    <2>4. Oldest(sent, o)
        BY <1>2, <2>2, <2>3 DEF Oldest, Distinct
    <2>5. \A a \in orphans : a = o
        <3> SUFFICES ASSUME NEW a \in orphans PROVE a = o
            OBVIOUS
        <3>1. a \in sent /\ at[a] >= Len(s)
            OBVIOUS
        <3>2. a + MinGap >= Window
            BY <1>2, <3>1 DEF Accounts
        <3>. QED BY <1>2, <2>2, <2>3, <3>1, <3>2 DEF Distinct
    <2>6. rest \cup {o} = sent
        BY <2>1, <2>5
    <2>7. Cardinality(sent) <= Cardinality(rest) + 1
        <3>1. o \notin rest
            BY <2>1
        <3>2. Cardinality(rest \cup {o}) = Cardinality(rest) + 1
            BY <1>4, <3>1, FS_AddElement, Zenon
        <3>3. Cardinality(sent) = Cardinality(rest) + 1
            BY <2>6, <3>2, Zenon
        <3>. QED BY <1>4, <3>3
    <2>8. Cardinality(sent) # Cap
        <3> SUFFICES ASSUME Cardinality(sent) = Cap PROVE FALSE
            OBVIOUS
        <3>1. PICK b \in sent : o >= b + (Window - MinGap)
            BY <2>2, <2>4 DEF Accounts
        <3>. QED BY <1>2, <2>3, <3>1
    <2>. QED BY <1>1, <1>2, <1>3, <1>4, <2>7, <2>8
<1>. QED BY <1>5, <1>6

\* A request is stamped and sent at once.
LEMMA SentNow ==
    ASSUME NEW S \in SUBSET (0 .. (Window - 1)), NEW s \in Seq(0 .. Window),
           NEW at, NEW late, Accounts(S, 0, s, at, late), \A a \in S : a >= MinGap
    PROVE  \E at2, late2 : Accounts(S \cup {0}, 0, Append(s, 0), at2, late2)
<1> DEFINE T == S \cup {0}
           r == Append(s, 0)
           at2 == [a \in T |-> IF a = 0 THEN 0 ELSE at[a] + 1]
<1> USE PacingAssumption DEF Accounts
<1>1. Len(s) \in Nat /\ Len(r) = Len(s) + 1 /\ r[Len(s) + 1] = 0
      /\ \A i \in 1 .. Len(s) : r[i] = s[i]
    BY LenProperties, AppendProperties
<1>2. \A a \in S : a \in Nat /\ a # 0 /\ at2[a] = at[a] + 1 /\ at[a] \in Nat
    OBVIOUS
<1>3. at2[0] = 0 /\ late \subseteq S /\ 0 \notin S
    OBVIOUS
<1>4. at2 \in [T -> Nat]
    BY <1>2
<1> HIDE DEF r, at2
<1>5. \A a, b \in T : at2[a] = at2[b] => a = b
    BY <1>2, <1>3
<1>6. \A a \in T : at2[a] >= 0
    BY <1>4
<1>7. \A q \in Nat : q < Len(s) => q + 1 < Len(r) /\ Stamp(r, q + 1) = Stamp(s, q)
    BY <1>1 DEF Stamp
<1>8. \A a \in T \ late : at2[a] < Len(r) /\ Stamp(r, at2[a]) = a
    <2>1. at2[0] < Len(r) /\ Stamp(r, at2[0]) = 0
        BY <1>1, <1>3 DEF Stamp
    <2>. QED BY <1>2, <1>7, <2>1
<1>9. \A a \in late : at2[a] < Len(r) => a <= Stamp(r, at2[a]) /\ Stamp(r, at2[a]) <= a + MinGap
    BY <1>1, <1>2, <1>3, <1>7
<1>10. \A a \in late : at2[a] >= Len(r) => a + MinGap >= Window
    BY <1>1, <1>2, <1>3
<1>11. \A a \in late : a + MinGap \in T \/ a + MinGap >= Window
    OBVIOUS
<1>12. \A a \in late : Oldest(T, a) => a >= 0 + (Window - MinGap)
    BY <1>2, <1>3, <1>11 DEF Oldest
<1>13. Accounts(T, 0, r, at2, late)
    BY <1>3, <1>4, <1>5, <1>6, <1>8, <1>9, <1>10, <1>11, <1>12
<1>. QED BY <1>13 DEF r

\* A request is stamped, to be sent after the gap.
LEMMA StampedOnly ==
    ASSUME NEW S \in SUBSET (0 .. (Window - 1)), NEW s \in Seq(0 .. Window),
           NEW at, NEW late, Accounts(S, 0, s, at, late)
    PROVE  \E at2, late2 : Accounts(S, 1, Append(s, 0), at2, late2)
<1> DEFINE r == Append(s, 0)
           at2 == [a \in S |-> at[a] + 1]
<1> USE PacingAssumption DEF Accounts
<1>1. Len(s) \in Nat /\ Len(r) = Len(s) + 1 /\ \A i \in 1 .. Len(s) : r[i] = s[i]
    BY LenProperties, AppendProperties
<1>2. \A a \in S : at2[a] = at[a] + 1 /\ at[a] \in Nat
    OBVIOUS
<1>3. at2 \in [S -> Nat] /\ late \subseteq S
    BY <1>2
<1> HIDE DEF r, at2
<1>4. \A a, b \in S : at2[a] = at2[b] => a = b
    BY <1>2
<1>5. \A a \in S : at2[a] >= 1
    BY <1>2
<1>6. \A q \in Nat : q < Len(s) => q + 1 < Len(r) /\ Stamp(r, q + 1) = Stamp(s, q)
    BY <1>1 DEF Stamp
<1>7. \A a \in S \ late : at2[a] < Len(r) /\ Stamp(r, at2[a]) = a
    BY <1>2, <1>6
<1>8. \A a \in late : at2[a] < Len(r) => a <= Stamp(r, at2[a]) /\ Stamp(r, at2[a]) <= a + MinGap
    <2> SUFFICES ASSUME NEW a \in late, at2[a] < Len(r)
                 PROVE  a <= Stamp(r, at2[a]) /\ Stamp(r, at2[a]) <= a + MinGap
        OBVIOUS
    <2>1. at[a] \in Nat /\ at2[a] = at[a] + 1 /\ at[a] < Len(s)
        BY <1>1, <1>2, <1>3
    <2>2. Stamp(r, at2[a]) = Stamp(s, at[a])
        BY <1>6, <2>1
    <2>. QED BY <2>1, <2>2
<1>9. \A a \in late : at2[a] >= Len(r) => a + MinGap >= Window
    BY <1>1, <1>2, <1>3
<1>10. Accounts(S, 1, r, at2, late)
    BY <1>3, <1>4, <1>5, <1>7, <1>8, <1>9
<1>. QED BY <1>10 DEF r

\* The pending request is sent: one more that was late, the gap after the last.
LEMMA SentLate ==
    ASSUME NEW S \in SUBSET (0 .. (Window - 1)), NEW s, Len(s) \in Nat,
           NEW at, NEW late, Accounts(S, 1, s, at, late), \A a \in S : a >= MinGap,
           MinGap \in S, Len(s) >= 1, s[Len(s)] \in 0 .. MinGap
    PROVE  \E at2, late2 : Accounts(S \cup {0}, 0, s, at2, late2)
<1> DEFINE T == S \cup {0}
           at2 == [a \in T |-> IF a = 0 THEN 0 ELSE at[a]]
           late2 == late \cup {0}
<1> USE PacingAssumption DEF Accounts
<1>1. \A a \in S : a \in Nat /\ a # 0 /\ at2[a] = at[a] /\ at[a] \in Nat /\ at[a] >= 1
    OBVIOUS
<1>2. at2[0] = 0 /\ late \subseteq S /\ 0 \notin S
    OBVIOUS
<1>3. at2 \in [T -> Nat] /\ late2 \in SUBSET T
    BY <1>1, <1>2
<1> HIDE DEF at2
<1>4. \A a, b \in T : at2[a] = at2[b] => a = b
    BY <1>1, <1>2
<1>5. \A a \in T : at2[a] >= 0
    BY <1>3
<1>6. \A a \in T \ late2 : at2[a] < Len(s) /\ Stamp(s, at2[a]) = a
    BY <1>1
<1>7. Stamp(s, at2[0]) = s[Len(s)] /\ at2[0] < Len(s)
    BY <1>2 DEF Stamp
<1>8. \A a \in late2 : at2[a] < Len(s) => a <= Stamp(s, at2[a]) /\ Stamp(s, at2[a]) <= a + MinGap
    <2>1. 0 <= Stamp(s, at2[0]) /\ Stamp(s, at2[0]) <= 0 + MinGap
        BY <1>7
    <2>. QED BY <1>1, <1>2, <2>1
<1>9. \A a \in late2 : at2[a] >= Len(s) => a + MinGap >= Window
    BY <1>1, <1>2, <1>7
<1>10. \A a \in late2 : a + MinGap \in T \/ a + MinGap >= Window
    OBVIOUS
<1>11. \A a \in late2 : Oldest(T, a) => a >= 0 + (Window - MinGap)
    BY <1>1, <1>2, <1>10 DEF Oldest
<1>12. Accounts(T, 0, s, at2, late2)
    BY <1>3, <1>4, <1>5, <1>6, <1>8, <1>9, <1>10, <1>11
<1>. QED BY <1>12

Older(S) == {age + 1 : age \in S} \cap 0 .. (Window - 1)

LEMMA OlderSize ==
    ASSUME NEW S \in SUBSET (0 .. (Window - 1)), IsFiniteSet(S)
    PROVE  /\ IsFiniteSet(Older(S)) /\ Cardinality(Older(S)) <= Cardinality(S)
           /\ Cardinality(S) \in Nat /\ Cardinality(Older(S)) \in Nat
           /\ Cardinality(Older(S)) = Cardinality(S) => \A a \in S : a + 1 \in Older(S)
<1> DEFINE T == Older(S)
           back == [b \in T |-> b - 1]
<1>1. \A b \in T : b - 1 \in S /\ b \in Nat
    BY PacingAssumption DEF Older
<1>2. back \in Injection(T, S)
    BY <1>1 DEF Injection, IsInjective
<1>3. IsFiniteSet(T) /\ Cardinality(T) <= Cardinality(S)
    BY <1>2, FS_Injection
<1>4. Cardinality(S) \in Nat /\ Cardinality(T) \in Nat
    BY <1>3, FS_CardinalityType
<1>5. ASSUME Cardinality(T) = Cardinality(S), NEW a \in S PROVE a + 1 \in T
    <2> SUFFICES ASSUME a + 1 \notin T PROVE FALSE
        OBVIOUS
    <2>1. back \in Injection(T, S \ {a})
        <3>1. \A b \in T : b - 1 \in S \ {a}
            BY <1>1
        <3>. QED BY <1>1, <3>1 DEF Injection, IsInjective
    <2>2. IsFiniteSet(S \ {a}) /\ Cardinality(S \ {a}) = Cardinality(S) - 1
        BY <1>5, FS_RemoveElement
    <2>3. Cardinality(T) <= Cardinality(S \ {a})
        BY <2>1, <2>2, FS_Injection
    <2>. QED BY <1>4, <1>5, <2>2, <2>3
<1>. QED BY <1>3, <1>4, <1>5

Aged(s) == [i \in 1 .. Len(s) |-> Least(s[i] + 1, Window)]

\* Time passes for the stamps as for the requests.
LEMMA AgedAccounts ==
    ASSUME NEW S \in SUBSET (0 .. (Window - 1)), IsFiniteSet(S), Cardinality(S) <= Cap,
           NEW s \in Seq(0 .. Window), NEW p, NEW at, NEW late, Accounts(S, p, s, at, late)
    PROVE  \E at2, late2 : Accounts(Older(S), p, Aged(s), at2, late2)
<1> DEFINE T == Older(S)
           r == Aged(s)
           at2 == [b \in T |-> at[b - 1]]
           late2 == {b \in T : b - 1 \in late}
<1> USE PacingAssumption DEF Accounts
<1>1. /\ Len(s) \in Nat /\ Len(r) = Len(s)
      /\ \A i \in 1 .. Len(s) : s[i] \in 0 .. Window /\ r[i] = Least(s[i] + 1, Window)
    BY LenProperties, ElementOfSeq DEF Aged
<1>2. \A b \in T : /\ b \in Nat /\ b < Window /\ b - 1 \in S /\ b - 1 \in Nat
                    /\ at2[b] = at[b - 1] /\ at[b - 1] \in Nat
    BY DEF Older
<1>3. \A a \in S : a + 1 < Window => a + 1 \in T
    BY DEF Older
<1>4. at2 \in [T -> Nat] /\ late2 \in SUBSET T
    BY <1>2
<1> HIDE DEF r, at2, T
<1>5. \A a, b \in T : at2[a] = at2[b] => a = b
    <2> SUFFICES ASSUME NEW a \in T, NEW b \in T, at2[a] = at2[b] PROVE a = b
        OBVIOUS
    <2>1. a - 1 = b - 1
        BY <1>2
    <2>. QED BY <1>2, <2>1
<1>6. \A a \in T : at2[a] >= p
    BY <1>2
<1>7. \A q \in Nat : q < Len(s) => /\ Stamp(s, q) \in 0 .. Window
                                    /\ Stamp(r, q) = Least(Stamp(s, q) + 1, Window)
    <2> SUFFICES ASSUME NEW q \in Nat, q < Len(s)
                 PROVE  /\ s[Len(s) - q] \in 0 .. Window
                        /\ r[Len(s) - q] = Least(s[Len(s) - q] + 1, Window)
        BY <1>1 DEF Stamp
    <2>1. Len(s) - q \in 1 .. Len(s)
        BY <1>1
    <2>. QED BY <1>1, <2>1
<1>8. \A b \in T \ late2 : at2[b] < Len(r) /\ Stamp(r, at2[b]) = b
    <2> SUFFICES ASSUME NEW b \in T \ late2 PROVE at2[b] < Len(r) /\ Stamp(r, at2[b]) = b
        OBVIOUS
    <2>1. at[b - 1] \in Nat /\ at[b - 1] < Len(s) /\ Stamp(s, at[b - 1]) = b - 1
        BY <1>2
    <2>. QED BY <1>1, <1>2, <1>7, <2>1
<1>9. \A b \in late2 : at2[b] < Len(r) => b <= Stamp(r, at2[b]) /\ Stamp(r, at2[b]) <= b + MinGap
    <2> SUFFICES ASSUME NEW b \in late2, at2[b] < Len(r)
                 PROVE  b <= Stamp(r, at2[b]) /\ Stamp(r, at2[b]) <= b + MinGap
        OBVIOUS
    <2>1. /\ at[b - 1] \in Nat /\ at[b - 1] < Len(s)
          /\ b - 1 <= Stamp(s, at[b - 1]) /\ Stamp(s, at[b - 1]) <= b - 1 + MinGap
        BY <1>1, <1>2
    <2>2. Stamp(s, at[b - 1]) \in 0 .. Window
          /\ Stamp(r, at2[b]) = Least(Stamp(s, at[b - 1]) + 1, Window)
        BY <1>2, <1>7, <2>1
    <2>. QED BY <1>2, <2>1, <2>2
<1>10. \A b \in late2 : at2[b] >= Len(r) => b + MinGap >= Window
    <2> SUFFICES ASSUME NEW b \in late2, at2[b] >= Len(r) PROVE b + MinGap >= Window
        OBVIOUS
    <2>1. b - 1 + MinGap >= Window
        BY <1>1, <1>2
    <2>. QED BY <1>2, <2>1
<1>11. \A b \in late2 : b + MinGap \in T \/ b + MinGap >= Window
    <2> SUFFICES ASSUME NEW b \in late2, b + MinGap < Window PROVE b + MinGap \in T
        BY <1>2
    <2>1. b - 1 + MinGap \in S
        BY <1>2
    <2>2. b - 1 + MinGap + 1 = b + MinGap
        BY <1>2
    <2>. QED BY <1>3, <2>1, <2>2
<1>12. ASSUME NEW b \in late2, Cardinality(T) = Cap, Oldest(T, b)
       PROVE  \E c \in T : b >= c + (Window - MinGap)
    <2>1. Cardinality(S) = Cap /\ \A a \in S : a + 1 \in T
        BY <1>12, OlderSize DEF T
    <2>2. Oldest(S, b - 1) /\ b - 1 \in late
        BY <1>2, <1>12, <2>1 DEF Oldest
    <2>3. PICK c \in S : b - 1 >= c + (Window - MinGap)
        BY <2>1, <2>2
    <2>4. b >= c + 1 + (Window - MinGap)
        BY <1>2, <2>3
    <2>. QED BY <2>1, <2>4
<1>13. Accounts(T, p, r, at2, late2)
    BY <1>4, <1>5, <1>6, <1>8, <1>9, <1>10, <1>11, <1>12
<1>. QED BY <1>13 DEF r, T

LEMMA SortedSteps ==
    ASSUME NEW s \in Seq(0 .. Window), Sorted(s)
    PROVE  Sorted(Append(s, 0)) /\ Sorted(Aged(s))
<1>1. /\ Len(s) \in Nat /\ \A i \in 1 .. Len(s) : s[i] \in 0 .. Window
      /\ Len(Append(s, 0)) = Len(s) + 1 /\ Append(s, 0)[Len(s) + 1] = 0
      /\ \A i \in 1 .. Len(s) : Append(s, 0)[i] = s[i]
    BY LenProperties, ElementOfSeq, AppendProperties, PacingAssumption
<1>2. \A i \in 1 .. Len(s) : Aged(s)[i] = Least(s[i] + 1, Window)
    BY DEF Aged
<1>3. Len(Aged(s)) = Len(s)
    BY <1>1 DEF Aged
<1>4. Sorted(Append(s, 0))
    <2> SUFFICES ASSUME NEW i \in 1 .. (Len(s) + 1), NEW j \in 1 .. (Len(s) + 1), i <= j
                 PROVE  Append(s, 0)[i] >= Append(s, 0)[j]
        BY <1>1 DEF Sorted
    <2>1. CASE j = Len(s) + 1
        BY <1>1, <2>1, PacingAssumption
    <2>2. CASE j # Len(s) + 1
        BY <1>1, <2>2 DEF Sorted
    <2>. QED BY <2>1, <2>2
<1>5. Sorted(Aged(s))
    <2> SUFFICES ASSUME NEW i \in 1 .. Len(s), NEW j \in 1 .. Len(s), i <= j
                 PROVE  Aged(s)[i] >= Aged(s)[j]
        BY <1>3 DEF Sorted
    <2>1. s[i] >= s[j] /\ s[i] \in 0 .. Window /\ s[j] \in 0 .. Window
        BY <1>1 DEF Sorted
    <2>. QED BY <1>2, <2>1, PacingAssumption
<1>. QED BY <1>4, <1>5

LEMMA CapInvInit == LongBans /\ Init => CapInv
<1> SUFFICES ASSUME LongBans, Init PROVE CapInv
    OBVIOUS
<1>1. sent = {} /\ stamps = << >> /\ last = MinGap /\ \A t \in Threads : pc[t] = "idle"
    BY DEF Init
<1>2. WindowCap
    BY <1>1, FS_EmptySet, PacingAssumption DEF WindowCap
<1>3. Distinct /\ Chained /\ Sorted(stamps)
    BY <1>1, PacingAssumption DEF Distinct, Chained, Sorted
<1>4. nextBan >= MinGap
    BY PacingAssumption DEF Init, LongBans
<1>5. Accounts(sent, Pending, stamps, [a \in {} |-> 0], {})
    BY <1>1 DEF Accounts
<1>. QED BY <1>2, <1>3, <1>4, <1>5 DEF CapInv

LEMMA CheckCapAccounts ==
    ASSUME RateInv, CapInv, NEW t \in Threads, CheckCap(t), cooldown = 0,
           pc[t] \notin {"gapSleep", "inFlight"}, \A u \in Threads \ {t} : pc[u] \notin WithLock
    PROVE  CapInv'
<1> DEFINE recent == Trim(stamps)
<1>1. /\ TypeOK /\ Exclusive /\ Paced
      /\ WindowCap /\ Distinct /\ Sorted(stamps) /\ Chained /\ nextBan >= MinGap
    BY DEF RateInv, CapInv
<1>2. Pending = 0
    BY DEF Pending
<1>3. PICK at, late : Accounts(sent, 0, stamps, at, late)
    BY <1>2 DEF CapInv
<1>4. Accounts(sent, 0, recent, at, late) /\ Sorted(recent)
    BY <1>1, <1>2, <1>3, TrimAccounts
<1>5. recent \in Seq(0 .. Window) /\ Len(recent) \in Nat
    BY <1>1, TrimType, LenProperties DEF TypeOK
<1>6. sent \in SUBSET (0 .. (Window - 1)) /\ pc \in [Threads -> {"idle", "queued"} \cup WithLock]
      /\ last \in 0 .. MinGap
    BY <1>1 DEF TypeOK
<1> HIDE DEF recent
<1>7. CASE Len(recent) < Cap /\ StampAndSend(t, recent)
    <2>1. stamps' = Append(recent, 0) /\ cooldown' = cooldown /\ nextBan' = nextBan
        BY <1>7 DEF StampAndSend
    <2>2. Sorted(stamps') /\ nextBan' >= MinGap
        BY <1>1, <1>4, <1>5, <2>1, SortedSteps
    <2>3. CASE last >= MinGap /\ Send(t)
        <3>1. /\ pc' = [pc EXCEPT ![t] = "inFlight"] /\ last' = 0 /\ sent' = sent \cup {0}
            BY <2>3 DEF Send
        <3>2. \A a \in sent : a >= MinGap /\ a \in Nat
            BY <1>1, <1>6, <2>3, PacingAssumption DEF Paced
        <3>3. Pending' = 0
            BY <1>6, <3>1 DEF Pending
        <3>4. WindowCap'
            <4>1. Cardinality(sent \cup {0}) <= Cap
                <5>1. Accounts(sent, Pending, recent, at, late)
                    BY <1>2, <1>4
                <5>2. Len(recent) - Pending < Cap /\ Len(recent) >= Pending
                    BY <1>2, <1>5, <1>7
                <5>. QED BY <1>1, <1>5, <3>2, <5>1, <5>2, RoomForOne
            <4>. QED BY <3>1, <4>1 DEF WindowCap
        <3>5. Distinct'
            BY <1>1, <3>1, <3>2, PacingAssumption DEF Distinct
        <3>6. Chained'
            BY <1>6, <3>1 DEF Chained
        <3>7. \E at2, late2 : Accounts(sent', Pending', stamps', at2, late2)
            BY <1>4, <1>5, <1>6, <2>1, <3>1, <3>2, <3>3, SentNow
        <3>. QED BY <2>2, <3>4, <3>5, <3>6, <3>7 DEF CapInv
    <2>4. CASE /\ last < MinGap
               /\ pc' = [pc EXCEPT ![t] = "gapSleep"] /\ nap' = MinGap - last
               /\ last' = last /\ sent' = sent
        <3>1. Pending' = 1
            BY <1>6, <2>4 DEF Pending
        <3>2. last \in sent
            BY <1>1, <1>6, <2>4, PacingAssumption DEF Chained
        <3>3. Len(stamps') = Len(recent) + 1 /\ stamps'[Len(stamps')] = 0 /\ stamps' # << >>
            <4>1. Len(stamps') = Len(recent) + 1 /\ stamps'[Len(recent) + 1] = 0
                BY <1>5, <2>1, AppendProperties, PacingAssumption
            <4>2. stamps' # << >>
                BY <1>5, <4>1, EmptySeq
            <4>. QED BY <4>1, <4>2
        <3>4. WindowCap' /\ Distinct'
            BY <1>1, <2>4 DEF WindowCap, Distinct
        <3>5. Chained'
            BY <1>6, <2>1, <2>4, <3>2, <3>3, PacingAssumption DEF Chained
        <3>6. \E at2, late2 : Accounts(sent', Pending', stamps', at2, late2)
            BY <1>4, <1>5, <1>6, <2>1, <2>4, <3>1, StampedOnly
        <3>. QED BY <2>2, <3>4, <3>5, <3>6 DEF CapInv
    <2>. QED BY <1>6, <1>7, <2>3, <2>4, PacingAssumption DEF StampAndSend
<1>8. CASE WaitForWindow(t, recent)
    <2>1. /\ stamps' = recent /\ cooldown' = cooldown /\ nextBan' = nextBan
          /\ last' = last /\ sent' = sent
          /\ \A u \in Threads : pc'[u] # "gapSleep"
        BY <1>6, <1>8 DEF WaitForWindow
    <2>2. Pending' = 0
        BY <2>1 DEF Pending
    <2>3. WindowCap' /\ Distinct' /\ Sorted(stamps') /\ nextBan' >= MinGap
        BY <1>1, <1>4, <2>1 DEF WindowCap, Distinct
    <2>4. Chained'
        BY <1>1, <2>1 DEF Chained
    <2>5. \E at2, late2 : Accounts(sent', Pending', stamps', at2, late2)
        BY <1>4, <2>1, <2>2
    <2>. QED BY <2>3, <2>4, <2>5 DEF CapInv
<1>. QED BY <1>7, <1>8 DEF CheckCap, recent

LEMMA CapInvNext == LongBans /\ RateInv /\ CapInv /\ [Next]_vars => CapInv'
<1> SUFFICES ASSUME LongBans, RateInv, CapInv, [Next]_vars PROVE CapInv'
    OBVIOUS
<1>1. /\ TypeOK /\ Exclusive /\ Paced
      /\ WindowCap /\ Distinct /\ Sorted(stamps) /\ Chained /\ nextBan >= MinGap
    BY DEF RateInv, CapInv
<1>2. PICK at, late : Accounts(sent, Pending, stamps, at, late)
    BY DEF CapInv
<1>3. /\ sent \in SUBSET (0 .. (Window - 1)) /\ stamps \in Seq(0 .. Window)
      /\ Len(stamps) \in Nat /\ Len(stamps) <= Cap
      /\ last \in 0 .. MinGap /\ nap \in Nat /\ cooldown \in Nat /\ nextBan \in Nat
      /\ pc \in [Threads -> {"idle", "queued"} \cup WithLock]
    BY <1>1, LenProperties, PacingAssumption DEF TypeOK
<1>4. ASSUME sent' = sent, stamps' = stamps, last' = last, cooldown' = cooldown,
             nextBan' >= MinGap, nap' = nap,
             \A t \in Threads : pc'[t] = "gapSleep" <=> pc[t] = "gapSleep"
      PROVE  CapInv'
    <2>1. Pending' = Pending
        BY <1>4 DEF Pending
    <2>2. Chained'
        BY <1>1, <1>4 DEF Chained
    <2>. QED BY <1>1, <1>2, <1>4, <2>1, <2>2 DEF CapInv, WindowCap, Distinct
<1>5. ASSUME NEW t \in Threads, Call(t) PROVE CapInv'
    BY <1>1, <1>3, <1>4, <1>5 DEF Call
<1>6. ASSUME NEW t \in Threads, Enter(t) PROVE CapInv'
    <2>1. CASE cooldown > 0
        BY <1>1, <1>3, <1>4, <1>6, <2>1 DEF Enter
    <2>2. CASE cooldown = 0
        BY <1>6, <2>2, CheckCapAccounts DEF Enter, LockFree
    <2>. QED BY <1>3, <2>1, <2>2
<1>7. ASSUME NEW t \in Threads, CapWake(t) PROVE CapInv'
    BY <1>1, <1>7, CheckCapAccounts DEF CapWake, Paced, Exclusive
<1>8. ASSUME NEW t \in Threads, GapWake(t) PROVE CapInv'
    <2>1. /\ pc[t] = "gapSleep" /\ nap = 0 /\ cooldown' = cooldown /\ nextBan' = nextBan
          /\ stamps' = stamps /\ last' = 0 /\ sent' = sent \cup {0}
          /\ pc' = [pc EXCEPT ![t] = "inFlight"]
        BY <1>8 DEF GapWake, Send
    <2>2. Pending = 1
        BY <2>1 DEF Pending
    <2>3. \A u \in Threads : pc'[u] # "gapSleep"
        BY <1>1, <1>3, <2>1 DEF Exclusive
    <2>4. Pending' = 0
        BY <2>3 DEF Pending
    <2>5. last = MinGap /\ MinGap \in sent /\ stamps # << >> /\ stamps[Len(stamps)] <= MinGap
        BY <1>1, <1>3, <2>1, PacingAssumption DEF Chained
    <2>6. \A a \in sent : a >= MinGap /\ a \in Nat
        BY <1>1, <1>3, <2>5 DEF Paced
    <2>7. Len(stamps) >= 1
        BY <1>3, <2>5, EmptySeq
    <2>8. stamps[Len(stamps)] \in 0 .. MinGap
        <3>1. stamps[Len(stamps)] \in 0 .. Window
            <4>1. Len(stamps) \in 1 .. Len(stamps)
                BY <1>3, <2>7
            <4>. QED BY <1>3, <4>1, ElementOfSeq
        <3>. QED BY <2>5, <3>1, PacingAssumption
    <2>9. WindowCap'
        <3>1. Cardinality(sent \cup {0}) <= Cap
            <4>1. Len(stamps) - Pending < Cap /\ Len(stamps) >= Pending
                BY <1>3, <2>2, <2>7, PacingAssumption
            <4>. QED BY <1>1, <1>2, <1>3, <2>6, <4>1, RoomForOne
        <3>. QED BY <2>1, <3>1 DEF WindowCap
    <2>10. Distinct'
        BY <1>1, <2>1, <2>6, PacingAssumption DEF Distinct
    <2>11. Chained'
        BY <2>1, <2>3 DEF Chained
    <2>12. \E at2, late2 : Accounts(sent', Pending', stamps', at2, late2)
        BY <1>2, <1>3, <2>1, <2>2, <2>4, <2>5, <2>6, <2>7, <2>8, SentLate
    <2>. QED BY <1>1, <2>1, <2>9, <2>10, <2>11, <2>12 DEF CapInv
<1>9. ASSUME NEW t \in Threads, Respond429(t) PROVE CapInv'
    <2>1. /\ pc[t] = "inFlight" /\ pc' = [pc EXCEPT ![t] = "idle"]
          /\ last' = 0 /\ stamps' = stamps /\ sent' = sent /\ cooldown' = nextBan
          /\ nextBan' = Least(2 * nextBan, MaxCooldown)
        BY <1>9 DEF Respond429
    <2>2. \A u \in Threads : pc[u] # "gapSleep" /\ pc'[u] # "gapSleep"
        BY <1>1, <1>3, <2>1 DEF Exclusive
    <2>3. Pending' = Pending
        BY <2>2 DEF Pending
    <2>4. nextBan' >= MinGap
        <3>1. nextBan <= MaxCooldown
            BY <1>1, PacingAssumption DEF TypeOK
        <3>. QED BY <1>1, <1>3, <2>1, <3>1, PacingAssumption
    <2>5. Chained'
        BY <1>1, <1>3, <2>1, <2>2 DEF Chained
    <2>. QED BY <1>1, <1>2, <2>1, <2>3, <2>4, <2>5 DEF CapInv, WindowCap, Distinct
<1>10. ASSUME NEW t \in Threads, Respond(t) PROVE CapInv'
    <2>1. nextBan' >= MinGap
        <3>1. nextBan <= MaxCooldown
            BY <1>1, PacingAssumption DEF TypeOK
        <3>. QED BY <1>10, <1>1, <3>1, PacingAssumption DEF Respond, LongBans
    <2>. QED BY <1>3, <1>4, <1>10, <2>1 DEF Respond
<1>11. ASSUME NEW t \in Threads, IsSaturated(t) PROVE CapInv'
    <2>1. /\ stamps' = Trim(stamps) /\ pc' = pc /\ nap' = nap /\ cooldown' = cooldown
          /\ nextBan' = nextBan /\ last' = last /\ sent' = sent
          /\ \A u \in Threads : pc[u] # "gapSleep"
        BY <1>11 DEF IsSaturated, LockFree
    <2>2. Pending' = Pending
        BY <2>1 DEF Pending
    <2>3. Sorted(stamps') /\ Accounts(sent', Pending', stamps', at, late)
        BY <1>1, <1>2, <2>1, <2>2, TrimAccounts
    <2>4. Chained'
        BY <1>1, <2>1 DEF Chained
    <2>. QED BY <1>1, <2>1, <2>3, <2>4 DEF CapInv, WindowCap, Distinct
<1>12. CASE Tick
    <2>1. /\ nap' = Greatest(nap - 1, 0) /\ cooldown' = Greatest(cooldown - 1, 0)
          /\ last' = Least(last + 1, MinGap) /\ pc' = pc /\ nextBan' = nextBan
          /\ sent' = Older(sent) /\ stamps' = Aged(stamps)
        BY <1>12 DEF Tick, Older, Aged
    <2>2. \A t \in Threads : pc[t] = "gapSleep" => nap > 0
        BY <1>3, <1>12 DEF Tick
    <2>3. Pending' = Pending
        BY <2>1 DEF Pending
    <2>4. IsFiniteSet(sent) /\ Cardinality(sent) \in Nat /\ Cardinality(sent) <= Cap
        BY <1>1, SentFinite DEF WindowCap
    <2>5. WindowCap'
        BY <1>3, <2>1, <2>4, OlderSize, PacingAssumption DEF WindowCap
    <2>6. Distinct'
        BY <1>1, <1>3, <2>1, PacingAssumption DEF Distinct, Older
    <2>7. Sorted(stamps')
        BY <1>1, <1>3, <2>1, SortedSteps
    <2>8. last' < MinGap => last' \in sent' \/ cooldown' + last' >= MinGap
        BY <1>1, <1>3, <2>1, PacingAssumption DEF Chained, Older
    <2>9. ASSUME NEW t \in Threads, pc[t] = "gapSleep"
          PROVE  /\ last' + nap' = MinGap /\ last' \in sent'
                 /\ stamps' # << >> /\ stamps'[Len(stamps')] + nap' <= MinGap
        <3>1. /\ last + nap = MinGap /\ last \in sent /\ nap > 0
              /\ stamps # << >> /\ stamps[Len(stamps)] + nap <= MinGap
            BY <1>1, <2>2, <2>9 DEF Chained
        <3>2. last' = last + 1 /\ nap' = nap - 1 /\ last + 1 \in Older(sent)
            BY <1>3, <2>1, <3>1, PacingAssumption DEF Older
        <3>3. Len(stamps) \in 1 .. Len(stamps)
            BY <1>3, <3>1, EmptySeq
        <3>4. stamps[Len(stamps)] \in 0 .. Window
            BY <1>3, <3>3, ElementOfSeq
        <3>5. /\ Len(stamps') = Len(stamps)
              /\ stamps'[Len(stamps)] = Least(stamps[Len(stamps)] + 1, Window)
            BY <1>3, <2>1, <3>3 DEF Aged
        <3>6. stamps' # << >>
            BY <3>3, <3>5
        <3>. QED BY <1>3, <2>1, <3>1, <3>2, <3>4, <3>5, <3>6, PacingAssumption
    <2>10. Chained'
        BY <2>1, <2>8, <2>9 DEF Chained
    <2>11. \E at2, late2 : Accounts(sent', Pending', stamps', at2, late2)
        BY <1>2, <1>3, <2>1, <2>3, <2>4, AgedAccounts
    <2>. QED BY <1>1, <2>1, <2>5, <2>6, <2>7, <2>10, <2>11 DEF CapInv
<1>13. CASE UNCHANGED vars
    BY <1>1, <1>4, <1>13 DEF vars
<1>. QED BY <1>5, <1>6, <1>7, <1>8, <1>9, <1>10, <1>11, <1>12, <1>13 DEF Next

\* "The maximum number of requests in any rolling window": if a ban lasts at least
\* the gap, the stamps taken before the sleep for the gap still bound what any
\* window sees.
THEOREM WindowNeverExceeded ==
    ASSUME LongBans
    PROVE  Spec => []WindowCap
<1>1. Init => RateInv /\ CapInv
    BY RateInvInit, CapInvInit
<1>2. RateInv /\ CapInv /\ [Next]_vars => RateInv' /\ CapInv'
    BY RateInvNext, CapInvNext
<1>3. CapInv => WindowCap
    BY DEF CapInv
<1>. QED BY <1>1, <1>2, <1>3, PTL DEF Spec

============================================================================
