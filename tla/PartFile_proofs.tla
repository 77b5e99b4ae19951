--------------------------- MODULE PartFile_proofs ---------------------------
(***************************************************************************)
(* Proofs about PartFile, for every set of releases, their sizes, and any  *)
(* number of streams and searches.                                         *)
(***************************************************************************)
EXTENDS PartFile, SequenceTheorems, TLAPS

----------------------------------------------------------------------------
\* Prefixes of sequences.
LEMMA PrefixOfItself ==
    ASSUME NEW S, NEW s \in Seq(S) PROVE IsPrefix(s, s)
BY DEF IsPrefix

LEMMA PrefixElements ==
    ASSUME NEW S, NEW s \in Seq(S), NEW t \in Seq(S)
    PROVE  IsPrefix(s, t) <=> Len(s) <= Len(t) /\ \A i \in 1..Len(s) : s[i] = t[i]
<1>1. ASSUME Len(s) <= Len(t)
      PROVE  SubSeq(s, 1, Len(s)) = SubSeq(t, 1, Len(s))
                <=> \A i \in 1..Len(s) : s[i] = t[i]
  <2>1. SubSeq(s, 1, Len(s)) = [i \in 1..Len(s) |-> s[i]]
    OBVIOUS
  <2>2. SubSeq(t, 1, Len(s)) = [i \in 1..Len(s) |-> t[i]]
    BY <1>1
  <2> QED BY <2>1, <2>2
<1> QED BY <1>1 DEF IsPrefix

LEMMA PrefixAppend ==
    ASSUME NEW S, NEW s \in Seq(S), NEW t \in Seq(S), NEW x \in S, IsPrefix(s, t)
    PROVE  IsPrefix(s, Append(t, x))
<1>1. /\ Append(t, x) \in Seq(S) /\ Len(Append(t, x)) = Len(t) + 1
      /\ \A i \in 1..Len(t) : Append(t, x)[i] = t[i]
    BY AppendProperties
<1>2. Len(s) <= Len(t) /\ \A i \in 1..Len(s) : s[i] = t[i]
    BY PrefixElements
<1>3. Len(s) \in Nat /\ Len(t) \in Nat
    BY LenProperties
<1>4. Len(s) <= Len(Append(t, x)) /\ \A i \in 1..Len(s) : s[i] = Append(t, x)[i]
    BY <1>1, <1>2, <1>3
<1> QED BY <1>1, <1>4, PrefixElements

LEMMA PrefixShorten ==
    ASSUME NEW S, NEW s \in Seq(S), NEW t \in Seq(S), IsPrefix(s, t),
           NEW n \in Len(s)..Len(t)
    PROVE  IsPrefix(s, SubSeq(t, 1, n))
<1> DEFINE u == SubSeq(t, 1, n)
<1>1. Len(s) \in Nat /\ Len(t) \in Nat
    BY LenProperties
<1>2. u \in Seq(S) /\ Len(u) = n /\ \A i \in 1..n : u[i] = t[i]
    BY <1>1
<1>3. Len(s) <= Len(t) /\ \A i \in 1..Len(s) : s[i] = t[i]
    BY PrefixElements
<1> HIDE DEF u
<1>4. Len(s) <= Len(u) /\ \A i \in 1..Len(s) : s[i] = u[i]
    BY <1>1, <1>2, <1>3
<1>5. IsPrefix(s, u)
    BY <1>2, <1>4, PrefixElements
<1> QED BY <1>5 DEF u

----------------------------------------------------------------------------
InCall == {"connecting"} \cup Direct \cup Playlist

\* A call that runs has not been counted yet, unless it is the retry of one.
Counted ==
    /\ pc = "choosing" => invalid + transient = attempted
    /\ pc \in InCall =>
          invalid + transient + (IF call.via = "debrid" THEN 0 ELSE 1) = attempted

\* What a call may be at each place, whatever stream it was made for.
CallShape ==
    /\ call.kind # "direct" => call.before = <<>>
    /\ pc \in Direct => call.kind = "direct"
    /\ pc \in Playlist => call.kind # "direct"
    /\ pc \in {"connecting"} \cup Playlist => call.body = "open"

\* The .part while a call writes it; only a known body that is whole gets to the
\* rename.
Written ==
    /\ pc = "connecting" /\ call.kind = "direct" => part = call.before
    /\ pc \in {"receiving", "received"} \cup Playlist => Continues(part)
    /\ pc \in {"receiving", "received"} => Len(part) <= Size[call.release]
    /\ pc = "received" /\ call.body = "chunked" =>
          Len(part) = Size[call.release]

\* A file that is being validated has not got past it yet.
Validating == pc = "promoted" => unchecked = FALSE

FileInv ==
    /\ TypeOK
    /\ Counted
    /\ CallShape
    /\ Written
    /\ DeliveredFile
    /\ NothingInvalidLeft
    /\ Validating

USE SizeAssumption, MinAssumption, StreamsAssumption
USE DEF Steps, Kinds, Direct, Playlist, Outcomes, InCall, files, counters, Validating,
        RemoveFinal, DeleteInvalid, Replace

LEMMA NewCall ==
    ASSUME NEW r \in Releases, NEW kind \in Kinds, NEW via \in {"addon", "debrid"},
           NEW bytes \in Seq(Releases), NEW c, c = CallTo(r, kind, via, bytes)
    PROVE  /\ c \in Calls /\ c.kind = kind /\ c.via = via /\ c.body = "open"
           /\ c.before = IF kind = "direct" THEN bytes ELSE <<>>
<1> DEFINE before == IF kind = "direct" THEN bytes ELSE <<>>
<1>1. before \in Seq(Releases)
    BY EmptySeq
<1> HIDE DEF before
<1>2. c = [release |-> r, kind |-> kind, via |-> via, before |-> before,
           body |-> "open"]
    BY DEF CallTo, before
<1>3. /\ c \in Calls /\ c.kind = kind /\ c.via = via /\ c.body = "open"
      /\ c.before = before
    BY <1>1, <1>2 DEF Calls
<1> QED BY <1>3 DEF before

\* What Failed does to the counters.
LEMMA FailedCounts ==
    ASSUME TypeOK, Counted, pc \in InCall, NEW error, Failed(error)
    PROVE  /\ invalid' \in Nat /\ transient' \in Nat
           /\ invalid' + transient' = attempted /\ invalid' + transient' + 0 = attempted
<1>1. CASE call.via = "debrid"
    <2>1. invalid' = invalid /\ transient' = transient
        BY <1>1, Zenon DEF Failed
    <2>2. invalid + transient + 0 = attempted
        BY <1>1 DEF Counted
    <2> QED BY <2>1, <2>2 DEF TypeOK
<1>2. CASE call.via # "debrid"
    <2>1. /\ invalid' = IF error = "invalid" THEN invalid + 1 ELSE invalid
          /\ transient' = IF error = "invalid" THEN transient ELSE transient + 1
        BY <1>2, Zenon DEF Failed
    <2>2. invalid + transient + 1 = attempted
        BY <1>2 DEF Counted
    <2> QED BY <2>1, <2>2 DEF TypeOK
<1> QED BY <1>1, <1>2

LEMMA EmptyFileDelivered ==
    ASSUME NEW file, file = <<>> PROVE ~(Len(file) >= MinChunks)
OBVIOUS

\* However a call fails, it is counted and the next one starts from what is there.
LEMMA FailedKeepsInv ==
    ASSUME FileInv, pc \in InCall, NEW error \in Errors,
           part' \in Seq(Releases), final' \in Seq(Releases), unchecked' \in BOOLEAN,
           final' = <<>> \/ unchecked' = TRUE, Failed(error)
    PROVE  FileInv'
<1> USE DEF FileInv
<1>1. DeliveredFile' /\ NothingInvalidLeft'
    BY EmptyFileDelivered DEF DeliveredFile, NothingInvalidLeft
<1>2. Validating'
    BY DEF Failed
<1>3. /\ invalid' \in Nat /\ transient' \in Nat /\ left' \in Nat
      /\ attempted' \in Nat /\ outcome' \in Outcomes
      /\ invalid' + transient' = attempted' /\ invalid' + transient' + 0 = attempted'
    BY FailedCounts DEF TypeOK, Failed
<1>4. CASE pc' = "choosing" /\ UNCHANGED call
    <2>1. TypeOK'
        BY <1>3, <1>4 DEF TypeOK
    <2>2. Counted'
        BY <1>3, <1>4 DEF Counted
    <2>3. CallShape' /\ Written'
        BY <1>4 DEF CallShape, Written
    <2> QED BY <1>1, <1>2, <2>1, <2>2, <2>3
<1>5. CASE pc' = "connecting"
           /\ \E r \in Releases, kind \in Kinds : call' = CallTo(r, kind, "debrid", part')
    <2>1. PICK r \in Releases, kind \in Kinds : call' = CallTo(r, kind, "debrid", part')
        BY <1>5
    <2>2. /\ call' \in Calls /\ call'.kind = kind /\ call'.via = "debrid"
          /\ call'.body = "open"
          /\ call'.before = IF kind = "direct" THEN part' ELSE <<>>
        BY <2>1, NewCall
    <2>4. TypeOK'
        BY <1>3, <1>5, <2>2 DEF TypeOK
    <2>5. Counted'
        BY <1>3, <1>5, <2>2, Zenon DEF Counted
    <2>6. CallShape' /\ Written'
        BY <1>5, <2>2 DEF CallShape, Written
    <2> QED BY <1>1, <1>2, <2>4, <2>5, <2>6
<1> QED BY <1>4, <1>5 DEF Failed

LEMMA InitInv == Init => FileInv
<1> SUFFICES ASSUME Init PROVE FileInv
    OBVIOUS
<1>1. <<>> \in Seq(Releases) /\ "direct" \in Kinds
    BY EmptySeq
<1>2. PICK r \in Releases : call = CallTo(r, "direct", "addon", <<>>)
    BY DEF Init
<1>3. call = [release |-> r, kind |-> "direct", via |-> "addon",
              before |-> <<>>, body |-> "open"]
    BY <1>2 DEF CallTo
<1>4. /\ call \in Calls /\ call.kind = "direct" /\ call.body = "open"
      /\ call.before = <<>>
    BY <1>1, <1>3 DEF Calls
<1> QED BY <1>1, <1>4, EmptyFileDelivered
        DEF Init, FileInv, TypeOK, Counted, CallShape, Written, DeliveredFile,
            NothingInvalidLeft

----------------------------------------------------------------------------
\* The steps of a search.
LEMMA SearchKeepsInv ==
    ASSUME FileInv, Begin \/ NothingToTry \/ Skip \/ TryStream \/ GiveUp
    PROVE  FileInv'
<1> USE DEF FileInv
<1>1. final' = <<>> => final' \in Seq(Releases) /\ DeliveredFile'
    BY EmptySeq, EmptyFileDelivered DEF DeliveredFile
<1>7. unchecked' => DeliveredFile'
    BY DEF DeliveredFile
<1>8. pc = "choosing" => final = <<>> \/ unchecked
    BY DEF NothingInvalidLeft
<1>2. CASE Begin
    <2>1. final' = <<>> /\ pc' = "choosing" /\ UNCHANGED <<part, call>>
        BY <1>2 DEF Begin
    <2>5. left' \in 1..MaxStreams
        BY <1>2, Zenon DEF Begin
    <2>6. left' \in Nat
        BY <2>5
    <2>2. TypeOK'
        BY <1>1, <1>2, <2>1, <2>6, Zenon DEF Begin, TypeOK
    <2>4. Counted'
        BY <1>2 DEF Begin, Counted
    <2>3. CallShape' /\ Written' /\ NothingInvalidLeft' /\ Validating'
        BY <2>1 DEF CallShape, Written, NothingInvalidLeft
    <2> QED BY <1>1, <2>1, <2>2, <2>3, <2>4
<1>3. CASE NothingToTry
    BY <1>1, <1>3 DEF NothingToTry, TypeOK, Counted, CallShape, Written, NothingInvalidLeft
<1>4. CASE Skip
    BY <1>1, <1>4, <1>7, <1>8 DEF Skip, TypeOK, Counted, CallShape, Written, NothingInvalidLeft
<1>5. CASE TryStream
    <2>1. PICK r \in Releases, kind \in Kinds : call' = CallTo(r, kind, "addon", part)
        BY <1>5 DEF TryStream
    <2>2. /\ call' \in Calls /\ call'.kind = kind /\ call'.via = "addon"
          /\ call'.body = "open"
          /\ call'.before = IF kind = "direct" THEN part ELSE <<>>
        BY <2>1, NewCall DEF TypeOK
    <2>3. (final' = <<>> \/ unchecked') /\ UNCHANGED files
        BY <1>5, <1>8 DEF TryStream
    <2>4. TypeOK'
        BY <1>5, <2>2 DEF TryStream, TypeOK
    <2>5. Counted'
        BY <1>5, <2>2 DEF TryStream, TypeOK, Counted
    <2>6. CallShape' /\ Written' /\ NothingInvalidLeft'
        BY <1>5, <2>2, <2>3 DEF TryStream, CallShape, Written, NothingInvalidLeft
    <2> QED BY <1>1, <1>5, <1>7, <2>3, <2>4, <2>5, <2>6 DEF TryStream
<1>6. CASE GiveUp
    BY <1>1, <1>6, <1>7, <1>8 DEF GiveUp, TypeOK, Counted, CallShape, Written, NothingInvalidLeft
<1> QED BY <1>2, <1>3, <1>4, <1>5, <1>6

\* The failures of a call.
LEMMA FailureKeepsInv ==
    ASSUME FileInv,
           \/ ConnectFails \/ IgnoreRange \/ RejectResponse
           \/ Stall \/ ReadTimeout \/ Disconnect \/ PromiseBroken \/ RenameFails
           \/ RejectFile \/ ValidationErrs
           \/ PlaylistFails \/ SegmentFails \/ SegmentsTooShort
    PROVE  FileInv'
<1> USE DEF ConnectFails, IgnoreRange, RejectResponse, Stall, ReadTimeout, Disconnect,
            PromiseBroken, RenameFails, RejectFile, ValidationErrs, PlaylistFails,
            SegmentFails, SegmentsTooShort
<1>1. PICK error \in Errors : Failed(error)
    BY DEF Errors
<1>2. pc \in InCall
    BY DEF Requested
<1>3. final' = <<>> \/ unchecked' = TRUE
    BY DEF FileInv, NothingInvalidLeft, Requested, TypeOK
<1>4. part' \in Seq(Releases) /\ final' \in Seq(Releases) /\ unchecked' \in BOOLEAN
    BY EmptySeq DEF FileInv, TypeOK
<1> QED BY <1>1, <1>2, <1>3, <1>4, FailedKeepsInv

\* A chunk more: the file still continues what was there.
LEMMA AppendContinues ==
    ASSUME call \in Calls, NEW file \in Seq(Releases), Continues(file)
    PROVE  Continues(Append(file, call.release))
<1> DEFINE more == Append(file, call.release)
<1>1. call.release \in Releases /\ call.before \in Seq(Releases)
    BY DEF Calls
<1>2. IsPrefix(call.before, more)
    BY <1>1, PrefixAppend DEF Continues
<1>3. /\ Len(more) = Len(file) + 1 /\ more[Len(file) + 1] = call.release
      /\ \A i \in 1..Len(file) : more[i] = file[i]
    BY <1>1, AppendProperties
<1>4. Len(call.before) \in Nat /\ Len(file) \in Nat
    BY <1>1, LenProperties
<1> HIDE DEF more
<1>5. ASSUME NEW i \in (Len(call.before) + 1)..Len(more) PROVE more[i] = call.release
    <2>1. CASE i = Len(file) + 1
        BY <1>3, <2>1
    <2>2. CASE i # Len(file) + 1
        <3>1. i \in (Len(call.before) + 1)..Len(file) /\ i \in 1..Len(file)
            BY <1>3, <1>4, <2>2
        <3> QED BY <1>3, <3>1 DEF Continues
    <2> QED BY <2>1, <2>2
<1>6. Continues(more)
    BY <1>2, <1>5 DEF Continues
<1> QED BY <1>6 DEF more

\* What a call starts with: the bytes it resumes, or nothing.
LEMMA StartContinues ==
    ASSUME call \in Calls PROVE Continues(call.before)
<1>1. call.before \in Seq(Releases) /\ Len(call.before) \in Nat
    BY LenProperties DEF Calls
<1>2. IsPrefix(call.before, call.before)
    BY <1>1, PrefixOfItself
<1>3. (Len(call.before) + 1)..Len(call.before) = {}
    BY <1>1
<1> QED BY <1>2, <1>3 DEF Continues

\* The steps on which a direct download gets ahead.
LEMMA DirectKeepsInv ==
    ASSUME FileInv, Open \/ Receive \/ BodyEnds \/ Promote \/ Accept
    PROVE  FileInv'
<1> USE DEF FileInv
<1>1. /\ call \in Calls /\ part \in Seq(Releases) /\ Len(part) \in Nat
      /\ call.release \in Releases /\ Size[call.release] \in Nat \ {0}
    BY LenProperties DEF TypeOK, Calls
<1>2. CASE Open
    <2>1. PICK body \in {"sized", "chunked", "open"} :
             call' = [call EXCEPT !.body = body]
        BY <1>2 DEF Open
    <2>2. /\ call' \in Calls /\ call'.release = call.release /\ call'.kind = call.kind
          /\ call'.via = call.via /\ call'.before = call.before
        BY <1>1, <2>1 DEF Calls
    <2>3. part = call.before /\ part' = part /\ (final' = <<>> \/ unchecked')
        BY <1>2 DEF Open, Requested, Written, NothingInvalidLeft
    <2>4. Continues(part)
        BY <1>1, <2>3, StartContinues
    <2>5. Continues(part)'
        BY <2>2, <2>3, <2>4 DEF Continues
    <2>6. TypeOK' /\ Counted' /\ NothingInvalidLeft'
        BY <1>2, <2>2, <2>3
           DEF Open, Requested, TypeOK, Counted, NothingInvalidLeft
    <2>7. CallShape'
        BY <1>2, <2>2 DEF Open, Requested, CallShape
    <2>8. Written'
        BY <1>1, <1>2, <2>2, <2>3, <2>5 DEF Open, Requested, Written
    <2>9. DeliveredFile'
        BY <2>3, EmptyFileDelivered DEF DeliveredFile
    <2> QED BY <1>2, <2>6, <2>7, <2>8, <2>9 DEF Open
<1>3. CASE Receive
    <2>1. Continues(part)
        BY <1>3 DEF Receive, Written
    <2>2. Continues(part')
        BY <1>1, <1>3, <2>1, AppendContinues DEF Receive
    <2>3. part' \in Seq(Releases) /\ Len(part') = Len(part) + 1
        BY <1>1, <1>3, AppendProperties DEF Receive
    <2>4. TypeOK' /\ Counted' /\ CallShape' /\ NothingInvalidLeft' /\ DeliveredFile'
        BY <1>3, <2>3
           DEF Receive, TypeOK, Counted, CallShape, NothingInvalidLeft,
               DeliveredFile, Continues
    <2>5. Written'
        BY <1>1, <1>3, <2>2, <2>3 DEF Receive, Written, Continues
    <2> QED BY <1>3, <2>4, <2>5 DEF Receive
<1>4. CASE BodyEnds
    BY <1>4 DEF BodyEnds, TypeOK, Counted, CallShape, Written, NothingInvalidLeft,
                DeliveredFile, Continues
<1>5. CASE Promote
    <2>1. /\ Continues(part) /\ Len(part) <= Size[call.release]
          /\ call.body = "chunked" => Len(part) = Size[call.release]
        BY <1>5 DEF Promote, Written
    <2>2. call.body # "open" => Len(part) = Size[call.release]
        BY <1>1, <1>5, <2>1 DEF Promote, Short, Calls
    <2>3. DeliveredFile'
        BY <1>5, <2>1, <2>2 DEF Promote, DeliveredFile, Continues
    <2>4. TypeOK' /\ Counted' /\ CallShape' /\ Written' /\ NothingInvalidLeft'
        BY <1>5, EmptySeq DEF Promote, TypeOK, Counted, CallShape, Written,
                              NothingInvalidLeft
    <2> QED BY <1>5, <2>3, <2>4 DEF Promote
<1>6. CASE Accept
    BY <1>6 DEF Accept, TypeOK, Counted, CallShape, Written, NothingInvalidLeft,
                DeliveredFile, Continues
<1> QED BY <1>2, <1>3, <1>4, <1>5, <1>6

\* The steps on which a playlist's download gets ahead.
LEMMA PlaylistKeepsInv ==
    ASSUME FileInv, StartFfmpeg \/ FfmpegFails \/ PlaylistEnds \/ StartSegments
    PROVE  FileInv'
<1> USE DEF FileInv
<1>1. call \in Calls /\ part \in Seq(Releases)
    BY DEF TypeOK
<1>2. CASE StartFfmpeg \/ StartSegments
    <2>1. /\ pc = "connecting" /\ call.kind # "direct" /\ pc' \in Playlist
          /\ part' = <<>> /\ UNCHANGED <<final, unchecked, call, counters, outcome>>
        BY <1>2 DEF StartFfmpeg, StartSegments
    <2>2. call.before = <<>> /\ (final = <<>> \/ unchecked)
        BY <2>1 DEF CallShape, NothingInvalidLeft
    <2>3. Continues(part)'
        BY <1>1, <2>1, <2>2, StartContinues DEF Continues
    <2>4. TypeOK' /\ Counted' /\ CallShape' /\ NothingInvalidLeft'
        BY <2>1, <2>2, EmptySeq DEF TypeOK, Counted, CallShape, NothingInvalidLeft
    <2>5. Written'
        BY <2>1, <2>3 DEF Written
    <2>6. DeliveredFile'
        BY <2>1, <2>2, EmptyFileDelivered DEF DeliveredFile
    <2> QED BY <2>1, <2>4, <2>5, <2>6
<1>3. CASE FfmpegFails
    <2>1. /\ pc = "muxing" /\ pc' = "connecting" /\ part' \in Seq(Releases)
          /\ final' = <<>> \/ unchecked'
          /\ UNCHANGED <<final, unchecked, counters, outcome>>
        BY <1>1, <1>3, EmptySeq DEF FfmpegFails, NothingInvalidLeft
    <2>2. /\ call' \in Calls /\ call'.kind = "segments" /\ call'.via = call.via
          /\ call'.before = call.before /\ call'.body = call.body
        BY <1>1, <1>3 DEF FfmpegFails, Calls
    <2>3. TypeOK' /\ Counted' /\ NothingInvalidLeft'
        BY <2>1, <2>2, EmptySeq DEF TypeOK, Counted, NothingInvalidLeft
    <2>4. CallShape' /\ Written'
        BY <2>1, <2>2 DEF CallShape, Written
    <2>5. DeliveredFile'
        BY <2>1, EmptyFileDelivered DEF DeliveredFile
    <2> QED BY <2>1, <2>3, <2>4, <2>5
<1>4. CASE PlaylistEnds
    <2>1. Continues(part) /\ call.body = "open"
        BY <1>4 DEF PlaylistEnds, Written, CallShape
    <2>2. DeliveredFile'
        BY <1>4, <2>1 DEF PlaylistEnds, DeliveredFile, Continues
    <2>3. TypeOK' /\ Counted' /\ CallShape' /\ Written' /\ NothingInvalidLeft'
        BY <1>4, EmptySeq DEF PlaylistEnds, TypeOK, Counted, CallShape, Written,
                              NothingInvalidLeft
    <2> QED BY <1>4, <2>2, <2>3 DEF PlaylistEnds
<1> QED BY <1>2, <1>3, <1>4

\* Interruptions, crashes, and what happens between two searches.
LEMMA EnvironmentKeepsInv ==
    ASSUME FileInv,
           Interrupt \/ KeyboardInterrupt \/ Crash \/ ConvertTiny \/ UserDeletes
    PROVE  FileInv'
<1> USE DEF FileInv
<1>1. CASE Interrupt \/ KeyboardInterrupt
    BY <1>1 DEF Interrupt, KeyboardInterrupt, TypeOK, Counted, CallShape, Written, NothingInvalidLeft,
                DeliveredFile, Continues
<1>2. CASE Crash
    <2>1. part' \in Seq(Releases)
        <3>1. /\ part \in Seq(Releases) /\ Len(part) \in Nat
              /\ Len(call.before) \in Nat
            BY LenProperties DEF TypeOK, Calls
        <3>2. ASSUME NEW n \in Len(call.before)..Len(part)
              PROVE  SubSeq(part, 1, n) \in Seq(Releases)
            BY <3>1
        <3> QED BY <1>2, <3>1, <3>2 DEF Crash
    <2>2. /\ pc # "idle" /\ pc' = "idle" /\ outcome' = "crashed"
          /\ unchecked' = (unchecked \/ pc = "promoted")
          /\ UNCHANGED <<final, call, counters>>
        BY <1>2 DEF Crash
    <2> QED BY <2>1, <2>2 DEF TypeOK, Counted, CallShape, Written, NothingInvalidLeft,
                              DeliveredFile, Continues
<1>3. CASE ConvertTiny \/ UserDeletes
    <2>1. /\ final' = <<>> /\ part' \in Seq(Releases) /\ unchecked' = FALSE
          /\ pc = "idle" /\ UNCHANGED <<pc, call, counters, outcome>>
        BY <1>3 DEF ConvertTiny, UserDeletes, TypeOK
    <2>2. DeliveredFile'
        BY <2>1, EmptyFileDelivered DEF DeliveredFile
    <2> QED BY <2>1, <2>2, EmptySeq DEF TypeOK, Counted, CallShape, Written,
                                        NothingInvalidLeft
<1> QED BY <1>1, <1>2, <1>3

LEMMA NextInv == FileInv /\ [Next]_vars => FileInv'
<1> SUFFICES ASSUME FileInv, [Next]_vars PROVE FileInv'
    OBVIOUS
<1>1. CASE Begin \/ NothingToTry \/ Skip \/ TryStream \/ GiveUp
    BY <1>1, SearchKeepsInv
<1>2. CASE Receive \/ DirectStep
    BY <1>2, DirectKeepsInv, FailureKeepsInv DEF DirectStep
<1>3. CASE PlaylistStep
    BY <1>3, PlaylistKeepsInv, FailureKeepsInv DEF PlaylistStep
<1>4. CASE Interrupt \/ KeyboardInterrupt \/ Crash \/ ConvertTiny \/ UserDeletes
    BY <1>4, EnvironmentKeepsInv
<1>5. CASE UNCHANGED vars
    BY <1>5 DEF vars, FileInv, TypeOK, Counted, CallShape, Written, NothingInvalidLeft,
                DeliveredFile, Continues
<1> QED BY <1>1, <1>2, <1>3, <1>4, <1>5 DEF Next, Download, Environment

LEMMA FileInvariant == Spec => []FileInv
BY InitInv, NextInv, PTL DEF Spec

\* Only these steps write to the .part: all others leave it alone.
LEMMA NextKeepsBytes == FileInv /\ [Next]_vars => [KeepsBytes]_part
<1> SUFFICES ASSUME FileInv, [Next]_vars, part' # part PROVE KeepsBytes
    OBVIOUS
<1> USE DEF FileInv
<1>1. /\ call \in Calls /\ call.release \in Releases /\ call.before \in Seq(Releases)
      /\ part \in Seq(Releases) /\ final \in Seq(Releases)
    BY DEF TypeOK, Calls
<1>2. CASE Receive
    BY <1>1, <1>2, PrefixOfItself, PrefixAppend DEF Receive, KeepsBytes
<1>3. CASE Promote \/ PlaylistEnds
    BY <1>3 DEF Promote, PlaylistEnds, KeepsBytes
<1>4. CASE StartFfmpeg \/ FfmpegFails \/ StartSegments \/ SegmentsTooShort
    BY <1>4 DEF StartFfmpeg, FfmpegFails, StartSegments, SegmentsTooShort, KeepsBytes,
                CallShape
<1>5. CASE Crash
    <2>1. PICK n \in Len(call.before)..Len(part) : part' = SubSeq(part, 1, n)
        BY <1>5 DEF Crash
    <2>2. IsPrefix(call.before, part)
        BY <1>5 DEF Crash, Written, Continues
    <2>3. IsPrefix(call.before, part')
        BY <1>1, <2>1, <2>2, PrefixShorten
    <2> QED BY <1>5, <2>3 DEF Crash, KeepsBytes
<1>6. CASE ConvertTiny
    <2>1. part = <<>> /\ part' = final
        BY <1>6 DEF ConvertTiny
    <2>2. IsPrefix(part, part')
        <3>1. Len(part) = 0 /\ Len(part) <= Len(final)
            BY <1>1, <2>1, LenProperties
        <3>2. \A i \in 1..Len(part) : part[i] = final[i]
            BY <3>1
        <3> QED BY <1>1, <2>1, <3>1, <3>2, PrefixElements
    <2> QED BY <2>2 DEF KeepsBytes
<1>7. \/ Receive \/ Promote \/ PlaylistEnds \/ StartFfmpeg \/ FfmpegFails
      \/ StartSegments \/ SegmentsTooShort \/ Crash \/ ConvertTiny
    BY DEF vars, Next, Download, Environment, DirectStep, PlaylistStep, Begin,
           NothingToTry, Skip, TryStream, GiveUp, ConnectFails, IgnoreRange,
           RejectResponse, Open, Stall, ReadTimeout, Disconnect, BodyEnds,
           PromiseBroken, RenameFails, Accept, RejectFile, ValidationErrs, PlaylistFails,
           SegmentFails, Interrupt, KeyboardInterrupt, UserDeletes
<1> QED BY <1>2, <1>3, <1>4, <1>5, <1>6, <1>7

----------------------------------------------------------------------------
(***************************************************************************)
(* The promise of VideoFile, step by step.  What the promise sees of the   *)
(* files and of the thread changes with the final file, with the .part     *)
(* becoming empty or not, and with a few places; all else is a stutter.    *)
(***************************************************************************)
Searching == {"choosing", "connecting", "receiving", "received"} \cup Playlist

LEMMA SeenFile ==
    /\ FileNow \in {"none", "short", "video"}
    /\ final = <<>> => FileNow = "none"
    /\ final' = <<>> => FileNow' = "none"
    /\ UNCHANGED final => UNCHANGED FileNow
    /\ Len(final) >= MinChunks <=> FileNow = "video"
    /\ Len(final') >= MinChunks <=> FileNow' = "video"
    /\ FileNow' \in {"none", "short", "video"}
BY DEF FileNow

LEMMA SeenStage ==
    /\ pc \in Searching => StageNow = "searching"
    /\ pc' \in Searching => StageNow' = "searching"
    /\ pc = "promoted" => StageNow = "renamed"
    /\ pc' = "promoted" => StageNow' = "renamed"
    /\ pc = "idle" => StageNow = IF outcome = "success" /\ FileNow = "video" THEN "done" ELSE "off"
    /\ pc' = "idle" => StageNow' = IF outcome' = "success" /\ FileNow' = "video" THEN "done" ELSE "off"
    /\ UNCHANGED <<pc, final, outcome>> => UNCHANGED StageNow
BY DEF StageNow, FileNow, Searching

LEMMA SeenMishaps ==
    /\ "error" \in MishapsNow <=> unchecked
    /\ "error" \in MishapsNow' <=> unchecked'
    /\ pc # "idle" => "death" \notin MishapsNow /\ "abort" \notin MishapsNow
    /\ pc' = "idle" /\ outcome' = "crashed" => "death" \in MishapsNow'
    /\ pc' = "idle" /\ outcome' = "interrupted" => "abort" \in MishapsNow'
    /\ MishapsNow' \subseteq Video!Mishaps
BY DEF MishapsNow, Video!Mishaps

\* A step of the promise, and one that it does not see.
LEMMA StepOfPromise ==
    ASSUME Video!Worker \/ Video!Environment,
           unchecked /\ ~unchecked' => final' = <<>> \/ StageNow' # "searching"
    PROVE  Video!Next
BY SeenFile, SeenMishaps DEF Video!Next, Video!Lasts

LEMMA Unseen ==
    ASSUME UNCHANGED <<final, unchecked, StageNow>>, part = <<>> <=> part' = <<>>
    PROVE  Video!Next
BY SeenFile, StepOfPromise DEF Video!Environment, Video!Elsewhere

\* A failed stream leaves the thread at the next one, or at its retry.
LEMMA FailedGoesOn ==
    ASSUME NEW error, Failed(error)
    PROVE  StageNow' = "searching"
BY SeenStage DEF Failed, Searching

LEMMA SearchKeepsPromise ==
    ASSUME TypeOK, Begin \/ NothingToTry \/ Skip \/ TryStream \/ GiveUp
    PROVE  Video!Next
<1> USE SeenFile, SeenStage DEF Searching
<1>1. CASE Begin
    <2>1. Video!Begin
        BY <1>1 DEF Begin, Video!Begin, TypeOK
    <2> QED BY <1>1, <2>1, StepOfPromise DEF Begin, Video!Worker
<1>2. CASE NothingToTry
    <2>1. Video!FindNothing
        BY <1>2 DEF NothingToTry, Video!FindNothing, TypeOK
    <2> QED BY <1>2, <2>1, StepOfPromise DEF NothingToTry, Video!Worker
<1>3. CASE Skip \/ TryStream
    BY <1>3, Unseen DEF Skip, TryStream
<1>4. CASE GiveUp
    <2>1. Video!GiveUp
        BY <1>4 DEF GiveUp, Video!GiveUp
    <2> QED BY <1>4, <2>1, StepOfPromise DEF GiveUp, Video!Worker
<1> QED BY <1>1, <1>2, <1>3, <1>4

LEMMA DirectKeepsPromise ==
    ASSUME FileInv, DirectStep \/ Receive
    PROVE  Video!Next
<1> USE SeenFile, SeenStage DEF Searching, FileInv
<1>1. CASE ConnectFails \/ IgnoreRange \/ Stall \/ Disconnect \/ RenameFails
    BY <1>1, FailedGoesOn, Unseen
       DEF ConnectFails, IgnoreRange, Stall, Disconnect, RenameFails, Requested
<1>2. CASE RejectResponse \/ ReadTimeout \/ PromiseBroken
    <2>1. Video!Clear /\ final' = <<>>
        BY <1>2, FailedGoesOn
           DEF RejectResponse, ReadTimeout, PromiseBroken, Requested, Video!Clear
    <2> QED BY <2>1, StepOfPromise DEF Video!Worker
<1>3. CASE Open \/ BodyEnds
    BY <1>3, Unseen DEF Open, BodyEnds, Requested
<1>4. CASE Receive
    <2>1. part \in Seq(Releases) /\ call.release \in Releases
        BY DEF TypeOK, Calls
    <2>3. part' # <<>>
        BY <1>4, <2>1, AppendProperties DEF Receive
    <2>2. Video!Receive
        BY <1>4, <2>3 DEF Receive, Video!Receive
    <2> QED BY <1>4, <2>2, StepOfPromise DEF Receive, Video!Worker
<1>5. CASE Promote
    <2>1. Video!Rename
        BY <1>5 DEF Promote, Video!Rename, Video!Files
    <2> QED BY <1>5, <2>1, StepOfPromise DEF Promote, Video!Worker
<1>6. CASE Accept
    <2>1. Video!Accept
        BY <1>6 DEF Accept, Video!Accept
    <2> QED BY <1>6, <2>1, StepOfPromise DEF Accept, Video!Worker
<1>7. CASE RejectFile
    <2>1. Video!Invalidate /\ final' = <<>>
        BY <1>7, FailedGoesOn DEF RejectFile, Video!Invalidate
    <2> QED BY <2>1, StepOfPromise DEF Video!Worker
<1>8. CASE ValidationErrs
    <2>1. "error" \in MishapsNow' \ MishapsNow
        BY <1>8, SeenMishaps DEF ValidationErrs
    <2>2. Video!Escape
        BY <1>8, <2>1, FailedGoesOn DEF ValidationErrs, Video!Escape, Video!Strikes
    <2> QED BY <1>8, <2>2, StepOfPromise DEF ValidationErrs, Video!Environment
<1> QED BY <1>1, <1>2, <1>3, <1>4, <1>5, <1>6, <1>7, <1>8 DEF DirectStep

LEMMA PlaylistKeepsPromise ==
    ASSUME TypeOK, PlaylistStep
    PROVE  Video!Next
<1> USE SeenFile, SeenStage DEF Searching
<1>1. CASE StartFfmpeg \/ FfmpegFails \/ StartSegments
    <2>1. UNCHANGED <<final, unchecked, StageNow>> /\ StageNow = "searching"
        BY <1>1 DEF StartFfmpeg, FfmpegFails, StartSegments
    <2>2. (part = <<>> <=> part' = <<>>) \/ Video!Discard
        BY <1>1, <2>1 DEF StartFfmpeg, FfmpegFails, StartSegments, Video!Discard
    <2> QED BY <2>1, <2>2, Unseen, StepOfPromise DEF Video!Worker
<1>2. CASE PlaylistEnds
    <2>1. Video!Deliver
        BY <1>2 DEF PlaylistEnds, Video!Deliver
    <2> QED BY <1>2, <2>1, StepOfPromise DEF PlaylistEnds, Video!Worker, Video!Deliver
<1>3. CASE PlaylistFails \/ SegmentFails
    BY <1>3, FailedGoesOn, Unseen DEF PlaylistFails, SegmentFails
<1>4. CASE SegmentsTooShort
    <2>1. Video!Discard
        BY <1>4, FailedGoesOn DEF SegmentsTooShort, Video!Discard
    <2> QED BY <1>4, <2>1, StepOfPromise DEF SegmentsTooShort, Video!Worker
<1> QED BY <1>1, <1>2, <1>3, <1>4 DEF PlaylistStep

LEMMA EnvironmentKeepsPromise ==
    ASSUME FileInv,
           Interrupt \/ KeyboardInterrupt \/ Crash \/ ConvertTiny \/ UserDeletes
    PROVE  Video!Next
<1> USE SeenFile, SeenStage, SeenMishaps DEF Searching
<1>1. CASE Interrupt
    <2>1. Video!GiveUp
        BY <1>1 DEF Interrupt, Video!GiveUp
    <2> QED BY <1>1, <2>1, StepOfPromise DEF Interrupt, Video!Worker
<1>2. CASE KeyboardInterrupt
    <2>1. StageNow \in {"searching", "renamed"} /\ StageNow' = "off"
        BY <1>2 DEF KeyboardInterrupt, FileInv, TypeOK
    <2>2. Video!Drop
        BY <1>2, <2>1 DEF KeyboardInterrupt, Video!Drop, Video!Strikes
    <2> QED BY <1>2, <2>2, StepOfPromise DEF KeyboardInterrupt, Video!Environment
<1>3. CASE Crash
    <2>1. part' # <<>> => part # <<>>
        BY <1>3 DEF Crash, FileInv, TypeOK, Calls
    <2>2. StageNow \in {"searching", "renamed"} /\ StageNow' = "off"
        BY <1>3 DEF Crash, FileInv, TypeOK
    <2>3. Video!Crash
        BY <1>3, <2>1, <2>2 DEF Crash, Video!Crash, Video!Strikes
    <2> QED BY <1>3, <2>3, StepOfPromise DEF Crash, Video!Environment
<1>4. CASE ConvertTiny
    <2>1. FileNow = "short" /\ FileNow' = "none" /\ StageNow = "off" /\ StageNow' = "off"
        BY <1>4 DEF ConvertTiny, FileInv, TypeOK, FileNow
    <2>2. Video!Convert
        BY <1>4, <2>1 DEF ConvertTiny, Video!Convert
    <2> QED BY <1>4, <2>2, StepOfPromise DEF ConvertTiny, Video!Environment
<1>5. CASE UserDeletes
    <2>1. Video!Delete
        BY <1>5 DEF UserDeletes, Video!Delete
    <2> QED BY <1>5, <2>1, StepOfPromise DEF UserDeletes, Video!Environment
<1> QED BY <1>1, <1>2, <1>3, <1>4, <1>5

----------------------------------------------------------------------------
\* Files, call and counters stay well typed, for every set of releases.
THEOREM FileTypeCorrect == Spec => []TypeOK
<1>1. FileInv => TypeOK
    BY DEF FileInv
<1> QED BY <1>1, FileInvariant, PTL

\* A file long enough to pass for the episode is what the last call resumed,
\* followed by its release, and all of that release when HTTP vouched for the body.
THEOREM FileDelivered == Spec => []DeliveredFile
<1>1. FileInv => DeliveredFile
    BY DEF FileInv
<1> QED BY <1>1, FileInvariant, PTL

\* No failing, cancelled or interrupted stream leaves a final file behind, for any
\* streams, answers and errors, unless a crash, Ctrl+C in the main thread or an
\* error of the file system cuts off the very validation of that file.
THEOREM NoInvalidFile == Spec => []NothingInvalidLeft
<1>1. FileInv => NothingInvalidLeft
    BY DEF FileInv
<1> QED BY <1>1, FileInvariant, PTL

\* Every stream that was tried has been counted once, its retry not at all.
THEOREM StreamsCountedOnce == Spec => []CountedOnce
<1>1. FileInv => CountedOnce
    BY DEF FileInv, Counted, CountedOnce
<1> QED BY <1>1, FileInvariant, PTL

\* No step loses the bytes of the .part but those BytesKept names.
THEOREM PartKept == Spec => BytesKept
BY FileInvariant, NextKeepsBytes, PTL DEF Spec, BytesKept

\* Whatever servers, the retry, interruptions and crashes do, the downloaders keep
\* the worker's promise about the final file, with no excuse but the three mishaps.
THEOREM DownloadersKeepPromise == Spec => KeepsPromise
<1>1. Init => Video!Init
    BY SeenFile, SeenStage DEF Init, Video!Init, Video!Files, MishapsNow
<1>2. FileInv /\ [Next]_vars => [Video!Next]_(Video!video)
    <2> SUFFICES ASSUME FileInv, [Next]_vars PROVE [Video!Next]_(Video!video)
        OBVIOUS
    <2>1. CASE UNCHANGED vars
        BY <2>1, SeenFile, SeenStage DEF vars, Video!video, MishapsNow
    <2> QED BY <2>1, SearchKeepsPromise, DirectKeepsPromise, PlaylistKeepsPromise,
               EnvironmentKeepsPromise DEF FileInv, Next, Download, Environment
<1> QED BY <1>1, <1>2, FileInvariant, PTL DEF Spec, KeepsPromise, Video!Spec
============================================================================
