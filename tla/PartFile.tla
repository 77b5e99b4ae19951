------------------------------ MODULE PartFile ------------------------------
(***************************************************************************)
(* One episode's (or film's) .part and final file while the streams of a   *)
(* search are tried: _try_download_streams, download_stream_to_file, the   *)
(* two playlist downloaders and the RealDebrid retry, over interruptions,  *)
(* crashes and later searches.                                             *)
(*                                                                         *)
(* A file is the sequence of its chunks, and a chunk is the release that   *)
(* delivered it: bytes are only ever appended, so a chunk's place is its   *)
(* index.  <<>> is a file that is empty or absent.                         *)
(***************************************************************************)
EXTENDS Integers, Sequences, SequencesExt

CONSTANTS Releases,      \* what different streams may deliver
          Size,          \* Size[r]: the chunks of the whole release r
          MinChunks,     \* MIN_COMPLETED_VIDEO_SIZE_MB
          MaxStreams     \* bound: streams one search returns

ASSUME SizeAssumption == Size \in [Releases -> Nat \ {0}]
ASSUME MinAssumption == MinChunks \in Nat \ {0}
ASSUME StreamsAssumption == MaxStreams \in Nat

VARIABLES part, final,         \* the two files
          unchecked,           \* history: the final file got past its validation
          pc,                  \* where the downloading thread is
          call,                \* the call of download_stream_to_file, the last one when none runs
          left,                \* streams not tried yet
          attempted, invalid, transient,   \* the counters of _try_download_streams
          outcome              \* how the last search ended

files == <<part, final, unchecked>>
counters == <<left, attempted, invalid, transient>>
vars == <<files, pc, call, counters, outcome>>

Kinds == {"direct", "ffmpeg", "segments"}
Direct == {"receiving", "received", "promoted"}   \* inside a direct download
Playlist == {"muxing", "fetching"}                \* inside a playlist's
Steps == {"idle", "choosing", "connecting"} \cup Direct \cup Playlist
Outcomes == {"none", "success", "permanent", "retry", "cancelled", "interrupted", "crashed"}
Errors == {"invalid", "stall", "range", "other"}

\* before: the bytes a direct download resumes; a playlist starts from scratch.
\* body: what tells that the body is complete: its size in the headers, the end
\* mark of chunked encoding, or nothing but the end of the connection.
CallTo(r, kind, via, bytes) ==
    [release |-> r, kind |-> kind, via |-> via,
     before |-> IF kind = "direct" THEN bytes ELSE <<>>, body |-> "open"]

Calls == [release : Releases, kind : Kinds, via : {"addon", "debrid"},
          before : Seq(Releases), body : {"sized", "chunked", "open"}]

TypeOK ==
    /\ part \in Seq(Releases) /\ final \in Seq(Releases)
    /\ unchecked \in BOOLEAN
    /\ pc \in Steps
    /\ call \in Calls
    /\ left \in Nat /\ attempted \in Nat /\ invalid \in Nat /\ transient \in Nat
    /\ outcome \in Outcomes

\* Every run begins with what earlier ones left, so one may begin with nothing.
Init ==
    /\ part = <<>> /\ final = <<>> /\ unchecked = FALSE
    /\ pc = "idle"
    /\ \E r \in Releases : call = CallTo(r, "direct", "addon", <<>>)
    /\ left = 0 /\ attempted = 0 /\ invalid = 0 /\ transient = 0
    /\ outcome = "none"

----------------------------------------------------------------------------
(***************************************************************************)
(* The search and its streams.                                             *)
(***************************************************************************)
RemoveFinal == final' = <<>> /\ unchecked' = FALSE

\* The worker has found no complete file (a short one it removes), and the
\* addons have returned streams.
Begin ==
    /\ pc = "idle" /\ Len(final) < MinChunks
    /\ RemoveFinal
    /\ left' \in 1..MaxStreams
    /\ attempted' = 0 /\ invalid' = 0 /\ transient' = 0
    /\ pc' = "choosing" /\ outcome' = "none"
    /\ UNCHANGED <<part, call>>

\* The addons return no stream, or the filters leave none.
NothingToTry ==
    /\ pc = "idle" /\ Len(final) < MinChunks
    /\ RemoveFinal
    /\ outcome' \in {"permanent", "retry"}
    /\ UNCHANGED <<part, pc, call, counters>>

\* Slip: one more turn than there are streams.
SkipPastTheLast ==
    /\ pc = "choosing"
    /\ left' = left - 1
    /\ UNCHANGED <<files, pc, call, attempted, invalid, transient, outcome>>

\* resolve_stream_download_url has no address for the stream: not counted.
Skip ==
    /\ pc = "choosing" /\ left > 0
    /\ left' = left - 1
    /\ UNCHANGED <<files, pc, call, attempted, invalid, transient, outcome>>

TryStream ==
    /\ pc = "choosing" /\ left > 0
    /\ left' = left - 1 /\ attempted' = attempted + 1
    /\ \E r \in Releases, kind \in Kinds : call' = CallTo(r, kind, "addon", part)
    /\ pc' = "connecting"
    /\ UNCHANGED <<files, invalid, transient, outcome>>

\* All streams failed: permanently, if every one that was tried was invalid.
GiveUp ==
    /\ pc = "choosing" /\ left = 0
    /\ outcome' = IF attempted > 0 /\ invalid = attempted /\ transient = 0
                  THEN "permanent" ELSE "retry"
    /\ pc' = "idle"
    /\ UNCHANGED <<files, call, counters>>

\* Slip: a failed retry is counted like the stream it retries.
FailedCountingRetries(error) ==
    /\ invalid' = IF error = "invalid" THEN invalid + 1 ELSE invalid
    /\ transient' = IF error = "invalid" THEN transient ELSE transient + 1
    /\ \/ pc' = "choosing" /\ UNCHANGED call
       \/ /\ call.via = "addon" /\ error \in {"invalid", "other"}
          /\ \E r \in Releases, kind \in Kinds : call' = CallTo(r, kind, "debrid", part')
          /\ pc' = "connecting"
    /\ UNCHANGED <<left, attempted, outcome>>

\* Slip: the RealDebrid retry is retried as well.
FailedRetryingForEver(error) ==
    /\ IF call.via = "debrid" THEN UNCHANGED <<invalid, transient>>
       ELSE /\ invalid' = IF error = "invalid" THEN invalid + 1 ELSE invalid
            /\ transient' = IF error = "invalid" THEN transient ELSE transient + 1
    /\ \/ pc' = "choosing" /\ UNCHANGED call
       \/ /\ error \in {"invalid", "other"}
          /\ \E r \in Releases, kind \in Kinds : call' = CallTo(r, kind, "debrid", part')
          /\ pc' = "connecting"
    /\ UNCHANGED <<left, attempted, outcome>>

\* _delete_invalid_download: the final file goes, the .part stays.
DeleteInvalid == RemoveFinal /\ UNCHANGED part

\* An error ends the call.  It is counted once, and after some a torrent is tried
\* again through RealDebrid, whose errors are swallowed.
Failed(error) ==
    /\ IF call.via = "debrid" THEN UNCHANGED <<invalid, transient>>
       ELSE /\ invalid' = IF error = "invalid" THEN invalid + 1 ELSE invalid
            /\ transient' = IF error = "invalid" THEN transient ELSE transient + 1
    /\ \/ pc' = "choosing" /\ UNCHANGED call
       \/ /\ call.via = "addon" /\ error \in {"invalid", "other"}
          /\ \E r \in Releases, kind \in Kinds : call' = CallTo(r, kind, "debrid", part')
          /\ pc' = "connecting"
    /\ UNCHANGED <<left, attempted, outcome>>

----------------------------------------------------------------------------
(***************************************************************************)
(* A direct download.                                                      *)
(***************************************************************************)
Requested == pc = "connecting" /\ call.kind = "direct"

\* No connection, or an error status: 416 always, when there is nothing left to
\* ask for.
ConnectFails ==
    /\ Requested
    /\ UNCHANGED files
    /\ Failed("other")

\* 200 instead of 206: RangeNotSupportedError, the bytes on disk stay.
IgnoreRange ==
    /\ Requested /\ call.before # <<>>
    /\ UNCHANGED files
    /\ Failed("range")

\* An HTML, JSON or text answer, or one that announces less than a video.
RejectResponse ==
    /\ Requested
    /\ DeleteInvalid
    /\ Failed("invalid")

\* The body starts: with a size, chunked, or open-ended.
Open ==
    /\ Requested /\ Len(call.before) < Size[call.release]
    /\ \E body \in {"chunked", "open"} \cup
                   (IF Size[call.release] < MinChunks THEN {} ELSE {"sized"}) :
          call' = [call EXCEPT !.body = body]
    /\ pc' = "receiving"
    /\ UNCHANGED <<files, counters, outcome>>

\* A chunk is written, in the three downloaders.
Receive ==
    /\ pc \in {"receiving"} \cup Playlist
    /\ Len(part) < Size[call.release]
    /\ part' = Append(part, call.release)
    /\ UNCHANGED <<final, unchecked, pc, call, counters, outcome>>

\* Slip: docs/project.md, a stalled download's .part is cleaned up.
StallDiscarding ==
    /\ pc = "receiving"
    /\ part' = <<>> /\ UNCHANGED <<final, unchecked>>
    /\ Failed("stall")

\* The next chunk comes too late ...
Stall ==
    /\ pc = "receiving" /\ part # <<>>
    /\ UNCHANGED files
    /\ Failed("stall")

\* ... or httpx.ReadTimeout strikes.
ReadTimeout ==
    /\ Requested \/ pc = "receiving"
    /\ DeleteInvalid
    /\ Failed("stall")

\* A reset connection, a broken chunked body, a full disk.
Disconnect ==
    /\ pc = "receiving"
    /\ UNCHANGED files
    /\ Failed("other")

\* The body ends without an error; only a chunked one is sure to be whole.
BodyEnds ==
    /\ pc = "receiving"
    /\ call.body = "chunked" => Len(part) = Size[call.release]
    /\ pc' = "received"
    /\ UNCHANGED <<files, call, counters, outcome>>

\* partial_path.replace(file_path)
Replace == final' = part /\ part' = <<>> /\ unchecked' = FALSE

Short == call.body = "sized" /\ Len(part) < Size[call.release]

\* Fewer bytes than promised.
PromiseBroken ==
    /\ pc = "received" /\ Short
    /\ DeleteInvalid
    /\ Failed("invalid")

\* Slip: the promised size is not compared.
PromoteUnchecked ==
    /\ pc = "received"
    /\ Replace
    /\ pc' = "promoted"
    /\ UNCHANGED <<call, counters, outcome>>

RenameFails ==
    /\ pc = "received" /\ ~Short
    /\ UNCHANGED files
    /\ Failed("other")

Promote ==
    /\ pc = "received" /\ ~Short
    /\ Replace
    /\ pc' = "promoted"
    /\ UNCHANGED <<call, counters, outcome>>

Accept ==
    /\ pc = "promoted" /\ Len(final) >= MinChunks
    /\ pc' = "idle" /\ outcome' = "success"
    /\ UNCHANGED <<files, call, counters>>

\* Slip: Final-File Promotion Outside Try/Except of docs/download-flow.md.
RejectFileKept ==
    /\ pc = "promoted"
    /\ Len(final) < MinChunks \/ call.body = "open"
    /\ UNCHANGED files
    /\ Failed("invalid")

\* _validate_completed_file: too short, or ffprobe refuses the file; it is asked
\* only when HTTP does not vouch for the body.
RejectFile ==
    /\ pc = "promoted"
    /\ Len(final) < MinChunks \/ call.body = "open"
    /\ DeleteInvalid
    /\ Failed("invalid")

\* An OSError of stat or unlink gets past the only handler, which is for
\* InvalidVideoDownloadError: the stream has failed, the file stays.  (When ffprobe
\* cannot be started the file passes.)
ValidationErrs ==
    /\ pc = "promoted"
    /\ unchecked' = TRUE
    /\ UNCHANGED <<part, final>>
    /\ Failed("other")

----------------------------------------------------------------------------
(***************************************************************************)
(* A playlist: ffmpeg first, and what it cannot do, segment by segment.    *)
(***************************************************************************)
StartFfmpeg ==
    /\ pc = "connecting" /\ call.kind = "ffmpeg"
    /\ part' = <<>>
    /\ pc' = "muxing"
    /\ UNCHANGED <<final, unchecked, call, counters, outcome>>

\* HlsFfmpegError: its output stays after a stall and is removed otherwise.
FfmpegFails ==
    /\ pc = "muxing"
    /\ part' \in {part, <<>>}
    /\ call' = [call EXCEPT !.kind = "segments"]
    /\ pc' = "connecting"
    /\ UNCHANGED <<final, unchecked, counters, outcome>>

\* Slip: what a playlist has delivered is not looked at.
PlaylistEndsUnvalidated ==
    /\ pc = "muxing" \/ (pc = "fetching" /\ Len(part) = Size[call.release])
    /\ Replace
    /\ pc' = "idle" /\ outcome' = "success"
    /\ UNCHANGED <<call, counters>>

\* _validate_and_finalize of both downloaders, which look at nothing but the size.
PlaylistEnds ==
    /\ pc = "muxing" \/ (pc = "fetching" /\ Len(part) = Size[call.release])
    /\ Len(part) >= MinChunks
    /\ Replace
    /\ pc' = "idle" /\ outcome' = "success"
    /\ UNCHANGED <<call, counters>>

\* The playlist cannot be fetched or holds no segments.
PlaylistFails ==
    /\ pc = "connecting" /\ call.kind = "segments"
    /\ UNCHANGED files
    /\ Failed("other")

StartSegments ==
    /\ pc = "connecting" /\ call.kind = "segments"
    /\ part' = <<>>
    /\ pc' = "fetching"
    /\ UNCHANGED <<final, unchecked, call, counters, outcome>>

\* A segment stalls or fails: its predecessors stay on disk.
SegmentFails ==
    /\ pc = "fetching"
    /\ UNCHANGED files
    /\ Failed("other")

SegmentsTooShort ==
    /\ pc = "fetching" /\ Len(part) = Size[call.release] /\ Len(part) < MinChunks
    /\ part' = <<>> /\ UNCHANGED <<final, unchecked>>
    /\ Failed("other")

----------------------------------------------------------------------------
(***************************************************************************)
(* Interruptions, crashes, and what happens between two searches.          *)
(***************************************************************************)
\* raise_if_shutdown_requested: DownloadCancelled is no Exception, so neither
\* the retry nor the loop over the streams catches it.
Interrupt ==
    /\ pc \in {"connecting", "receiving", "received"} \cup Playlist
    /\ pc' = "idle" /\ outcome' = "cancelled"
    /\ UNCHANGED <<files, call, counters>>

\* A real Ctrl+C hits the main thread anywhere, which downloads films and, with a
\* single worker, episodes itself.  Nobody on the way out removes a file.
KeyboardInterrupt ==
    /\ pc # "idle"
    /\ unchecked' = (unchecked \/ pc = "promoted")
    /\ pc' = "idle" /\ outcome' = "interrupted"
    /\ UNCHANGED <<part, final, call, counters>>

\* The process dies; what its buffers held of this call's chunks is lost.
Crash ==
    /\ pc # "idle"
    /\ IF pc \in {"receiving"} \cup Playlist
       THEN \E n \in Len(call.before)..Len(part) : part' = SubSeq(part, 1, n)
       ELSE UNCHANGED part
    /\ unchecked' = (unchecked \/ pc = "promoted")
    /\ pc' = "idle" /\ outcome' = "crashed"
    /\ UNCHANGED <<final, call, counters>>

\* _maybe_convert_tiny_untracked_file_to_partial, in the scan of the next run.
ConvertTiny ==
    /\ pc = "idle" /\ Len(final) < MinChunks /\ final # <<>> /\ part = <<>>
    /\ part' = final /\ RemoveFinal
    /\ UNCHANGED <<pc, call, counters, outcome>>

UserDeletes ==
    /\ pc = "idle" /\ final # <<>>
    /\ RemoveFinal
    /\ UNCHANGED <<part, pc, call, counters, outcome>>

DirectStep ==
    \/ ConnectFails \/ IgnoreRange \/ RejectResponse \/ Open
    \/ Stall \/ ReadTimeout \/ Disconnect \/ BodyEnds
    \/ PromiseBroken \/ RenameFails \/ Promote
    \/ Accept \/ RejectFile \/ ValidationErrs

PlaylistStep ==
    \/ StartFfmpeg \/ FfmpegFails \/ PlaylistEnds
    \/ PlaylistFails \/ StartSegments \/ SegmentFails \/ SegmentsTooShort

Download == Skip \/ TryStream \/ GiveUp \/ Receive \/ DirectStep \/ PlaylistStep

Environment ==
    \/ Begin \/ NothingToTry
    \/ Interrupt \/ KeyboardInterrupt \/ Crash
    \/ ConvertTiny \/ UserDeletes

Next == Download \/ Environment

Spec == Init /\ [][Next]_vars

\* The thread runs, and its waits end by a timeout, but for ffmpeg's: the loop that
\* reads its progress blocks in readline, where no stall is looked for.
FairSpec == Spec /\ WF_vars(pc # "muxing" /\ Download)

----------------------------------------------------------------------------
(***************************************************************************)
(* What is right about it.                                                 *)
(***************************************************************************)
Continues(file) ==
    /\ IsPrefix(call.before, file)
    /\ \A i \in (Len(call.before) + 1)..Len(file) : file[i] = call.release

\* A file that passes for a complete one is what the last call resumed, followed
\* by that call's release to the end: no bytes of another stream in between, none
\* twice, none left out, whatever failed before it.  And when HTTP vouched for
\* the body, it is the whole release.  (A file whose validation is then cut off had
\* this form when it was renamed; later calls need not be its own.)
DeliveredFile ==
    Len(final) >= MinChunks /\ ~unchecked =>
        /\ Continues(final)
        /\ call.body # "open" => Len(final) = Size[call.release]

\* docs/download-flow.md, fix 2: an invalid file is never left on disk after a
\* validation failure, nor does any other failing, cancelled or interrupted stream
\* leave one, which the next search would take for the episode.  A final file that
\* outlives its stream has passed, or its validation itself was cut off, by a crash,
\* by Ctrl+C in the main thread or by the file system (unchecked).
NothingInvalidLeft ==
    pc # "promoted" /\ final # <<>> =>
        unchecked \/ (pc = "idle" /\ outcome = "success")

\* A stream is counted once, as invalid or as transient, whatever becomes of its
\* RealDebrid retry: a failed retry neither adds to nor takes from the verdict.
CountedOnce == pc = "choosing" => invalid + transient = attempted

\* The bytes on disk survive a failing direct stream, an interruption, and, but
\* for the unflushed end, a crash: they are kept, moved to the final file, or
\* belong to a playlist, which cannot be resumed.
KeepsBytes ==
    \/ IsPrefix(part, part')
    \/ final' = part
    \/ call.kind # "direct" /\ pc \in {"connecting"} \cup Playlist
    \/ outcome' = "crashed" /\ IsPrefix(call.before, part')

BytesKept == [][KeepsBytes]_part

\* The promise that the rest of the program relies on.  A search is at work until
\* it is over, and done when it has delivered a video that is still there.
FileNow == IF Len(final) >= MinChunks THEN "video"
           ELSE IF final # <<>> THEN "short" ELSE "none"

StageNow == IF pc = "promoted" THEN "renamed"
            ELSE IF pc # "idle" THEN "searching"
            ELSE IF outcome = "success" /\ FileNow = "video" THEN "done" ELSE "off"

MishapsNow == {m \in {"death", "abort", "error"} :
    \/ m = "death" /\ pc = "idle" /\ outcome = "crashed"
    \/ m = "abort" /\ pc = "idle" /\ outcome = "interrupted"
    \/ m = "error" /\ unchecked}

Video == INSTANCE VideoFile WITH
    file <- FileNow, part <- part # <<>>, stage <- StageNow, mishaps <- MishapsNow

\* Chunk by chunk, by one connection, ffmpeg or segments, with retries and
\* interruptions, the downloaders keep what a worker promises: no short file is
\* left to the next stream or the next search, unless a mishap hits its validation.
KeepsPromise == Video!Spec

\* Every search ends, however its streams behave, unless ffmpeg falls silent for
\* ever: there are finitely many streams, each is tried at most twice, and each try
\* that leaves ffmpeg, if it used it, ends.
SearchEnds == []<>(pc # "muxing") => (pc # "idle" ~> pc = "idle")
============================================================================
