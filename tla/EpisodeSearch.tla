--------------------------- MODULE EpisodeSearch ---------------------------
(***************************************************************************)
(* One call of search_and_download after another, for one episode or film: *)
(* the strategies (an IMDB id, then the title), the addons asked at the    *)
(* same time by a pool of threads, the streams tried in turn, the verdict, *)
(* and the experimental addons as the last resort.  How one stream is      *)
(* downloaded is PartFile's subject.                                       *)
(*                                                                         *)
(* Addons answer in any order and anything of Offers; an error, a timeout  *)
(* or a rate limit is the empty answer, as it is in the code.              *)
(***************************************************************************)
EXTENDS StreamSelection

CONSTANTS Configured,    \* the addons of the manager
          Stale,         \* addons a folder's server list may still name
          Experimental,  \* those of experimental.txt
          Offers,        \* what an addon may return: sequences of streams
          Wanted,        \* Target(season, episode)
          Preferred,     \* preferred languages
          Quality,       \* the quality settings of the folder
          Keys           \* resolvers configured

ASSUME AddonsAssumption == /\ Configured \cap Stale = {}
                           /\ Experimental \cap (Configured \cup Stale) = {}

ASSUME QualityAssumption == Quality \in QualitySettings

Known == Configured \cup Stale
All == Known \cup Experimental
Ids == {"imdb", "title"}

ASSUME OffersAssumption == \A offer \in Offers : offer \in Seq(Streams(All))

Scopes == {"cached", "remaining", "full", "experimental"}

VARIABLES cached,      \* working_addons: the folder's servers
          known,       \* whether the call has an IMDB id
          ids,         \* strategies not finished, the current one first
          scope,       \* the addons this search asks
          pc,
          waiting,     \* addons submitted to the pool, not answered yet
          found,       \* streams collected
          queue,       \* streams not tried yet
          tally,       \* the counters of _try_download_streams
          earlier,     \* cached_result, while the remaining addons are asked
          result,      \* of the last search, in the end of the call
          shutdown,
          asked        \* who was asked for what in this call (not in the code)

asking == <<ids, scope, waiting, found>>
trying == <<queue, tally>>
vars == <<cached, known, pc, asking, trying, earlier, result, shutdown, asked>>

Counters == [attempted : Nat, invalid : Nat, transient : Nat]
\* Slip: off by one.
ZeroBelow == [attempted |-> -1, invalid |-> 0, transient |-> 0]

Zero == [attempted |-> 0, invalid |-> 0, transient |-> 0]

\* outcome: why there is no download, or that there is one.
Results == [outcome : {"none", "success", "nothing", "filtered", "failed", "cancelled"},
            permanent : BOOLEAN, disabled : SUBSET All]
NoResult == [outcome |-> "none", permanent |-> FALSE, disabled |-> {}]

TypeOK ==
    /\ cached \subseteq Known /\ known \in BOOLEAN
    /\ ids \in Seq(Ids)
    /\ scope \in Scopes
    /\ pc \in {"idle", "asking", "trying"}
    /\ waiting \subseteq All
    /\ found \in Seq(Streams(All)) /\ queue \in Seq(Streams(All))
    /\ tally \in Counters
    /\ earlier \in Results /\ result \in Results
    /\ shutdown \in BOOLEAN
    /\ asked \in [Ids \X All -> Nat]

Init ==
    /\ cached = {} /\ known = FALSE /\ ids = <<>> /\ scope = "full"
    /\ pc = "idle"
    /\ waiting = {} /\ found = <<>>
    /\ queue = <<>> /\ tally = Zero
    /\ earlier = NoResult /\ result = NoResult
    /\ shutdown = FALSE
    /\ asked = [x \in Ids \X All |-> 0]

----------------------------------------------------------------------------
(***************************************************************************)
(* Asking.                                                                 *)
(***************************************************************************)
\* Slip: the servers of the folder are among "all others".
AsksAgain(where, servers) ==
    CASE where = "cached" -> servers
      [] where \in {"remaining", "full"} -> Configured
      [] where = "experimental" -> Experimental

\* The addons a search asks: the servers of the folder, all others, or all.
\* search_remaining_addons_for_streams leaves out the servers tried before.
Asks(where, servers) ==
    CASE where = "cached" -> servers
      [] where = "remaining" -> Configured \ servers
      [] where = "full" -> Configured
      [] where = "experimental" -> Experimental

\* All requests of a search are submitted before the first answer is read, and
\* all are carried out: leaving the loop early waits for the pool.
Submit(where, id, servers, before) ==
    /\ scope' = where
    /\ waiting' = Asks(where, servers)
    /\ found' = <<>>
    /\ asked' = [x \in Ids \X All |->
                    before[x] + IF x[1] = id /\ x[2] \in Asks(where, servers) THEN 1 ELSE 0]
    /\ pc' = "asking"

FirstScope(servers) == IF servers = {} THEN "full" ELSE "cached"

\* Without an IMDB id there is the title only.
Call ==
    /\ pc = "idle" /\ ~shutdown
    /\ \E servers \in SUBSET Known, imdb \in BOOLEAN :
          LET first == IF imdb THEN "imdb" ELSE "title" IN
          /\ cached' = servers /\ known' = imdb
          /\ ids' = IF imdb THEN <<"imdb", "title">> ELSE <<"title">>
          /\ Submit(FirstScope(servers), first, servers, [x \in Ids \X All |-> 0])
    /\ result' = NoResult /\ earlier' = NoResult
    /\ UNCHANGED <<trying, shutdown>>

Stamped(offer, a) == [i \in DOMAIN offer |-> [offer[i] EXCEPT !.addon = a]]

\* The next future is done.  The loop looks at the flag before the answer, and
\* leaves: what the others answer is lost.
Answer(a, offer) ==
    /\ pc = "asking" /\ a \in waiting
    /\ shutdown => scope = "experimental"
    /\ waiting' = waiting \ {a}
    /\ found' = found \o Stamped(offer, a)
    /\ UNCHANGED <<cached, known, pc, ids, scope, trying, earlier, result, shutdown, asked>>

LeaveSearch ==
    /\ pc = "asking" /\ waiting # {}
    /\ shutdown /\ scope # "experimental"
    /\ waiting' = {}
    /\ UNCHANGED <<cached, known, pc, ids, scope, found, trying, earlier, result, shutdown, asked>>

----------------------------------------------------------------------------
(***************************************************************************)
(* What follows a search that ended in r, with or without streams.         *)
(***************************************************************************)
Return(r) ==
    /\ pc' = "idle"
    /\ result' = r
    /\ waiting' = {} /\ ids' = <<>> /\ found' = <<>> /\ earlier' = NoResult
    /\ UNCHANGED <<scope, asked>>

Ask(where, id) == Submit(where, id, cached, asked)

\* Slip: the first verdict is returned.
NextStrategyNever(r) == Return(r)

\* The strategy failed: the next one, then the experimental addons.  Its verdict
\* replaces that of the strategies before it.
NextStrategy(r) ==
    /\ earlier' = NoResult
    /\ IF Len(ids) > 1
       THEN Ask(FirstScope(cached), ids[2]) /\ ids' = Tail(ids) /\ result' = r
       ELSE IF Experimental # {}
       THEN Ask("experimental", "title") /\ ids' = <<>> /\ result' = r
       ELSE Return(r)

\* The remaining addons' verdict counts if they had streams, else the cached
\* ones' if these had; with no streams at all the failure is permanent.
NothingFound == [outcome |-> "nothing", permanent |-> TRUE, disabled |-> {}]

\* The experimental addons' verdict is never the call's.
KeepVerdict == Return(result)

SearchFailed(r) ==
    CASE scope = "cached" ->
            /\ Ask("remaining", Head(ids))
            /\ earlier' = r
            /\ UNCHANGED <<ids, result>>
      [] scope = "remaining" ->
            NextStrategy(IF found # <<>> THEN r
                         ELSE IF earlier.outcome # "nothing" THEN earlier
                         ELSE NothingFound)
      [] scope = "full" -> NextStrategy(r)
      [] scope = "experimental" -> KeepVerdict

\* Only the search of all addons insists on English, and only if that leaves any.
Considered ==
    IF scope = "full" /\ "english" \in Preferred /\ FilterEnglish(found) # <<>>
    THEN FilterEnglish(found)
    ELSE found

Selected == SelectStreams(Considered, Wanted, Preferred, Quality)

Blamed == TargetMismatchAddons(Considered, Wanted)

NoStreams ==
    /\ pc = "asking" /\ waiting = {} /\ found = <<>>
    /\ SearchFailed([NothingFound EXCEPT !.permanent = scope = "full"])
    /\ UNCHANGED <<cached, known, trying, shutdown>>

AllFiltered ==
    /\ pc = "asking" /\ waiting = {} /\ found # <<>>
    /\ Selected = <<>>
    /\ SearchFailed([outcome |-> "filtered", permanent |-> TRUE, disabled |-> Blamed])
    /\ UNCHANGED <<cached, known, trying, shutdown>>

StartTrying ==
    /\ pc = "asking" /\ waiting = {} /\ Selected # <<>>
    /\ queue' = Selected
    /\ tally' = Zero
    /\ pc' = "trying"
    /\ UNCHANGED <<cached, known, asking, earlier, result, shutdown, asked>>

----------------------------------------------------------------------------
(***************************************************************************)
(* Trying the streams.                                                     *)
(***************************************************************************)
\* A stream that cannot be resolved is not an attempt.
SkipStream ==
    /\ pc = "trying" /\ queue # <<>>
    /\ "none" \in Sources(Head(queue), Keys)
    /\ queue' = Tail(queue)
    /\ UNCHANGED <<cached, known, pc, asking, tally, earlier, result, shutdown, asked>>

Attempt(kind) ==
    /\ pc = "trying" /\ queue # <<>>
    /\ Sources(Head(queue), Keys) \ {"none"} # {}
    /\ queue' = Tail(queue)
    /\ tally' = [tally EXCEPT !.attempted = @ + 1, ![kind] = @ + 1]
    /\ UNCHANGED <<cached, known, pc, asking, earlier, result, shutdown, asked>>

\* A stream that was not a video, and one that stalled, broke off, could not be
\* resumed: the debrid retry of the stream, where there is one, failed too.
InvalidVideo == Attempt("invalid")
TransientError == Attempt("transient")

\* Nothing is said of the addons of the streams that were wrong.
Downloaded ==
    /\ pc = "trying" /\ queue # <<>>
    /\ Sources(Head(queue), Keys) \ {"none"} # {}
    /\ Return([outcome |-> "success", permanent |-> FALSE, disabled |-> {}])
    /\ queue' = <<>> /\ tally' = Zero
    /\ UNCHANGED <<cached, known, shutdown>>

CancelledResult == [outcome |-> "cancelled", permanent |-> FALSE, disabled |-> {}]

\* DownloadCancelled goes through every except clause.
Cancelled ==
    /\ pc = "trying" /\ queue # <<>> /\ shutdown
    /\ Return(CancelledResult)
    /\ queue' = <<>> /\ tally' = Zero
    /\ UNCHANGED <<cached, known, shutdown>>

Exhausted ==
    /\ pc = "trying" /\ queue = <<>>
    /\ SearchFailed([outcome |-> "failed", disabled |-> Blamed,
                     permanent |-> /\ tally.attempted > 0
                                   /\ tally.invalid = tally.attempted
                                   /\ tally.transient = 0])
    /\ tally' = Zero
    /\ UNCHANGED <<cached, known, queue, shutdown>>

\* Ctrl+C in the thread that searches: it sets the flag and does not wait for
\* the pool.
KeyboardInterrupt ==
    /\ pc # "idle"
    /\ shutdown' = TRUE
    /\ Return(CancelledResult)
    /\ queue' = <<>> /\ tally' = Zero
    /\ UNCHANGED <<cached, known>>

RequestShutdown ==
    /\ ~shutdown
    /\ shutdown' = TRUE
    /\ UNCHANGED <<cached, known, pc, asking, trying, earlier, result, asked>>

\* The next run of the program.
ClearShutdown ==
    /\ shutdown /\ pc = "idle"
    /\ shutdown' = FALSE
    /\ UNCHANGED <<cached, known, pc, asking, trying, earlier, result, asked>>

Next ==
    \/ Call
    \/ \E a \in All, offer \in Offers : Answer(a, offer)
    \/ LeaveSearch
    \/ NoStreams \/ AllFiltered \/ StartTrying
    \/ SkipStream \/ InvalidVideo \/ TransientError \/ Downloaded \/ Cancelled
    \/ Exhausted
    \/ KeyboardInterrupt \/ RequestShutdown \/ ClearShutdown

Spec == Init /\ [][Next]_vars

----------------------------------------------------------------------------
(***************************************************************************)
(* Properties.                                                             *)
(***************************************************************************)
\* No addon is asked twice for the same id in one call, however the searches of
\* the folder's servers, of the remaining addons and of all of them follow one
\* another: each question is a request under the addon's rate limit.
AskedOnce == \A x \in Ids \X All : asked[x] <= 1

\* search_and_download reports a failure only after every configured addon and
\* every server of the folder was asked for every id the call has, and every
\* experimental addon for the title: no list that one search leaves out for
\* another is forgotten by both.
Failure == {"nothing", "filtered", "failed"}
GivesUpAfterEveryone ==
    pc = "idle" /\ result.outcome \in Failure =>
        /\ \A a \in Configured \cup cached :
              asked[<<"title", a>>] = 1 /\ (known => asked[<<"imdb", a>>] = 1)
        /\ \A a \in Experimental : asked[<<"title", a>>] = 1

\* A stream that makes its addon a suspect of serving other shows is never
\* tried itself: _stream_has_target_identity_mismatch and the filters of
\* select_quality_streams are written apart and must agree.
SuspectsNotTried == \A s \in ToSet(queue) : ~TargetIdentityMismatch(s, Wanted)

============================================================================
