------------------------- MODULE EpisodeSearch_proofs -------------------------
(***************************************************************************)
(* Proofs about EpisodeSearch, for every set of addons, whatever these     *)
(* answer, whatever streams the selection keeps, and any number of calls.  *)
(***************************************************************************)
EXTENDS EpisodeSearch, FiniteSetTheorems, TLAPS

----------------------------------------------------------------------------
(***************************************************************************)
(* Which addons a call has asked follows from the search it is in: the     *)
(* servers of the folder first, then what is left, and the same again for  *)
(* the next id.                                                            *)
(***************************************************************************)
ImdbFirst == <<"imdb", "title">>
TitleOnly == <<"title">>

LEMMA Strategies ==
    /\ Len(ImdbFirst) = 2 /\ Head(ImdbFirst) = "imdb" /\ ImdbFirst[2] = "title" /\ Tail(ImdbFirst) = TitleOnly
    /\ Len(TitleOnly) = 1 /\ Head(TitleOnly) = "title"
    /\ ImdbFirst # TitleOnly /\ ImdbFirst # <<>> /\ TitleOnly # <<>>
BY DEF ImdbFirst, TitleOnly

Everyone == Configured \cup cached

\* Those asked for the current id, when a search of scope where has been submitted.
Reach(where, servers) ==
    CASE where = "cached" -> servers
      [] where \in {"remaining", "full"} -> Configured \cup servers
      [] where = "experimental" -> Configured \cup servers \cup Experimental

\* Who was asked for id, once the call does the strategies that are left.
AskedFor(id, left, where, servers, imdb) ==
    IF left = ImdbFirst
    THEN IF id = "imdb" THEN Reach(where, servers) ELSE {}
    ELSE IF id = "imdb" THEN (IF imdb = TRUE THEN Configured \cup servers ELSE {})
    ELSE Reach(where, servers)

\* Exactly those of S were asked for id, once.
AskedOnly(count, id, S) ==
    \A a \in All : (a \in S => count[<<id, a>>] = 1) /\ (a \notin S => count[<<id, a>>] = 0)

Searching ==
    /\ ids \in {ImdbFirst, TitleOnly, <<>>}
    /\ ids = ImdbFirst => known = TRUE
    /\ scope \in Scopes
    /\ scope = "experimental" <=> ids = <<>>
    /\ scope = "full" => cached = {}
    /\ AskedOnly(asked, "imdb", AskedFor("imdb", ids, scope, cached, known))
    /\ AskedOnly(asked, "title", AskedFor("title", ids, scope, cached, known))

Progress ==
    /\ cached \subseteq Known /\ known \in BOOLEAN
    /\ asked \in [Ids \X All -> Nat]
    /\ pc \in {"idle", "asking", "trying"}
    /\ pc # "idle" => Searching
    /\ AskedOnce
    /\ GivesUpAfterEveryone

\* The questions of a search are added to those before.
LEMMA SubmitCounts ==
    ASSUME NEW where \in Scopes, NEW id \in Ids, NEW other \in Ids, id # other, NEW servers,
           NEW before \in [Ids \X All -> Nat], Submit(where, id, servers, before),
           NEW S, NEW T, AskedOnly(before, id, S), AskedOnly(before, other, T),
           Asks(where, servers) \cap S = {}
    PROVE  /\ asked' \in [Ids \X All -> Nat]
           /\ AskedOnly(asked', id, S \cup Asks(where, servers))
           /\ AskedOnly(asked', other, T)
           /\ pc' = "asking" /\ scope' = where
<1> DEFINE N == Asks(where, servers)
           more(x) == IF x[1] = id /\ x[2] \in N THEN 1 ELSE 0
<1>1. asked' = [x \in Ids \X All |-> before[x] + more(x)]
  BY DEF Submit
<1>2. \A x \in Ids \X All : before[x] \in Nat /\ before[x] + more(x) \in Nat
  OBVIOUS
<1>3. asked' \in [Ids \X All -> Nat]
  BY <1>1, <1>2
<1>4. \A i \in Ids, a \in All : asked'[<<i, a>>] = before[<<i, a>>] + more(<<i, a>>)
  BY <1>1
<1>5. \A a \in All : a \in N => asked'[<<id, a>>] = before[<<id, a>>] + 1
  BY <1>4
<1>6. \A a \in All : a \notin N => asked'[<<id, a>>] = before[<<id, a>>]
  BY <1>2, <1>4
<1>7. \A a \in All : asked'[<<other, a>>] = before[<<other, a>>]
  BY <1>2, <1>4
<1> HIDE DEF more, N
<1>8. N \cap S = {}
  BY DEF N
<1>9. AskedOnly(asked', id, S \cup N)
  <2> SUFFICES ASSUME NEW a \in All
               PROVE  /\ a \in S \cup N => asked'[<<id, a>>] = 1
                      /\ a \notin S \cup N => asked'[<<id, a>>] = 0
    BY DEF AskedOnly
  <2>1. /\ a \in S => before[<<id, a>>] = 1 /\ a \notin N
        /\ a \notin S => before[<<id, a>>] = 0
    BY <1>8 DEF AskedOnly
  <2> QED BY <1>5, <1>6, <2>1
<1>10. AskedOnly(asked', other, T)
  <2> SUFFICES ASSUME NEW a \in All
               PROVE  /\ a \in T => asked'[<<other, a>>] = 1
                      /\ a \notin T => asked'[<<other, a>>] = 0
    BY DEF AskedOnly
  <2>1. /\ a \in T => before[<<other, a>>] = 1
        /\ a \notin T => before[<<other, a>>] = 0
    BY DEF AskedOnly
  <2> QED BY <1>7, <2>1
<1> QED BY <1>3, <1>9, <1>10 DEF Submit, N

\* While a call searches, everything else follows from where it is.
LEMMA SearchingSuffices ==
    ASSUME Searching', cached' \subseteq Known, known' \in BOOLEAN,
           (asked \in [Ids \X All -> Nat])', pc' \in {"asking", "trying"}
    PROVE  Progress'
<1>1. AskedOnce'
  <2> SUFFICES ASSUME NEW i \in Ids, NEW a \in All PROVE asked'[<<i, a>>] <= 1
    BY DEF AskedOnce
  <2>1. asked'[<<i, a>>] \in {0, 1}
    BY DEF Searching, AskedOnly, Ids
  <2> QED BY <2>1
<1>2. GivesUpAfterEveryone'
  BY DEF GivesUpAfterEveryone
<1> QED BY <1>1, <1>2 DEF Progress

\* A step of a search asks nobody.
LEMMA SameSearch ==
    ASSUME Progress, pc # "idle", pc' \in {"asking", "trying"},
           UNCHANGED <<cached, known, ids, scope, asked>>
    PROVE  Progress'
<1>1. Searching'
  BY DEF Progress, Searching
<1> QED BY <1>1, SearchingSuffices DEF Progress

\* The end of a call that did not fail.
LEMMA Returned ==
    ASSUME Progress, NEW r, Return(r), UNCHANGED <<cached, known>>,
           r.outcome \notin Failure \/ GivesUpAfterEveryone'
    PROVE  Progress'
BY DEF Progress, Return, GivesUpAfterEveryone, AskedOnce

\* In its last search a call has asked everyone.
LEMMA EveryoneAsked ==
    ASSUME Progress, Searching, UNCHANGED <<asked, cached, known>>,
           \/ scope = "experimental"
           \/ scope \in {"remaining", "full"} /\ ids = TitleOnly /\ Experimental = {}
    PROVE  GivesUpAfterEveryone'
<1> USE DEF Known, All
<1>1. \A a \in Configured \cup cached \cup Experimental : asked[<<"title", a>>] = 1
  BY Strategies DEF Searching, Progress, AskedOnly, AskedFor, Reach
<1>2. known = TRUE => \A a \in Configured \cup cached : asked[<<"imdb", a>>] = 1
  BY Strategies DEF Searching, Progress, AskedOnly, AskedFor, Reach
<1>3. known \in BOOLEAN
  BY DEF Progress
<1> QED BY <1>1, <1>2, <1>3, Zenon DEF GivesUpAfterEveryone

\* The first search for an id.
LEMMA FirstSearch ==
    ASSUME NEW servers \in SUBSET Known, NEW imdb \in BOOLEAN, NEW id \in Ids,
           NEW before \in [Ids \X All -> Nat],
           Submit(FirstScope(servers), id, servers, before),
           cached' = servers, known' = imdb, ids' \in {ImdbFirst, TitleOnly},
           id = IF ids' = ImdbFirst THEN "imdb" ELSE "title",
           ids' = ImdbFirst => imdb = TRUE,
           AskedOnly(before, "title", {}),
           AskedOnly(before, "imdb",
                     IF id = "title" /\ imdb = TRUE THEN Configured \cup servers ELSE {})
    PROVE  Progress'
<1> DEFINE where == FirstScope(servers)
           old == IF id = "title" /\ imdb = TRUE THEN Configured \cup servers ELSE {}
<1>1. where \in {"cached", "full"} /\ where \in Scopes /\ (where = "full" => servers = {})
  BY DEF FirstScope, Scopes
<1>2. Asks(where, servers) = Reach(where, servers)
  BY <1>1 DEF Asks, Reach
<1>3. Submit(where, id, servers, before) /\ AskedOnly(before, "imdb", old)
  OBVIOUS
<1>4. id = "title" => old = IF imdb = TRUE THEN Configured \cup servers ELSE {}
  OBVIOUS
<1>5. id = "imdb" => old = {}
  OBVIOUS
<1> HIDE DEF where, old
<1>6. CASE id = "imdb"
  <2>1. /\ asked' \in [Ids \X All -> Nat]
        /\ AskedOnly(asked', "imdb", {} \cup Asks(where, servers))
        /\ AskedOnly(asked', "title", {})
        /\ pc' = "asking" /\ scope' = where
    <3>1. /\ "imdb" \in Ids /\ "title" \in Ids /\ "imdb" # "title"
          /\ Submit(where, "imdb", servers, before) /\ Asks(where, servers) \cap {} = {}
          /\ AskedOnly(before, "imdb", {}) /\ AskedOnly(before, "title", {})
      BY <1>3, <1>5, <1>6 DEF Ids
    <3> QED BY <1>1, <3>1, SubmitCounts
  <2>2. ids' = ImdbFirst /\ {} \cup Asks(where, servers) = Reach(where, servers)
    BY <1>2, <1>6
  <2>3. /\ AskedFor("imdb", ids', where, servers, imdb) = Reach(where, servers)
        /\ AskedFor("title", ids', where, servers, imdb) = {}
    BY <2>2 DEF AskedFor
  <2>4. Searching'
    BY <1>1, <2>1, <2>2, <2>3, Strategies DEF Searching
  <2> QED BY <2>1, <2>4, SearchingSuffices
<1>7. CASE id = "title"
  <2>1. /\ asked' \in [Ids \X All -> Nat]
        /\ AskedOnly(asked', "title", {} \cup Asks(where, servers))
        /\ AskedOnly(asked', "imdb", old)
        /\ pc' = "asking" /\ scope' = where
    <3>1. /\ "imdb" \in Ids /\ "title" \in Ids /\ "imdb" # "title"
          /\ Submit(where, "title", servers, before) /\ Asks(where, servers) \cap {} = {}
          /\ AskedOnly(before, "title", {}) /\ AskedOnly(before, "imdb", old)
      BY <1>3, <1>7 DEF Ids
    <3> QED BY <1>1, <3>1, SubmitCounts
  <2>2. ids' = TitleOnly /\ {} \cup Asks(where, servers) = Reach(where, servers)
    BY <1>2, <1>7
  <2>3. /\ AskedFor("title", ids', where, servers, imdb) = Reach(where, servers)
        /\ AskedFor("imdb", ids', where, servers, imdb) = old
    BY <1>4, <1>7, <2>2, Strategies DEF AskedFor
  <2>4. Searching'
    BY <1>1, <2>1, <2>2, <2>3, Strategies DEF Searching
  <2> QED BY <2>1, <2>4, SearchingSuffices
<1> QED BY <1>6, <1>7 DEF Ids

\* What follows a search that failed, or the end of the call.
LEMMA SearchFailedStep ==
    ASSUME Progress, pc # "idle", NEW r, SearchFailed(r), UNCHANGED <<cached, known>>
    PROVE  Progress'
<1>0. Searching /\ cached \subseteq Known /\ known \in BOOLEAN /\ asked \in [Ids \X All -> Nat]
  BY DEF Progress
<1>1. CASE scope = "cached"
  <2>1. Submit("remaining", Head(ids), cached, asked) /\ ids' = ids
    BY <1>1 DEF SearchFailed, Ask
  <2>2. ids \in {ImdbFirst, TitleOnly}
    BY <1>0, <1>1 DEF Searching
  <2>3. Head(ids) = IF ids = ImdbFirst THEN "imdb" ELSE "title"
    BY <2>2, Strategies
  <2>4. Asks("remaining", cached) \cap Reach("cached", cached) = {}
    BY DEF Asks, Reach
  <2>5. /\ Asks("remaining", cached) \cup Reach("cached", cached) = Configured \cup cached
        /\ Reach("remaining", cached) = Configured \cup cached
    BY DEF Asks, Reach
  <2> DEFINE other == IF ids = ImdbFirst THEN "title" ELSE "imdb"
             rest == AskedFor(other, ids, "cached", cached, known)
  <2>6. /\ AskedFor(Head(ids), ids, "cached", cached, known) = Reach("cached", cached)
        /\ AskedFor(Head(ids), ids, "remaining", cached, known) = Reach("remaining", cached)
        /\ AskedFor(other, ids, "remaining", cached, known) = rest
    BY <2>2, <2>3, Strategies DEF AskedFor
  <2>7. /\ AskedOnly(asked, Head(ids), Reach("cached", cached))
        /\ AskedOnly(asked, other, rest)
        /\ {Head(ids), other} = Ids /\ Head(ids) # other
    BY <1>0, <1>1, <2>2, <2>3, <2>6 DEF Searching, Ids
  <2> HIDE DEF other, rest
  <2>8. /\ asked' \in [Ids \X All -> Nat]
        /\ AskedOnly(asked', Head(ids), Reach("cached", cached) \cup Asks("remaining", cached))
        /\ AskedOnly(asked', other, rest)
        /\ pc' = "asking" /\ scope' = "remaining"
    BY <1>0, <2>1, <2>4, <2>7, SubmitCounts DEF Scopes
  <2>9. /\ AskedOnly(asked', "imdb", AskedFor("imdb", ids, "remaining", cached, known))
        /\ AskedOnly(asked', "title", AskedFor("title", ids, "remaining", cached, known))
    <3>1. /\ AskedOnly(asked', Head(ids), AskedFor(Head(ids), ids, "remaining", cached, known))
          /\ AskedOnly(asked', other, AskedFor(other, ids, "remaining", cached, known))
      <4>1. Reach("cached", cached) \cup Asks("remaining", cached) = Reach("remaining", cached)
        BY <2>5
      <4> QED BY <2>6, <2>8, <4>1
    <3> QED BY <2>3, <3>1 DEF other
  <2>10. Searching'
    BY <1>0, <1>1, <2>1, <2>2, <2>8, <2>9, Strategies DEF Searching, Scopes
  <2> QED BY <1>0, <2>8, <2>10, SearchingSuffices
<1>2. CASE scope \in {"remaining", "full"}
  <2>1. PICK v : NextStrategy(v)
    BY <1>2 DEF SearchFailed
  <2>2. ids \in {ImdbFirst, TitleOnly}
    BY <1>0, <1>2 DEF Searching
  <2>3. CASE ids = ImdbFirst
    <3>1. Submit(FirstScope(cached), "title", cached, asked) /\ ids' = TitleOnly
      BY <2>1, <2>3, Strategies DEF NextStrategy, Ask
    <3>2. known = TRUE
      BY <1>0, <2>3 DEF Searching
    <3>3. /\ AskedFor("title", ids, scope, cached, known) = {}
          /\ AskedFor("imdb", ids, scope, cached, known) = Configured \cup cached
      BY <1>2, <2>3 DEF AskedFor, Reach
    <3>4. /\ AskedOnly(asked, "title", {})
          /\ AskedOnly(asked, "imdb", Configured \cup cached)
      BY <1>0, <3>3 DEF Searching
    <3> QED BY <1>0, <3>1, <3>2, <3>4, FirstSearch, Strategies DEF Ids
  <2>4. CASE ids = TitleOnly /\ Experimental # {}
    <3>1. Submit("experimental", "title", cached, asked) /\ ids' = <<>>
      BY <2>1, <2>4, Strategies DEF NextStrategy, Ask
    <3> DEFINE rest == IF known = TRUE THEN Configured \cup cached ELSE {}
    <3>2. /\ AskedFor("title", ids, scope, cached, known) = Configured \cup cached
          /\ AskedFor("imdb", ids, scope, cached, known) = rest
          /\ AskedFor("title", <<>>, "experimental", cached, known)
                = Configured \cup cached \cup Experimental
          /\ AskedFor("imdb", <<>>, "experimental", cached, known) = rest
      BY <1>2, <2>4, Strategies DEF AskedFor, Reach
    <3>3. /\ AskedOnly(asked, "title", Configured \cup cached)
          /\ AskedOnly(asked, "imdb", rest)
      BY <1>0, <3>2 DEF Searching
    <3> HIDE DEF rest
    <3>4. Asks("experimental", cached) = Experimental /\ Experimental \cap (Configured \cup cached) = {}
      BY <1>0, AddonsAssumption DEF Known, Asks
    <3>5. /\ asked' \in [Ids \X All -> Nat]
          /\ AskedOnly(asked', "title", Configured \cup cached \cup Experimental)
          /\ AskedOnly(asked', "imdb", rest)
          /\ pc' = "asking" /\ scope' = "experimental"
      BY <1>0, <3>1, <3>3, <3>4, SubmitCounts DEF Scopes, Ids
    <3>6. Searching'
      BY <1>0, <3>1, <3>2, <3>5, Strategies DEF Searching, Scopes
    <3> QED BY <1>0, <3>5, <3>6, SearchingSuffices
  <2>5. CASE ids = TitleOnly /\ Experimental = {}
    <3>1. Return(v)
      BY <2>1, <2>5, Strategies DEF NextStrategy
    <3>2. GivesUpAfterEveryone'
      BY <1>0, <1>2, <2>5, <3>1, EveryoneAsked DEF Return
    <3> QED BY <3>1, <3>2, Returned
  <2> QED BY <2>2, <2>3, <2>4, <2>5
<1>3. CASE scope = "experimental"
  <2>1. Return(result)
    BY <1>3 DEF SearchFailed, KeepVerdict
  <2>2. GivesUpAfterEveryone'
    BY <1>0, <1>3, <2>1, EveryoneAsked DEF Return
  <2> QED BY <2>1, <2>2, Returned
<1> QED BY <1>0, <1>1, <1>2, <1>3 DEF Searching, Scopes

LEMMA ProgressStep == Progress /\ [Next]_vars => Progress'
<1> SUFFICES ASSUME Progress, [Next]_vars PROVE Progress'
  OBVIOUS
<1>1. CASE Call
  <2>1. PICK servers \in SUBSET Known, imdb \in BOOLEAN :
           LET first == IF imdb THEN "imdb" ELSE "title" IN
           /\ cached' = servers /\ known' = imdb
           /\ ids' = IF imdb THEN <<"imdb", "title">> ELSE <<"title">>
           /\ Submit(FirstScope(servers), first, servers, [x \in Ids \X All |-> 0])
    BY <1>1 DEF Call
  <2> DEFINE first == IF imdb THEN "imdb" ELSE "title"
             zero == [x \in Ids \X All |-> 0]
  <2>2. /\ zero \in [Ids \X All -> Nat] /\ first \in Ids
        /\ AskedOnly(zero, "title", {}) /\ AskedOnly(zero, "imdb", {})
    BY DEF Ids, AskedOnly
  <2>3. ids' = IF imdb THEN ImdbFirst ELSE TitleOnly
    BY <2>1 DEF ImdbFirst, TitleOnly
  <2>4. /\ ids' \in {ImdbFirst, TitleOnly} /\ (ids' = ImdbFirst => imdb = TRUE)
        /\ first = (IF ids' = ImdbFirst THEN "imdb" ELSE "title")
        /\ ~(first = "title" /\ imdb = TRUE)
    BY <2>3, Strategies
  <2>5. Submit(FirstScope(servers), first, servers, zero)
    BY <2>1
  <2> HIDE DEF first, zero
  <2> QED BY <2>1, <2>2, <2>4, <2>5, FirstSearch
<1>2. CASE \/ \E a \in All, offer \in Offers : Answer(a, offer)
           \/ LeaveSearch \/ StartTrying \/ SkipStream \/ InvalidVideo \/ TransientError
  BY <1>2, SameSearch
  DEF Answer, LeaveSearch, StartTrying, SkipStream, InvalidVideo, TransientError, Attempt,
      asking
<1>3. CASE NoStreams \/ AllFiltered \/ Exhausted
  BY <1>3, SearchFailedStep DEF NoStreams, AllFiltered, Exhausted
<1>4. CASE Downloaded \/ Cancelled \/ KeyboardInterrupt
  BY <1>4, Returned DEF Downloaded, Cancelled, KeyboardInterrupt, CancelledResult, Failure
<1>5. CASE RequestShutdown \/ ClearShutdown \/ UNCHANGED vars
  BY <1>5 DEF RequestShutdown, ClearShutdown, vars, asking, Progress, Searching, AskedOnce,
              GivesUpAfterEveryone
<1> QED BY <1>1, <1>2, <1>3, <1>4, <1>5 DEF Next

LEMMA ProgressInvariant == Spec => []Progress
<1>1. Init => Progress
  <2> SUFFICES ASSUME Init PROVE Progress
    OBVIOUS
  <2>1. AskedOnce /\ asked \in [Ids \X All -> Nat]
    BY DEF Init, AskedOnce
  <2>2. GivesUpAfterEveryone
    BY DEF Init, GivesUpAfterEveryone, NoResult, Failure
  <2>3. cached \subseteq Known /\ known \in BOOLEAN /\ pc = "idle"
    BY Zenon DEF Init
  <2> QED BY <2>1, <2>2, <2>3 DEF Progress
<1> QED BY <1>1, ProgressStep, PTL DEF Spec

\* No call puts one question to an addon twice, for any addons and any answers.
THEOREM AddonsAskedOnce == Spec => []AskedOnce
<1>1. Progress => AskedOnce
  BY DEF Progress
<1> QED BY <1>1, ProgressInvariant, PTL

\* A call that reports a failure has asked every addon for every id, for any addons
\* and whatever streams came, were filtered out, or could not be downloaded.
THEOREM EveryoneBeforeGivingUp == Spec => []GivesUpAfterEveryone
<1>1. Progress => GivesUpAfterEveryone
  BY DEF Progress
<1> QED BY <1>1, ProgressInvariant, PTL

----------------------------------------------------------------------------

(***************************************************************************)
(* Arranged lists every kept place exactly once, in the order it is given: *)
(* the places before one are fewer for an earlier place, so each number    *)
(* below the size of the set belongs to exactly one.                       *)
(***************************************************************************)
Orders(R, S) ==
    /\ \A i \in S : <<i, i>> \notin R
    /\ \A i, j \in S : i # j => <<i, j>> \in R \/ <<j, i>> \in R
    /\ \A i, j, k \in S : <<i, j>> \in R /\ <<j, k>> \in R => <<i, k>> \in R

Before(i, S, R) == {j \in S : <<j, i>> \in R}
PlaceOf(k, S, R) == CHOOSE i \in S : Cardinality(Before(i, S, R)) = k - 1

LEMMA FewerBefore ==
    ASSUME NEW S, IsFiniteSet(S), NEW R, Orders(R, S),
           NEW i \in S, NEW j \in S, <<i, j>> \in R
    PROVE  Cardinality(Before(i, S, R)) < Cardinality(Before(j, S, R))
<1>1. Before(i, S, R) \subseteq Before(j, S, R) /\ i \in Before(j, S, R) /\ i \notin Before(i, S, R)
  BY DEF Before, Orders
<1>2. IsFiniteSet(Before(j, S, R))
  BY FS_Subset DEF Before
<1>3. /\ Cardinality(Before(i, S, R)) <= Cardinality(Before(j, S, R))
      /\ Cardinality(Before(j, S, R)) # Cardinality(Before(i, S, R))
  BY <1>1, <1>2, FS_Subset
<1>4. Cardinality(Before(i, S, R)) \in Nat /\ Cardinality(Before(j, S, R)) \in Nat
  BY <1>1, <1>2, FS_Subset, FS_CardinalityType
<1> QED BY <1>3, <1>4

LEMMA RankBounds ==
    ASSUME NEW S, IsFiniteSet(S), NEW R, Orders(R, S), NEW i \in S
    PROVE  Cardinality(Before(i, S, R)) \in 0 .. (Cardinality(S) - 1)
<1>1. Before(i, S, R) \subseteq S /\ Before(i, S, R) # S
  BY DEF Before, Orders
<1>2. /\ Cardinality(Before(i, S, R)) \in Nat /\ Cardinality(S) \in Nat
      /\ Cardinality(Before(i, S, R)) <= Cardinality(S)
      /\ Cardinality(Before(i, S, R)) # Cardinality(S)
  BY <1>1, FS_Subset, FS_CardinalityType
<1> QED BY <1>2

LEMMA EveryPlaceTaken ==
    ASSUME NEW S, IsFiniteSet(S), NEW R, Orders(R, S), NEW k \in 1 .. Cardinality(S)
    PROVE  /\ PlaceOf(k, S, R) \in S
           /\ Cardinality(Before(PlaceOf(k, S, R), S, R)) = k - 1
<1> DEFINE n == Cardinality(S)
           T == 0 .. (n - 1)
           rank == [i \in S |-> Cardinality(Before(i, S, R))]
<1>1. n \in Nat
  BY FS_CardinalityType
<1>2. IsFiniteSet(T) /\ Cardinality(T) = n
  <2> HIDE DEF n
  <2>1. 0 \in Int /\ n - 1 \in Int
    BY <1>1
  <2>2. IsFiniteSet(T) /\ Cardinality(T) = IF 0 > n - 1 THEN 0 ELSE n - 1 - 0 + 1
    BY <2>1, FS_Interval
  <2> QED BY <1>1, <2>2
<1>3. rank \in Injection(S, T)
  <2>1. rank \in [S -> T]
    BY RankBounds
  <2>2. ASSUME NEW i \in S, NEW j \in S, i # j PROVE rank[i] # rank[j]
    <3>1. <<i, j>> \in R \/ <<j, i>> \in R
      BY <2>2 DEF Orders
    <3>2. rank[i] < rank[j] \/ rank[j] < rank[i]
      BY <3>1, FewerBefore
    <3>3. rank[i] \in Nat /\ rank[j] \in Nat
      BY RankBounds
    <3> QED BY <3>2, <3>3
  <2>3. DOMAIN rank = S
    OBVIOUS
  <2> HIDE DEF rank
  <2> QED BY <2>1, <2>2, <2>3 DEF Injection, IsInjective
<1>4. rank \in Surjection(S, T)
  <2> HIDE DEF rank, T, n
  <2> QED BY <1>2, <1>3, FS_Injection DEF n
<1>5. PICK i \in S : rank[i] = k - 1
  <2>1. k - 1 \in T
    BY <1>1
  <2> QED BY <1>4, <2>1 DEF Surjection
<1>6. Cardinality(Before(i, S, R)) = k - 1
  BY <1>5
<1> HIDE DEF rank
<1> QED BY <1>6 DEF PlaceOf

LEMMA ArrangedPlaces ==
    ASSUME NEW list, NEW S, NEW R
    PROVE  Arranged(list, S, R) = [k \in 1 .. Cardinality(S) |-> list[PlaceOf(k, S, R)]]
BY DEF Arranged, PlaceOf, Before

\* Nothing is left out and nothing repeated.
LEMMA ArrangedOnce ==
    ASSUME NEW list, NEW S, IsFiniteSet(S), NEW R, Orders(R, S), NEW i \in S
    PROVE  \E k \in 1 .. Cardinality(S) :
              /\ PlaceOf(k, S, R) = i
              /\ \A m \in 1 .. Cardinality(S) : PlaceOf(m, S, R) = i => m = k
<1> DEFINE k == Cardinality(Before(i, S, R)) + 1
<1>1. k \in 1 .. Cardinality(S) /\ k - 1 = Cardinality(Before(i, S, R))
  BY RankBounds, FS_CardinalityType
<1>2. \A j \in S : Cardinality(Before(j, S, R)) = k - 1 => j = i
  <2> SUFFICES ASSUME NEW j \in S, j # i, Cardinality(Before(j, S, R)) = k - 1 PROVE FALSE
    OBVIOUS
  <2>1. <<i, j>> \in R \/ <<j, i>> \in R
    BY DEF Orders
  <2>2. /\ Cardinality(Before(i, S, R)) \in Nat /\ Cardinality(Before(j, S, R)) \in Nat
        /\ \/ Cardinality(Before(i, S, R)) < Cardinality(Before(j, S, R))
           \/ Cardinality(Before(j, S, R)) < Cardinality(Before(i, S, R))
    BY <2>1, FewerBefore, RankBounds
  <2> QED BY <2>2
<1> HIDE DEF k
<1>3. PlaceOf(k, S, R) = i
  BY <1>1, <1>2, EveryPlaceTaken
<1>4. ASSUME NEW m \in 1 .. Cardinality(S), PlaceOf(m, S, R) = i PROVE m = k
  <2>1. Cardinality(Before(i, S, R)) = m - 1
    BY <1>4, EveryPlaceTaken
  <2> QED BY <1>1, <2>1
<1> QED BY <1>1, <1>3, <1>4

\* Earlier in the list, earlier in the result.
LEMMA ArrangedInOrder ==
    ASSUME NEW S, IsFiniteSet(S), NEW R, Orders(R, S),
           NEW k \in 1 .. Cardinality(S), NEW m \in 1 .. Cardinality(S), k < m
    PROVE  <<PlaceOf(k, S, R), PlaceOf(m, S, R)>> \in R
<1> DEFINE i == PlaceOf(k, S, R)
           j == PlaceOf(m, S, R)
<1>1. /\ i \in S /\ Cardinality(Before(i, S, R)) = k - 1
      /\ j \in S /\ Cardinality(Before(j, S, R)) = m - 1
  BY EveryPlaceTaken
<1> HIDE DEF i, j
<1>2. i # j
  BY <1>1
<1>3. <<j, i>> \notin R
  <2>1. ASSUME <<j, i>> \in R PROVE FALSE
    <3>1. m - 1 < k - 1
      BY <1>1, <2>1, FewerBefore
    <3> QED BY <3>1
  <2> QED BY <2>1
<1>4. <<i, j>> \in R
  BY <1>1, <1>2, <1>3 DEF Orders
<1> QED BY <1>4 DEF i, j

LEMMA ArrangedType ==
    ASSUME NEW X, NEW list \in Seq(X), NEW S \in SUBSET DOMAIN list, NEW R, Orders(R, S)
    PROVE  /\ IsFiniteSet(S)
           /\ Arranged(list, S, R) \in Seq(X)
           /\ Len(Arranged(list, S, R)) = Cardinality(S)
           /\ \A k \in DOMAIN Arranged(list, S, R) : \E i \in S : Arranged(list, S, R)[k] = list[i]
<1>1. IsFiniteSet(S) /\ Cardinality(S) \in Nat
  <2>1. DOMAIN list = 1 .. Len(list) /\ Len(list) \in Nat
    OBVIOUS
  <2>2. IsFiniteSet(DOMAIN list)
    BY <2>1, FS_Interval
  <2> QED BY <2>2, FS_Subset, FS_CardinalityType
<1>2. \A k \in 1 .. Cardinality(S) : PlaceOf(k, S, R) \in S
  BY <1>1, EveryPlaceTaken
<1>3. \A i \in S : list[i] \in X
  OBVIOUS
<1>4. Arranged(list, S, R) = [k \in 1 .. Cardinality(S) |-> list[PlaceOf(k, S, R)]]
  BY ArrangedPlaces
<1> DEFINE n == Cardinality(S)
           out == [k \in 1 .. n |-> list[PlaceOf(k, S, R)]]
<1>5. \A k \in 1 .. n : out[k] \in X /\ \E i \in S : out[k] = list[i]
  BY <1>2, <1>3
<1>6. DOMAIN out = 1 .. n
  OBVIOUS
<1>7. out \in [1 .. n -> X]
  BY <1>5
<1>8. out \in Seq(X) /\ Len(out) = n
  <2> HIDE DEF out, n
  <2> QED BY <1>1, <1>6, <1>7 DEF n
<1> QED BY <1>1, <1>4, <1>5, <1>6, <1>8

LEMMA EarlierOrders ==
    ASSUME NEW S \in SUBSET Nat
    PROVE  Orders(Earlier(S), S)
BY DEF Orders, Earlier
----------------------------------------------------------------------------

(***************************************************************************)
(* The streams that are tried.                                             *)
(***************************************************************************)
Keys5 == [1 .. 5 -> Int]

LEMMA LexLessOrder ==
    /\ \A a \in Keys5 : ~LexLess(a, a)
    /\ \A a, b \in Keys5 : a[5] # b[5] => LexLess(a, b) \/ LexLess(b, a)
    /\ \A a, b, c \in Keys5 : LexLess(a, b) /\ LexLess(b, c) => LexLess(a, c)
<1>1. ASSUME NEW a \in Keys5, NEW b \in Keys5
      PROVE  LexLess(a, b) <=>
                \/ a[1] < b[1]
                \/ a[1] = b[1] /\ a[2] < b[2]
                \/ a[1] = b[1] /\ a[2] = b[2] /\ a[3] < b[3]
                \/ a[1] = b[1] /\ a[2] = b[2] /\ a[3] = b[3] /\ a[4] < b[4]
                \/ a[1] = b[1] /\ a[2] = b[2] /\ a[3] = b[3] /\ a[4] = b[4] /\ a[5] < b[5]
  BY DEF LexLess
<1>2. \A a \in Keys5 : a[1] \in Int /\ a[2] \in Int /\ a[3] \in Int /\ a[4] \in Int /\ a[5] \in Int
  BY DEF Keys5
<1>3. \A a \in Keys5 : ~LexLess(a, a)
  BY <1>1, <1>2
<1>4. \A a, b \in Keys5 : a[5] # b[5] => LexLess(a, b) \/ LexLess(b, a)
  BY <1>1, <1>2
<1>5. ASSUME NEW a \in Keys5, NEW b \in Keys5, NEW c \in Keys5, LexLess(a, b), LexLess(b, c)
      PROVE  LexLess(a, c)
  BY <1>1, <1>2, <1>5
<1> QED BY <1>3, <1>4, <1>5

LEMMA QualityPriorityType ==
    ASSUME NEW q \in QualitySettings
    PROVE  QualityPriority(q) \in Seq(Qualities \cup {NoQuality})
<1> DEFINE X == Qualities \cup {NoQuality}
           scores == <<q.preferred>> \o q.fallbacks
           new == {i \in DOMAIN scores : /\ scores[i] # NoQuality
                                         /\ \A j \in 1 .. (i - 1) : scores[j] # scores[i]}
<1>1. scores \in Seq(X)
  <2>1. q.preferred \in X /\ q.fallbacks \in Seq(X)
    BY DEF QualitySettings
  <2> HIDE DEF X
  <2>2. <<q.preferred>> \in Seq(X)
    BY <2>1
  <2> QED BY <2>1, <2>2
<1>2. QualityPriority(q) = Arranged(scores, new, Earlier(new))
  BY DEF QualityPriority
<1>3. new \in SUBSET DOMAIN scores
  OBVIOUS
<1> HIDE DEF X, scores, new
<1>4. Orders(Earlier(new), new)
  <2>1. new \in SUBSET Nat
    BY <1>1, <1>3
  <2> QED BY <2>1, EarlierOrders
<1>5. Arranged(scores, new, Earlier(new)) \in Seq(X)
  BY <1>1, <1>3, <1>4, ArrangedType
<1> QED BY <1>2, <1>5 DEF X

LEMMA FilterEnglishType ==
    ASSUME NEW X, NEW streams \in Seq(X)
    PROVE  FilterEnglish(streams) \in Seq(X)
<1> DEFINE kept == {i \in DOMAIN streams : HasEnglishSubtitle(streams[i])}
<1>1. FilterEnglish(streams) = Arranged(streams, kept, Earlier(kept))
  BY DEF FilterEnglish
<1>2. kept \in SUBSET DOMAIN streams /\ kept \in SUBSET Nat
  OBVIOUS
<1> HIDE DEF kept
<1>3. Orders(Earlier(kept), kept)
  BY <1>2, EarlierOrders
<1>4. Arranged(streams, kept, Earlier(kept)) \in Seq(X)
  BY <1>2, <1>3, ArrangedType
<1> QED BY <1>1, <1>4

LEMMA SortKeyType ==
    ASSUME NEW Addons, NEW streams \in Seq(Streams(Addons)), NEW priority \in Seq(Qualities \cup {NoQuality}),
           NEW i \in DOMAIN streams
    PROVE  SortKey(streams, priority, i) \in Keys5 /\ SortKey(streams, priority, i)[5] = i
<1> DEFINE s == streams[i]
<1>1. s \in Streams(Addons)
  OBVIOUS
<1>2. /\ s.quality \in Qualities \cup {NoQuality} /\ s.reliability \in {0, 10, 30}
      /\ s.seeders \in Nat
  BY <1>1 DEF Streams
<1> HIDE DEF s
<1>3. s.quality \in Int /\ -s.quality \in Int /\ -s.reliability \in Int /\ -s.seeders \in Int
  BY <1>2 DEF Qualities, NoQuality
<1>4. Len(priority) \in Nat
  OBVIOUS
<1>5. PriorityRank(s, priority) \in Int
  <2>1. ASSUME \E j \in DOMAIN priority : priority[j] = s.quality
        PROVE  (CHOOSE j \in DOMAIN priority : priority[j] = s.quality) \in Nat
    <3>1. (CHOOSE j \in DOMAIN priority : priority[j] = s.quality) \in DOMAIN priority
      BY <2>1
    <3> QED BY <3>1
  <2> QED BY <1>4, <2>1 DEF PriorityRank
<1> DEFINE direct == IF s.link = "none" THEN 0 ELSE -1
           one == IF priority = <<>> THEN direct ELSE PriorityRank(s, priority)
           two == IF priority = <<>> THEN -s.quality ELSE direct
<1>6. one \in Int /\ two \in Int /\ i \in Int
  BY <1>3, <1>5
<1>7. SortKey(streams, priority, i) = <<one, two, -s.reliability, -s.seeders, i>>
  BY DEF SortKey, s
<1> HIDE DEF one, two
<1> QED BY <1>3, <1>6, <1>7 DEF Keys5

LEMMA BetterOrders ==
    ASSUME NEW Addons, NEW streams \in Seq(Streams(Addons)), NEW priority \in Seq(Qualities \cup {NoQuality}),
           NEW S \in SUBSET DOMAIN streams
    PROVE  Orders(Better(streams, S, priority), S)
<1> DEFINE key(i) == SortKey(streams, priority, i)
<1>1. \A i \in S : key(i) \in Keys5 /\ key(i)[5] = i
  BY SortKeyType
<1>2. \A i, j \in S : <<i, j>> \in Better(streams, S, priority) <=> LexLess(key(i), key(j))
  BY DEF Better
<1> HIDE DEF key
<1> QED BY <1>1, <1>2, LexLessOrder DEF Orders

\* The streams tried are of those allowed, each once, and the best of them first:
\* at most twenty, and none that is left out comes before one that is tried.
THEOREM BestAreTried ==
    ASSUME NEW Addons, NEW streams \in Seq(Streams(Addons)), NEW t, NEW preferred,
           NEW q \in QualitySettings
    PROVE  LET good == Allowed(streams, t, preferred, q)
               tried == SelectStreams(streams, t, preferred, q)
               key(i) == SortKey(streams, QualityPriority(q), i)
           IN  /\ tried \in Seq(Streams(Addons))
               /\ Len(tried) = IF Cardinality(good) < MaxTried THEN Cardinality(good) ELSE MaxTried
               /\ \E place \in Injection(1 .. Len(tried), good) :
                     \A k \in 1 .. Len(tried) :
                        /\ tried[k] = streams[place[k]]
                        /\ \A i \in good \ {place[m] : m \in 1 .. k} : LexLess(key(place[k]), key(i))
<1> DEFINE good == Allowed(streams, t, preferred, q)
           tried == SelectStreams(streams, t, preferred, q)
           priority == QualityPriority(q)
           key(i) == SortKey(streams, priority, i)
           R == Better(streams, good, priority)
           sorted == Arranged(streams, good, R)
           n == IF Len(sorted) < MaxTried THEN Len(sorted) ELSE MaxTried
           place == [k \in 1 .. n |-> PlaceOf(k, good, R)]
<1>1. good \in SUBSET DOMAIN streams
  BY DEF Allowed
<1>2. priority \in Seq(Qualities \cup {NoQuality})
  BY QualityPriorityType
<1>3. tried = SubSeq(sorted, 1, n)
  BY DEF SelectStreams
<1>4. \A i, j \in good : <<i, j>> \in R <=> LexLess(key(i), key(j))
  BY DEF Better
<1> HIDE DEF good, tried, priority, key
<1>5. Orders(R, good)
  BY <1>1, <1>2, BetterOrders
<1> HIDE DEF R
<1>6. IsFiniteSet(good) /\ sorted \in Seq(Streams(Addons)) /\ Len(sorted) = Cardinality(good)
  BY <1>1, <1>5, ArrangedType
<1>7. sorted = [k \in 1 .. Cardinality(good) |-> streams[PlaceOf(k, good, R)]]
  BY ArrangedPlaces
<1>8. Cardinality(good) \in Nat
  BY <1>6, FS_CardinalityType
<1> HIDE DEF sorted
<1>9. n \in 0 .. Len(sorted) /\ 1 .. n \subseteq 1 .. Cardinality(good)
  BY <1>6, <1>8 DEF MaxTried
<1>10. tried \in Seq(Streams(Addons)) /\ Len(tried) = n /\ \A k \in 1 .. n : tried[k] = sorted[k]
  <2> HIDE DEF n
  <2> QED BY <1>3, <1>6, <1>9
<1>11. n = IF Cardinality(good) < MaxTried THEN Cardinality(good) ELSE MaxTried
  BY <1>6
<1> HIDE DEF n
<1>12. \A k \in 1 .. n : place[k] \in good /\ tried[k] = streams[place[k]]
  BY <1>5, <1>6, <1>7, <1>9, <1>10, EveryPlaceTaken
<1>13. \A k, m \in 1 .. n : k < m => <<place[k], place[m]>> \in R
  BY <1>5, <1>6, <1>9, ArrangedInOrder
<1>14. place \in Injection(1 .. n, good)
  <2>1. place \in [1 .. n -> good] /\ DOMAIN place = 1 .. n
    BY <1>12
  <2>2. ASSUME NEW k \in 1 .. n, NEW m \in 1 .. n, place[k] = place[m] PROVE k = m
    <3> HIDE DEF place
    <3>1. ~(k < m) /\ ~(m < k)
      BY <1>5, <1>12, <1>13, <2>2 DEF Orders
    <3> QED BY <1>9, <3>1
  <2> HIDE DEF place
  <2> QED BY <2>1, <2>2 DEF Injection, IsInjective
<1>15. ASSUME NEW k \in 1 .. n, NEW i \in good \ {place[m] : m \in 1 .. k}
       PROVE  LexLess(key(place[k]), key(i))
  <2>1. PICK m \in 1 .. Cardinality(good) : PlaceOf(m, good, R) = i
    BY <1>5, <1>6, ArrangedOnce
  <2>2. k < m
    <3>1. ~(m \in 1 .. k)
      <4>1. m \in 1 .. k => m \in 1 .. n
        BY <1>9
      <4> QED BY <2>1, <4>1
    <3> QED BY <1>8, <1>9, <3>1
  <2>3. <<place[k], i>> \in R
    BY <1>5, <1>6, <1>9, <2>1, <2>2, ArrangedInOrder
  <2> HIDE DEF place
  <2> QED BY <1>4, <1>12, <2>3
<1> HIDE DEF place
<1>16. \E p \in Injection(1 .. n, good) :
          \A k \in 1 .. n : /\ tried[k] = streams[p[k]]
                            /\ \A i \in good \ {p[m] : m \in 1 .. k} : LexLess(key(p[k]), key(i))
  BY <1>12, <1>14, <1>15
<1> QED BY <1>10, <1>11, <1>16 DEF good, tried, priority, key
----------------------------------------------------------------------------
(***************************************************************************)
(* The types, and what is tried.                                           *)
(***************************************************************************)
LEMMA ConsideredType ==
    ASSUME found \in Seq(Streams(All))
    PROVE  Considered \in Seq(Streams(All))
BY FilterEnglishType DEF Considered

LEMMA SelectedType ==
    ASSUME found \in Seq(Streams(All))
    PROVE  /\ Selected \in Seq(Streams(All))
           /\ \A s \in ToSet(Selected) : ~TargetIdentityMismatch(s, Wanted)
<1> DEFINE good == Allowed(Considered, Wanted, Preferred, Quality)
<1>1. Considered \in Seq(Streams(All)) /\ Quality \in QualitySettings
  BY ConsideredType, QualityAssumption
<1>2. /\ Selected \in Seq(Streams(All))
      /\ \E place \in Injection(1 .. Len(Selected), good) :
            \A k \in 1 .. Len(Selected) : Selected[k] = Considered[place[k]]
  BY <1>1, BestAreTried DEF Selected
<1>3. \A i \in good : ~TargetIdentityMismatch(Considered[i], Wanted)
  BY DEF Allowed, OnTarget, TargetIdentityMismatch
<1> HIDE DEF good
<1>4. ASSUME NEW k \in 1 .. Len(Selected) PROVE ~TargetIdentityMismatch(Selected[k], Wanted)
  <2>1. PICK place \in Injection(1 .. Len(Selected), good) :
            \A m \in 1 .. Len(Selected) : Selected[m] = Considered[place[m]]
    BY <1>2
  <2>2. place[k] \in good
    BY <2>1 DEF Injection
  <2> QED BY <1>3, <2>1, <2>2
<1>5. DOMAIN Selected = 1 .. Len(Selected)
  BY <1>2
<1> QED BY <1>2, <1>4, <1>5 DEF ToSet

LEMMA BlamedType ==
    ASSUME found \in Seq(Streams(All))
    PROVE  Blamed \in SUBSET All
<1>1. \A s \in ToSet(Considered) : s \in Streams(All)
  BY ConsideredType DEF ToSet
<1> QED BY <1>1 DEF Blamed, TargetMismatchAddons, Streams

LEMMA StampedType ==
    ASSUME NEW offer \in Offers, NEW a \in All
    PROVE  Stamped(offer, a) \in Seq(Streams(All))
<1>1. offer \in Seq(Streams(All)) /\ DOMAIN offer = 1 .. Len(offer) /\ Len(offer) \in Nat
  BY OffersAssumption
<1>2. ASSUME NEW s \in Streams(All) PROVE [s EXCEPT !.addon = a] \in Streams(All)
  BY DEF Streams
<1>3. \A i \in DOMAIN offer : [offer[i] EXCEPT !.addon = a] \in Streams(All)
  BY <1>1, <1>2
<1> QED BY <1>1, <1>3 DEF Stamped

\* The types, and the streams that are left to try.
Sound == TypeOK /\ SuspectsNotTried

LEMMA ResultTypes ==
    /\ NoResult \in Results /\ NothingFound \in Results /\ CancelledResult \in Results
    /\ \A b \in BOOLEAN : [NothingFound EXCEPT !.permanent = b] \in Results
    /\ \A b \in BOOLEAN, blamed \in SUBSET All, outcome \in {"filtered", "failed"} :
          [outcome |-> outcome, permanent |-> b, disabled |-> blamed] \in Results
    /\ [outcome |-> "success", permanent |-> FALSE, disabled |-> {}] \in Results
    /\ Zero \in Counters
BY DEF NoResult, NothingFound, CancelledResult, Results, Zero, Counters

LEMMA SubmitTypes ==
    ASSUME NEW where \in Scopes, NEW id, NEW servers \in SUBSET Known,
           NEW before \in [Ids \X All -> Nat], Submit(where, id, servers, before)
    PROVE  /\ scope' \in Scopes /\ pc' = "asking" /\ waiting' \in SUBSET All
           /\ found' = <<>> /\ asked' \in [Ids \X All -> Nat]
<1>1. Asks(where, servers) \in SUBSET All
  BY DEF Asks, Scopes, All, Known
<1>2. asked' \in [Ids \X All -> Nat]
  BY DEF Submit
<1> QED BY <1>1, <1>2 DEF Submit

LEMMA ReturnTypes ==
    ASSUME TypeOK, NEW r \in Results, Return(r)
    PROVE  /\ pc' = "idle" /\ result' \in Results /\ earlier' \in Results
           /\ waiting' \in SUBSET All /\ ids' \in Seq(Ids) /\ found' \in Seq(Streams(All))
           /\ scope' \in Scopes /\ asked' \in [Ids \X All -> Nat]
BY ResultTypes DEF Return, TypeOK

LEMMA SearchFailedTypes ==
    ASSUME TypeOK, NEW r \in Results, SearchFailed(r)
    PROVE  /\ pc' \in {"idle", "asking"} /\ result' \in Results /\ earlier' \in Results
           /\ waiting' \in SUBSET All /\ ids' \in Seq(Ids) /\ found' \in Seq(Streams(All))
           /\ scope' \in Scopes /\ asked' \in [Ids \X All -> Nat]
<1>1. /\ cached \in SUBSET Known /\ asked \in [Ids \X All -> Nat] /\ ids \in Seq(Ids)
      /\ earlier \in Results /\ result \in Results /\ scope \in Scopes
      /\ <<>> \in Seq(Ids) /\ <<>> \in Seq(Streams(All))
  BY DEF TypeOK
<1>2. CASE scope = "cached"
  <2>1. Submit("remaining", Head(ids), cached, asked) /\ earlier' = r /\ ids' = ids /\ result' = result
    BY <1>2 DEF SearchFailed, Ask
  <2>2. /\ scope' \in Scopes /\ pc' = "asking" /\ waiting' \in SUBSET All
        /\ found' = <<>> /\ asked' \in [Ids \X All -> Nat]
    BY <1>1, <2>1, SubmitTypes DEF Scopes
  <2> QED BY <1>1, <2>1, <2>2
<1>3. CASE scope \in {"remaining", "full"}
  <2>1. PICK v \in Results : NextStrategy(v)
    BY <1>1, <1>3, ResultTypes DEF SearchFailed
  <2>2. CASE Len(ids) > 1
    <3>1. Submit(FirstScope(cached), ids[2], cached, asked) /\ ids' = Tail(ids) /\ result' = v
          /\ earlier' = NoResult
      BY <2>1, <2>2 DEF NextStrategy, Ask
    <3>2. Tail(ids) \in Seq(Ids)
      BY <1>1, <2>2
    <3>3. FirstScope(cached) \in Scopes
      BY DEF FirstScope, Scopes
    <3>4. /\ scope' \in Scopes /\ pc' = "asking" /\ waiting' \in SUBSET All
          /\ found' = <<>> /\ asked' \in [Ids \X All -> Nat]
      BY <1>1, <3>1, <3>3, SubmitTypes
    <3> QED BY <1>1, <3>1, <3>2, <3>4, ResultTypes
  <2>3. CASE ~(Len(ids) > 1) /\ Experimental # {}
    <3>1. Submit("experimental", "title", cached, asked) /\ ids' = <<>> /\ result' = v
          /\ earlier' = NoResult
      BY <2>1, <2>3 DEF NextStrategy, Ask
    <3>2. /\ scope' \in Scopes /\ pc' = "asking" /\ waiting' \in SUBSET All
          /\ found' = <<>> /\ asked' \in [Ids \X All -> Nat]
      BY <1>1, <3>1, SubmitTypes DEF Scopes
    <3> QED BY <1>1, <3>1, <3>2, ResultTypes
  <2>4. CASE ~(Len(ids) > 1) /\ Experimental = {}
    <3>1. Return(v)
      BY <2>1, <2>4 DEF NextStrategy
    <3> QED BY <3>1, ReturnTypes
  <2> QED BY <2>2, <2>3, <2>4
<1>4. CASE scope = "experimental"
  <2>1. Return(result)
    BY <1>4 DEF SearchFailed, KeepVerdict
  <2> QED BY <1>1, <2>1, ReturnTypes
<1> QED BY <1>1, <1>2, <1>3, <1>4 DEF Scopes

LEMMA SoundStep == Sound /\ [Next]_vars => Sound'
<1> SUFFICES ASSUME TypeOK, SuspectsNotTried, [Next]_vars PROVE TypeOK' /\ SuspectsNotTried'
  BY DEF Sound
<1>0. /\ cached \in SUBSET Known /\ asked \in [Ids \X All -> Nat] /\ ids \in Seq(Ids)
      /\ found \in Seq(Streams(All)) /\ queue \in Seq(Streams(All)) /\ tally \in Counters
  BY DEF TypeOK
<1>1. <<>> \in Seq(Streams(All)) /\ ToSet(<<>>) = {}
  BY DEF ToSet
<1>2. queue # <<>> => Tail(queue) \in Seq(Streams(All)) /\ ToSet(Tail(queue)) \subseteq ToSet(queue)
  BY <1>0 DEF ToSet
<1>3. CASE Call
  <2>1. PICK servers \in SUBSET Known, imdb \in BOOLEAN :
           LET first == IF imdb THEN "imdb" ELSE "title" IN
           /\ cached' = servers /\ known' = imdb
           /\ ids' = IF imdb THEN <<"imdb", "title">> ELSE <<"title">>
           /\ Submit(FirstScope(servers), first, servers, [x \in Ids \X All |-> 0])
    BY <1>3 DEF Call
  <2>2. FirstScope(servers) \in Scopes /\ [x \in Ids \X All |-> 0] \in [Ids \X All -> Nat]
    BY DEF FirstScope, Scopes
  <2>3. /\ scope' \in Scopes /\ pc' = "asking" /\ waiting' \in SUBSET All
        /\ found' = <<>> /\ asked' \in [Ids \X All -> Nat]
    BY <2>1, <2>2, SubmitTypes
  <2>4. ids' \in Seq(Ids)
    <3>1. <<"imdb", "title">> \in Seq(Ids) /\ <<"title">> \in Seq(Ids)
      BY DEF Ids
    <3> QED BY <2>1, <3>1
  <2>5. UNCHANGED <<queue, tally, shutdown>> /\ result' = NoResult /\ earlier' = NoResult
    BY <1>3 DEF Call, trying
  <2> QED BY <2>1, <2>3, <2>4, <2>5, <1>1, ResultTypes DEF TypeOK, SuspectsNotTried
<1>4. ASSUME NEW a \in All, NEW offer \in Offers, Answer(a, offer) PROVE TypeOK' /\ SuspectsNotTried'
  <2>1. found' \in Seq(Streams(All))
    BY <1>0, <1>4, StampedType DEF Answer
  <2> QED BY <1>4, <2>1 DEF Answer, TypeOK, SuspectsNotTried, trying
<1>5. CASE LeaveSearch
  BY <1>5 DEF LeaveSearch, TypeOK, SuspectsNotTried, trying
<1>6. CASE StartTrying
  BY <1>0, <1>6, SelectedType, ResultTypes DEF StartTrying, TypeOK, SuspectsNotTried, asking
<1>7. CASE SkipStream
  BY <1>2, <1>7 DEF SkipStream, TypeOK, SuspectsNotTried, asking
<1>8. ASSUME NEW kind \in {"invalid", "transient"}, Attempt(kind) PROVE TypeOK' /\ SuspectsNotTried'
  <2>1. tally' \in Counters
    <3> DEFINE F == [{"attempted", "invalid", "transient"} -> Nat]
    <3>1. Counters = F
      BY DEF Counters
    <3>2. tally' = [tally EXCEPT !["attempted"] = tally["attempted"] + 1, ![kind] = tally[kind] + 1]
      BY <1>8 DEF Attempt
    <3>3. tally' \in F
      BY <1>0, <3>1, <3>2
    <3> QED BY <3>1, <3>3
  <2> QED BY <1>2, <1>8, <2>1 DEF Attempt, TypeOK, SuspectsNotTried, asking
<1>9. CASE NoStreams \/ AllFiltered \/ Exhausted
  <2>1. PICK r \in Results : SearchFailed(r)
    <3>1. CASE NoStreams
      <4>1. (scope = "full") \in BOOLEAN
        OBVIOUS
      <4>2. [NothingFound EXCEPT !.permanent = (scope = "full")] \in Results
        BY <4>1, ResultTypes
      <4> QED BY <3>1, <4>2 DEF NoStreams
    <3>2. CASE AllFiltered
      BY <1>0, <3>2, BlamedType, ResultTypes DEF AllFiltered
    <3>3. CASE Exhausted
      <4> DEFINE b == tally.attempted > 0 /\ tally.invalid = tally.attempted /\ tally.transient = 0
      <4>1. b \in BOOLEAN
        OBVIOUS
      <4>2. SearchFailed([outcome |-> "failed", disabled |-> Blamed, permanent |-> b])
        BY <3>3 DEF Exhausted
      <4> HIDE DEF b
      <4>3. [outcome |-> "failed", disabled |-> Blamed, permanent |-> b] \in Results
        BY <1>0, <4>1, BlamedType, ResultTypes
      <4> QED BY <4>2, <4>3
    <3> QED BY <1>9, <3>1, <3>2, <3>3
  <2>2. UNCHANGED <<cached, known, queue, shutdown>> /\ (tally' = tally \/ tally' = Zero)
    BY <1>9 DEF NoStreams, AllFiltered, Exhausted, trying
  <2> QED BY <2>1, <2>2, SearchFailedTypes, ResultTypes DEF TypeOK, SuspectsNotTried
<1>10. CASE Downloaded \/ Cancelled \/ KeyboardInterrupt
  <2>1. PICK r \in Results : Return(r)
    BY <1>10, ResultTypes DEF Downloaded, Cancelled, KeyboardInterrupt
  <2>2. /\ UNCHANGED <<cached, known>> /\ queue' = <<>> /\ tally' = Zero
        /\ shutdown' = shutdown \/ shutdown' = TRUE
    BY <1>10 DEF Downloaded, Cancelled, KeyboardInterrupt
  <2> QED BY <1>1, <2>1, <2>2, ReturnTypes, ResultTypes DEF TypeOK, SuspectsNotTried
<1>11. CASE RequestShutdown \/ ClearShutdown \/ UNCHANGED vars
  BY <1>11 DEF RequestShutdown, ClearShutdown, vars, asking, trying, TypeOK, SuspectsNotTried
<1> QED BY <1>3, <1>4, <1>5, <1>6, <1>7, <1>8, <1>9, <1>10, <1>11
    DEF Next, InvalidVideo, TransientError

LEMMA SoundInvariant == Spec => []Sound
<1>1. Init => Sound
  <2> SUFFICES ASSUME Init PROVE TypeOK /\ SuspectsNotTried
    BY DEF Sound
  <2>1. asked \in [Ids \X All -> Nat] /\ ids \in Seq(Ids) /\ found \in Seq(Streams(All))
    BY DEF Init
  <2>2. queue \in Seq(Streams(All)) /\ ToSet(queue) = {}
    BY DEF Init, ToSet
  <2>3. /\ cached \subseteq Known /\ known \in BOOLEAN /\ scope \in Scopes /\ pc = "idle"
        /\ waiting \subseteq All /\ tally = Zero /\ earlier = NoResult /\ result = NoResult
        /\ shutdown \in BOOLEAN
    BY DEF Init, Scopes
  <2> QED BY <2>1, <2>2, <2>3, ResultTypes DEF TypeOK, SuspectsNotTried
<1> QED BY <1>1, SoundStep, PTL DEF Spec

\* Whatever the addons answer and the folder's settings are, every variable of a
\* search keeps its type: streams stay streams, and verdicts blame known addons.
THEOREM TypeCorrect == Spec => []TypeOK
<1>1. Sound => TypeOK
  BY DEF Sound
<1> QED BY <1>1, SoundInvariant, PTL

\* No stream that makes its addon a suspect is left to try, in any call, for any
\* answers: the filters and the verdict on the addons agree for every stream.
THEOREM NoSuspectIsTried == Spec => []SuspectsNotTried
<1>1. Sound => SuspectsNotTried
  BY DEF Sound
<1> QED BY <1>1, SoundInvariant, PTL

=============================================================================
