-------------------------- MODULE StreamSelection --------------------------
(***************************************************************************)
(* Which of the streams that addons return are tried, in which order, and  *)
(* which addons are blamed for wrong ones: the pure functions of           *)
(* stream_download.py above the download.                                  *)
(*                                                                         *)
(* A stream is what its texts say: a text is not kept, only what the       *)
(* functions look for in it.  A release names its episode with two digits  *)
(* (or more), and its season with two.                                     *)
(***************************************************************************)
EXTENDS Integers, FiniteSets, SequencesExt

NoQuality == 0      \* a title or a setting without a known quality
NoToken == -1       \* a text that names no episode
NoSeason == 0

Qualities == {20, 40, 60, 80, 100}
Languages == {"english", "russian", "french", "multi"}

\* addon: who returned it.  link: its url, directly playable or one of the
\* debrid proxy's; hash: it has an info hash.  episode, pack: the S/E token and
\* the season-only token of its text.  release: how many of year, resolution,
\* format and keyword its text has.  langs: in its title and name; fileLangs: in
\* its file name; tracks: of its subtitles.
Streams(Addons) ==
    [addon : Addons, link : {"none", "direct", "proxy"}, hash : BOOLEAN,
     advisory : BOOLEAN, imdb : {"unknown", "target", "other"},
     title : {"unnamed", "target", "other"},
     season : Nat, episode : Nat \cup {NoToken}, pack : Nat, release : 0..4,
     langs : SUBSET Languages, fileLangs : SUBSET Languages, tracks : SUBSET Languages,
     quality : Qualities \cup {NoQuality}, reliability : {0, 10, 30}, seeders : Nat]

\* What a search is for: a film has no season.
Target(season, episode) == [season |-> season, episode |-> episode]

----------------------------------------------------------------------------
(***************************************************************************)
(* Is it the right film or episode?                                        *)
(***************************************************************************)
\* The code looks for s01e1 as well as s01e01 anywhere in the text, without
\* asking what follows: episode 1 is also found in s01e1x and s01e1xx.
TokenFound(s, t) ==
    /\ s.episode # NoToken
    /\ s.season = t.season
    /\ \E k \in {1, 10, 100} : s.episode \div k = t.episode

LooksLikeFinishedRelease(s) == s.release >= 2

MatchesTargetEpisode(s, t) ==
    \/ t.season = NoSeason
    \/ TokenFound(s, t)
    \/ s.episode = NoToken /\ s.pack = t.season
    \/ s.episode = NoToken /\ ~LooksLikeFinishedRelease(s)

MatchesShowTitle(s) == s.title # "other"

WrongIdentity(s) == s.imdb = "other"

Usable(s) == s.link # "none" \/ s.hash

\* Positive evidence that the addon answered for something else.
TargetIdentityMismatch(s, t) ==
    /\ ~s.advisory
    /\ \/ WrongIdentity(s)
       \/ MatchesTargetEpisode(s, t) /\ ~MatchesShowTitle(s)

TargetMismatchAddons(streams, t) ==
    {s.addon : s \in {x \in ToSet(streams) : Usable(x) /\ TargetIdentityMismatch(x, t)}}

\* Slip: the title is left to the episode number.
OnTargetByNumber(s, t) ==
    ~s.advisory /\ ~WrongIdentity(s) /\ MatchesTargetEpisode(s, t)

OnTarget(s, t) ==
    /\ ~s.advisory
    /\ ~WrongIdentity(s)
    /\ MatchesShowTitle(s)
    /\ MatchesTargetEpisode(s, t)

----------------------------------------------------------------------------
(***************************************************************************)
(* A list with some of its places left out, and the rest put in an order,  *)
(* which is the set of pairs of a place and one that comes after it: the   *)
(* k-th is the one with k - 1 before it.                                   *)
(***************************************************************************)
Arranged(list, S, order) ==
    [k \in 1 .. Cardinality(S) |->
        list[CHOOSE i \in S : Cardinality({j \in S : <<j, i>> \in order}) = k - 1]]

Earlier(S) == {p \in S \X S : p[1] < p[2]}

----------------------------------------------------------------------------
(***************************************************************************)
(* Languages and subtitles.                                                *)
(***************************************************************************)
LanguageAllowed(s, preferred) ==
    \/ "any" \in preferred
    \/ s.langs \cap {"russian", "multi"} # {}
    \/ s.langs = {}
    \/ s.langs \cap preferred # {}

HasEnglishSubtitle(s) ==
    \/ "english" \in s.tracks
    \/ (s.langs \cup s.fileLangs) \cap {"english", "multi"} # {}
    \/ s.langs \cup s.fileLangs \cup s.tracks = {}

FilterEnglish(streams) ==
    LET kept == {i \in DOMAIN streams : HasEnglishSubtitle(streams[i])}
    IN  Arranged(streams, kept, Earlier(kept))

----------------------------------------------------------------------------
(***************************************************************************)
(* Quality: a setting is the preferred quality, the fallbacks in order,    *)
(* and what to do outside of them.                                         *)
(***************************************************************************)
QualitySettings ==
    [preferred : Qualities \cup {NoQuality}, fallbacks : Seq(Qualities \cup {NoQuality}),
     higher : BOOLEAN, lower : BOOLEAN]

\* Preferred first, then the fallbacks: unknown names and repetitions drop out.
QualityPriority(q) ==
    LET scores == <<q.preferred>> \o q.fallbacks
        new == {i \in DOMAIN scores : /\ scores[i] # NoQuality
                                      /\ \A j \in 1 .. (i - 1) : scores[j] # scores[i]}
    IN  Arranged(scores, new, Earlier(new))

Best(priority) == CHOOSE x \in ToSet(priority) : \A y \in ToSet(priority) : y <= x
Worst(priority) == CHOOSE x \in ToSet(priority) : \A y \in ToSet(priority) : x <= y

QualityAllowed(s, q, priority) ==
    \/ priority = <<>>
    \/ s.quality = NoQuality /\ (q.higher \/ q.lower)
    \/ /\ s.quality # NoQuality
       /\ s.quality > Best(priority) => q.higher
       /\ s.quality < Worst(priority) => q.lower

\* The place in the priority, then below it, then above it, then unknown.
PriorityRank(s, priority) ==
    IF s.quality = NoQuality THEN Len(priority) + 2
    ELSE IF \E i \in DOMAIN priority : priority[i] = s.quality
    THEN (CHOOSE i \in DOMAIN priority : priority[i] = s.quality) - 1
    ELSE IF s.quality > Best(priority) THEN Len(priority) + 1
    ELSE Len(priority)

\* Python compares the tuples lexicographically.  Without a priority the direct
\* links come first, whatever their quality, and an unknown one counts least.
\* list.sort is stable: the place in the list decides last.
SortKey(streams, priority, i) ==
    LET s == streams[i]
        direct == IF s.link = "none" THEN 0 ELSE -1
    IN  IF priority = <<>> THEN <<direct, -s.quality, -s.reliability, -s.seeders, i>>
        ELSE <<PriorityRank(s, priority), direct, -s.reliability, -s.seeders, i>>

LexLess(a, b) ==
    \E i \in 1..5 : a[i] < b[i] /\ \A j \in 1..(i - 1) : a[j] = b[j]

MaxTried == 20

\* The places of the streams that may be tried.
Allowed(streams, t, preferred, q) ==
    {i \in DOMAIN streams : /\ Usable(streams[i])
                            /\ OnTarget(streams[i], t)
                            /\ LanguageAllowed(streams[i], preferred)
                            /\ QualityAllowed(streams[i], q, QualityPriority(q))}

Better(streams, S, priority) ==
    {p \in S \X S : LexLess(SortKey(streams, priority, p[1]), SortKey(streams, priority, p[2]))}

\* What is tried, best first.
SelectStreams(streams, t, preferred, q) ==
    LET good == Allowed(streams, t, preferred, q)
        sorted == Arranged(streams, good, Better(streams, good, QualityPriority(q)))
    IN  SubSeq(sorted, 1, IF Len(sorted) < MaxTried THEN Len(sorted) ELSE MaxTried)

----------------------------------------------------------------------------
(***************************************************************************)
(* Where a stream can be downloaded from: its own link; a debrid proxy's,  *)
(* which may turn out to lead to an error page; for an info hash the local *)
(* torrent proxy or the debrid service (keys: those configured), the       *)
(* latter of which may not have it.  "none": the stream is skipped.        *)
(***************************************************************************)
Sources(s, keys) ==
    IF s.link = "direct" THEN {"direct"}
    ELSE (IF s.link = "proxy" THEN {"proxy"} ELSE {})
         \cup (IF s.hash THEN keys ELSE {})
         \cup (IF s.hash /\ "torrentproxy" \in keys THEN {} ELSE {"none"})

=============================================================================
