-------------------------- MODULE MCEpisodeSearch --------------------------
(***************************************************************************)
(* Model checking of EpisodeSearch: two configured addons, a server the    *)
(* folder remembers from another configuration, one experimental addon.    *)
(* Between them the answers hold a plain hit, one with an advisory row and *)
(* a wrong show beside a hash of the wanted one, a release in French, and  *)
(* a proxied twelfth episode that passes for the first.                    *)
(***************************************************************************)
EXTENDS EpisodeSearch

CONSTANTS a, b, old, lab

MCWanted == Target(1, 1)

Hit == [addon |-> a, link |-> "direct", hash |-> FALSE, advisory |-> FALSE,
        imdb |-> "unknown", title |-> "target", season |-> 1, episode |-> 1,
        pack |-> 0, release |-> 2, langs |-> {}, fileLangs |-> {}, tracks |-> {},
        quality |-> 80, reliability |-> 10, seeders |-> 0]

Advisory == [Hit EXCEPT !.advisory = TRUE]
OtherShow == [Hit EXCEPT !.title = "other"]
TooGood == [Hit EXCEPT !.quality = 100]
HashOnly == [Hit EXCEPT !.link = "none", !.hash = TRUE, !.title = "unnamed",
                        !.episode = NoToken, !.release = 0, !.quality = NoQuality]
French == [Hit EXCEPT !.langs = {"french"}]
Twelfth == [Hit EXCEPT !.episode = 12, !.link = "proxy"]

MCOffers == {<<>>, <<Hit>>, <<OtherShow, Advisory, HashOnly>>, <<French, TooGood>>, <<Twelfth>>}
MCQuality == [preferred |-> 80, fallbacks |-> <<60, NoQuality>>, higher |-> FALSE, lower |-> TRUE]
============================================================================
