----------------------------- MODULE MCPartFile -----------------------------
(***************************************************************************)
(* Model checking of PartFile: two cuts of a film that differ in length    *)
(* and a clip that is shorter than a video may be; two streams, so that    *)
(* what one leaves meets the other, over any number of searches.           *)
(***************************************************************************)
EXTENDS PartFile

CONSTANTS longer, shorter, trailer

MCReleases == {longer, shorter, trailer}
MCSize == (longer :> 3) @@ (shorter :> 2) @@ (trailer :> 1)
============================================================================
