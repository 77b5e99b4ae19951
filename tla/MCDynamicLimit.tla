--------------------------- MODULE MCDynamicLimit ---------------------------
(***************************************************************************)
(* Model checking of DynamicLimit.  Four jobs and a limit that moves       *)
(* between one and two give a holder, a sleeper and a job at the lock at   *)
(* the same time, with the limit dialed past both.                         *)
(***************************************************************************)
EXTENDS DynamicLimit
============================================================================
