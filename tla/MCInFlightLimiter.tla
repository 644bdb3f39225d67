------------------------- MODULE MCInFlightLimiter --------------------------
(***************************************************************************)
(* Instances of InFlightLimiter for TLC.  The workers are interchangeable. *)
(***************************************************************************)
EXTENDS InFlightLimiter, TLC

Workers == Permutations(Worker)
=============================================================================
