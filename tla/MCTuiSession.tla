---------------------------- MODULE MCTuiSession ----------------------------
(***************************************************************************)
(* Instances of TuiSession for TLC.                                        *)
(***************************************************************************)
EXTENDS TuiSession
=============================================================================
