------------------------ MODULE MCSpeculativeDecode -------------------------
(***************************************************************************)
(* Instances of SpeculativeDecode for TLC.                                 *)
(***************************************************************************)
EXTENDS SpeculativeDecode
=============================================================================
