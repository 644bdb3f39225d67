-------------------------- MODULE MCModelDownloads --------------------------
(***************************************************************************)
(* Instances of ModelDownloads for TLC.                                    *)
(***************************************************************************)
EXTENDS ModelDownloads
=============================================================================
