-------------------------- MODULE MCCatalogRefresh --------------------------
(***************************************************************************)
(* Instances of CatalogRefresh for TLC.                                    *)
(***************************************************************************)
EXTENDS CatalogRefresh
=============================================================================
