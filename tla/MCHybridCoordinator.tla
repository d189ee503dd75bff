------------------------ MODULE MCHybridCoordinator ------------------------
(***************************************************************************)
(* Instances of HybridCoordinator for TLC: three or four parts of two      *)
(* bytes, one to three directory ranges, entries starting at every offset. *)
(***************************************************************************)
EXTENDS HybridCoordinator

Sizes == 6..8
=============================================================================
