--------------------------- MODULE MCBurstRestore ---------------------------
(***************************************************************************)
(* Instances of BurstRestore for TLC.                                      *)
(***************************************************************************)
EXTENDS BurstRestore
=============================================================================
