--------------------------- MODULE MCBurstWriter ---------------------------
(***************************************************************************)
(* Instances of BurstWriter for TLC.  The header sizes are those of the    *)
(* format; a part holds a header, its frames and little else, so that      *)
(* every frame is close to a boundary.                                     *)
(***************************************************************************)
EXTENDS BurstWriter

Names == {1, 15}
Targets == {3}
Frames == {30, 52, 116}
Reads == {1, 2}
=============================================================================
