----------------------- MODULE MCDownloadCoordinator -----------------------
(***************************************************************************)
(* Instances of DownloadCoordinator for TLC: archives of two to four parts *)
(* of two bytes, with the directory starting anywhere.                     *)
(***************************************************************************)
EXTENDS DownloadCoordinator

Sizes == 3..8
=============================================================================
