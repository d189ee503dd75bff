----------------------------- MODULE MCExtract -----------------------------
(***************************************************************************)
(* Instances of Extract for TLC.  The download part size is twice the tail *)
(* request (--part-size 16 for an 8 MiB tail).                             *)
(***************************************************************************)
EXTENDS Extract

\* Archives that fit the tail, and archives of two to four parts.
TailOrSeveralParts == {3, 4} \cup 9..25

\* Archives of one part, larger than the tail.
OneLargePart == 5..8
=============================================================================
