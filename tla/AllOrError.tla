----------------------------- MODULE AllOrError -----------------------------
(***************************************************************************)
(* What the coordinators of the downloader promise their caller, without   *)
(* threads, mutexes or limits: a set of items (parts, directory ranges) is *)
(* worked off one by one; the call returns success only when every item    *)
(* that is needed was done and nothing failed, failure only when something *)
(* did fail, and does not touch an item after it returned.                 *)
(***************************************************************************)

VARIABLES
  needed,   \* the items a successful call has to do
  done,     \* the items done so far
  failed,   \* something went wrong
  outcome   \* "running", "ok" or "failed"

vars == <<needed, done, failed, outcome>>

Init ==
  /\ done = {}
  /\ failed = FALSE
  /\ outcome = "running"

\* One item is done.  After a failure the remaining items may still be done.
DoItem ==
  /\ outcome = "running"
  /\ \E i \in done' \ done : done' = done \cup {i}
  /\ UNCHANGED <<needed, failed, outcome>>

Fault ==
  /\ outcome = "running"
  /\ failed' = TRUE
  /\ UNCHANGED <<needed, done, outcome>>

ReturnOk ==
  /\ outcome = "running"
  /\ ~failed
  /\ needed \subseteq done
  /\ outcome' = "ok"
  /\ UNCHANGED <<needed, done, failed>>

\* The failure is an earlier one, or the one that ends the call.
ReturnFailed ==
  /\ outcome = "running"
  /\ failed' = TRUE
  /\ outcome' = "failed"
  /\ UNCHANGED <<needed, done>>

Next == DoItem \/ Fault \/ ReturnOk \/ ReturnFailed

\* A caller that waits for the call is not left waiting.
Returns == <>(outcome # "running")

Safety == Init /\ [][Next]_vars
=============================================================================
