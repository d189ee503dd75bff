---------------------------- MODULE TailRequest ----------------------------
(***************************************************************************)
(* A blocking request of s3_operations.c, as the three functions that make *)
(* one do it (get_object_size, test_range_get, fetch_cd_part; the last     *)
(* fetches the tail of the archive).  The calling thread makes the request *)
(* with a context as its user data and waits for the finish callback, once *)
(* and with a timeout; whatever comes of it, the context is destroyed      *)
(* before the function returns.  Releasing the request does not cancel it. *)
(* The headers and body callbacks fill the context before the finish       *)
(* callback; a thread of the S3 client runs them.                          *)
(***************************************************************************)
EXTENDS Integers

VARIABLES
  tail_main,         \* the calling thread: "start", "test", "waiting", "reading",
                     \* "succeeded", "failed"
  tail_request,      \* "none", "running", "finishing" (its callback has the mutex), "finished"
  tail_context,      \* "none", "allocated", "freed"
  request_complete, tail_error   \* fields of the context

tailVars == <<tail_main, tail_request, tail_context, request_complete, tail_error>>

MutexFree == tail_request # "finishing"

\* aws_s3_meta_request_release and get_request_context_destroy.
ReturnFromRequest(outcome) ==
  /\ tail_main' = outcome
  /\ tail_context' = "freed"
  /\ UNCHANGED <<tail_request, request_complete, tail_error>>

MakeRequest ==
  /\ tail_main = "start"
  /\ tail_main' = "test"
  /\ tail_request' = "running"
  /\ tail_context' = "allocated"
  /\ UNCHANGED <<request_complete, tail_error>>

\* No context, no message or no request: nothing is left behind.
CannotMakeRequest ==
  /\ tail_main = "start"
  /\ tail_main' = "failed"
  /\ UNCHANGED <<tail_request, tail_context, request_complete, tail_error>>

\* wait_for_completion takes the mutex and tests request_complete.
TestCompletion ==
  /\ tail_main = "test"
  /\ MutexFree
  /\ tail_main' = IF request_complete THEN "reading" ELSE "waiting"
  /\ UNCHANGED <<tail_request, tail_context, request_complete, tail_error>>

\* The wait returns because of the callback's notify, or for no reason:
\* there is no second wait.
TailWakes ==
  /\ tail_main = "waiting"
  /\ MutexFree
  /\ tail_main' = "reading"
  /\ UNCHANGED <<tail_request, tail_context, request_complete, tail_error>>

TailTimesOut ==
  /\ tail_main = "waiting"
  /\ MutexFree
  /\ ReturnFromRequest("failed")

\* Mutant of Completed: a wait that did not time out has succeeded.
AnyWakeUp == tail_error = 0
\* request_complete is read once more, after the mutex was released.
Completed == request_complete /\ tail_error = 0

ReadCompletion ==
  /\ tail_main = "reading"
  /\ ReturnFromRequest(IF Completed THEN "succeeded" ELSE "failed")

\* s3_get_finish_callback, up to its aws_mutex_unlock and from there on.  On
\* a context that was freed its stores go nowhere the model knows of.
FinishRequest(error) ==
  /\ tail_request = "running"
  /\ tail_request' = "finishing"
  /\ IF tail_context = "allocated"
     THEN /\ request_complete' = TRUE
          /\ tail_error' = error
     ELSE UNCHANGED <<request_complete, tail_error>>
  /\ UNCHANGED <<tail_main, tail_context>>

LeaveFinishCallback ==
  /\ tail_request = "finishing"
  /\ tail_request' = "finished"
  /\ UNCHANGED <<tail_main, tail_context, request_complete, tail_error>>

TailInit ==
  /\ tail_main = "start"
  /\ tail_request = "none"
  /\ tail_context = "none"
  /\ request_complete = FALSE
  /\ tail_error = 0

\* What the calling thread does by itself, in this order in all three
\* functions; a wake-up without a notify may
\* happen but need not.
TailMainSteps ==
  \/ MakeRequest \/ CannotMakeRequest \/ TestCompletion \/ TailTimesOut \/ ReadCompletion

TailCallbackSteps == FinishRequest(0) \/ FinishRequest(-1) \/ LeaveFinishCallback
=============================================================================
