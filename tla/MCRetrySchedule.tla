-------------------------- MODULE MCRetrySchedule --------------------------
(* RetrySchedule with the code's own times, in units of 15 seconds. *)
EXTENDS RetrySchedule

\* 1, 3 and 10 minutes.
CodeDelays == <<4, 12, 40>>
============================================================================
