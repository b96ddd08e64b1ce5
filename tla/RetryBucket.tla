---------------------------- MODULE RetryBucket ----------------------------
(***************************************************************************)
(* The bucket of failed approval callbacks (src/src/consumer/retry.go).    *)
(*                                                                         *)
(* A consumer whose callback failed adds the task with the verdict it had  *)
(* computed. One goroutine scans the bucket: under the lock it takes out   *)
(* every item whose delay has passed, then, without the lock, it retries   *)
(* those items one after the other. An item whose retry fails goes back    *)
(* into the bucket until its attempts are used up; then it is dropped.     *)
(*                                                                         *)
(* Time is abstract here: "ripe" are the items whose NextRetryAt has       *)
(* passed. RetrySchedule keeps the clock and implements this module. The   *)
(* order of the slice is abstract too: due items are retried in any order. *)
(***************************************************************************)
EXTENDS Integers, FiniteSets

CONSTANTS
    Tasks,              \* the accepted approval tasks, each with its own ID
    Verdicts,           \* what a rule evaluation may decide
    MaxCallbackRetries  \* maxCallbackRetries: retries after the first callback

ASSUME MaxRetriesAssumption == MaxCallbackRetries \in Nat \ {0}

VARIABLES
    items,  \* b.items, guarded by b.mu
    ripe,   \* the items whose NextRetryAt has passed
    due     \* scan's local slice: taken out of the bucket, not yet retried

bucketVars == <<items, ripe, due>>

\* retryItem: a task, the verdict computed for it, the retries already made.
RetryItem == [task : Tasks, action : Verdicts, attempt : 0 .. MaxCallbackRetries - 1]

BucketInit == items = {} /\ ripe = {} /\ due = {}

\* Add: the consumer hands over a callback that failed.
Add(t, v) ==
    /\ items' = items \cup {[task |-> t, action |-> v, attempt |-> 0]}
    /\ UNCHANGED <<ripe, due>>

\* The clock passes NextRetryAt of one or several items.
DelayElapses(S) ==
    /\ S # {}
    /\ S \subseteq items \ ripe
    /\ ripe' = ripe \cup S
    /\ UNCHANGED <<items, due>>

\* Mutant of Scan: the due items also stay in the bucket.
ScanKeepsItems ==
    /\ due = {}
    /\ ripe # {}
    /\ due' = ripe
    /\ ripe' = {}
    /\ UNCHANGED items

\* scan: b.items = keep, in one critical section. The goroutine scans again
\* only after it has retried all of due. A scan that finds nothing is a stutter.
Scan ==
    /\ due = {}
    /\ ripe # {}
    /\ due' = ripe
    /\ items' = items \ ripe
    /\ ripe' = {}

\* Mutant of RetrySucceeds: the item goes back as if the callback had failed.
RetrySucceedsTwice(it) ==
    /\ it \in due
    /\ due' = due \ {it}
    /\ items' = items \cup {it}
    /\ UNCHANGED ripe

\* retry, the callback succeeded: the item is gone.
RetrySucceeds(it) ==
    /\ it \in due
    /\ due' = due \ {it}
    /\ UNCHANGED <<items, ripe>>

\* Mutant of PutBack: Attempt is not counted, the item is retried for ever.
PutBackUncounted(it) ==
    /\ it \in due
    /\ it.attempt + 1 < MaxCallbackRetries
    /\ due' = due \ {it}
    /\ items' = items \cup {it}
    /\ UNCHANGED ripe

\* retry, the callback failed and attempts are left: the item goes back.
PutBack(it) ==
    /\ it \in due
    /\ it.attempt + 1 < MaxCallbackRetries
    /\ due' = due \ {it}
    /\ items' = items \cup {[it EXCEPT !.attempt = @ + 1]}
    /\ UNCHANGED ripe

\* retry, the last callback failed: the item is given up.
Drop(it) ==
    /\ it \in due
    /\ it.attempt + 1 >= MaxCallbackRetries
    /\ due' = due \ {it}
    /\ UNCHANGED <<items, ripe>>

\* The tasks the bucket is responsible for.
HeldTasks == {it.task : it \in items \cup due}

\* The bucket on its own: a task may come back after it has left, as the bucket
\* itself does not forbid, but the consumer never adds one the bucket holds.
BucketNext ==
    \/ \E t \in Tasks \ HeldTasks, v \in Verdicts : Add(t, v)
    \/ \E S \in SUBSET (items \ ripe) : DelayElapses(S)
    \/ Scan
    \/ \E it \in due : RetrySucceeds(it) \/ PutBack(it) \/ Drop(it)

BucketSpec == BucketInit /\ [][BucketNext]_bucketVars
=============================================================================
