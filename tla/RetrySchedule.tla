--------------------------- MODULE RetrySchedule ---------------------------
(***************************************************************************)
(* The retry bucket with its clock (src/src/consumer/retry.go): delays,    *)
(* the scan ticker, and callbacks that take time and run one after the     *)
(* other. It implements RetryBucket, where time is abstract.               *)
(*                                                                         *)
(* The unit of time divides them all; NextRetryAt is kept                 *)
(* as the time remaining until it.                                         *)
(***************************************************************************)
EXTENDS Integers, Sequences, FiniteSets, Selection

CONSTANTS
    Tasks, Verdicts,
    Delay,      \* callbackRetryDelay, in units; as many entries as retries
    ScanEvery,  \* the ticker's period
    CallTime,   \* a callback's own requests last at most this long: two timeouts of 15 s
    MaxTokenWait \* a bound: how long a callback waits for the token of another caller

ASSUME ScheduleAssumption ==
    /\ IsFiniteSet(Tasks)
    /\ Delay \in Seq(Nat \ {0}) /\ Delay # <<>>
    /\ ScanEvery \in Nat \ {0}
    /\ CallTime \in Nat \ {0}
    /\ MaxTokenWait \in Nat

VARIABLES
    slice,   \* b.items
    batch,   \* scan's local slice due, the head being called back
    busy,    \* how long the current callback's own requests have lasted
    tokenWait, \* how long the current callback has waited for a token
    phase,   \* time since the ticker last fired
    tick,    \* the ticker's channel holds a tick; a second one is dropped
    age,     \* history: time since a task was added, while it is held
    waited,  \* history: time since it was added or put back, token waits not counted
    outcome  \* history: how a task's life in the bucket ended

svars == <<slice, batch, busy, tokenWait, phase, tick, age, waited, outcome>>

\* retryItem, with the verdict that was computed for its task.
RetryItem == [task : Tasks, action : Verdicts, attempt : 0 .. Len(Delay) - 1, remaining : Nat]

Held == {t \in Tasks : outcome[t] = "held"}
Items == {slice[i] : i \in DOMAIN slice}
IsDue(it) == it.remaining = 0

ScheduleInit ==
    /\ slice = <<>> /\ batch = <<>>
    /\ busy = 0 /\ tokenWait = 0 /\ phase = 0 /\ tick = FALSE
    /\ age = [t \in Tasks |-> 0]
    /\ waited = [t \in Tasks |-> 0]
    /\ outcome = [t \in Tasks |-> "new"]

\* The delay of a new item. Its mutant takes the second delay.
SecondDelay == Delay[2]
FirstDelay == Delay[1]

\* now.Before(NextRetryAt) turns false and stays false.
OneUnitLess(n) == IF n > 0 THEN n - 1 ELSE 0

\* scan's keep. Its mutant leaves the due items in the bucket.
KeepAll(s) == s
Keep(s) == Picked(s, {it \in RetryItem : ~IsDue(it)})

\* callbackRetryDelay[Attempt] after Attempt++. Its mutant uses the old Attempt.
DelayBeforeOld(attempt) == Delay[attempt]
DelayBefore(attempt) == Delay[attempt + 1]

\* Add.
AddLater(t, v) ==
    /\ outcome[t] = "new"
    /\ slice' = Append(slice, [task |-> t, action |-> v, attempt |-> 0,
                               remaining |-> FirstDelay])
    /\ outcome' = [outcome EXCEPT ![t] = "held"]
    /\ UNCHANGED <<batch, busy, tokenWait, phase, tick, age, waited>>

\* A history of the held tasks, one unit later.
OneUnitMore(h) == [t \in Tasks |-> IF t \in Held THEN h[t] + 1 ELSE h[t]]

UnitPasses ==
    /\ slice' = [i \in DOMAIN slice |->
                   [slice[i] EXCEPT !.remaining = OneUnitLess(@)]]
    /\ phase' = (phase + 1) % ScanEvery
    /\ tick' = (tick \/ phase' = 0)
    /\ age' = OneUnitMore(age)
    /\ UNCHANGED <<batch, outcome>>

\* One unit passes. The scan goroutine is never late for a tick it waits for,
\* and the requests of a callback do not outlast CallTime.
ClockTick ==
    /\ ~(tick /\ batch = <<>>)
    /\ batch # <<>> => busy < CallTime
    /\ UnitPasses
    /\ busy' = IF batch # <<>> THEN busy + 1 ELSE 0
    /\ waited' = OneUnitMore(waited)
    /\ UNCHANGED tokenWait

\* One unit passes while the callback, before its requests, waits in
\* GetTokenContext for the caller that refreshes the token. The code sets no
\* limit to that wait.
TokenWait ==
    /\ batch # <<>> /\ busy = 0 /\ tokenWait < MaxTokenWait
    /\ UnitPasses
    /\ tokenWait' = tokenWait + 1
    /\ UNCHANGED <<busy, waited>>

\* Run receives a tick, scan splits the slice into due and keep.
ScanOnTick ==
    /\ tick
    /\ batch = <<>>
    /\ tick' = FALSE
    /\ batch' = Picked(slice, {it \in RetryItem : IsDue(it)})
    /\ slice' = Keep(slice)
    /\ busy' = 0 /\ tokenWait' = 0
    /\ UNCHANGED <<phase, age, waited, outcome>>

\* retry of the first item of the batch succeeds.
CallbackOk ==
    /\ batch # <<>>
    /\ batch' = Tail(batch)
    /\ busy' = 0 /\ tokenWait' = 0
    /\ outcome' = [outcome EXCEPT ![Head(batch).task] = "delivered"]
    /\ UNCHANGED <<slice, phase, tick, age, waited>>

\* retry of the first item fails: Attempt++, then the end or a new delay.
CallbackError ==
    /\ batch # <<>>
    /\ LET it == Head(batch)
           attempt == it.attempt + 1
       IN  IF attempt >= Len(Delay)
           THEN /\ outcome' = [outcome EXCEPT ![it.task] = "dropped"]
                /\ UNCHANGED <<slice, waited>>
           ELSE /\ slice' = Append(slice, [it EXCEPT !.attempt = attempt,
                                                     !.remaining = DelayBefore(attempt)])
                /\ waited' = [waited EXCEPT ![it.task] = 0]
                /\ UNCHANGED outcome
    /\ batch' = Tail(batch)
    /\ busy' = 0 /\ tokenWait' = 0
    /\ UNCHANGED <<phase, tick, age>>

ScheduleNext ==
    \/ \E t \in Tasks, v \in Verdicts : AddLater(t, v)
    \/ ClockTick
    \/ TokenWait
    \/ ScanOnTick
    \/ CallbackOk
    \/ CallbackError

ScheduleSpec == ScheduleInit /\ [][ScheduleNext]_svars

-----------------------------------------------------------------------------
ScheduleTypeOK ==
    /\ slice \in Seq(RetryItem) /\ batch \in Seq(RetryItem)
    /\ busy \in 0 .. CallTime /\ tokenWait \in 0 .. MaxTokenWait
    /\ phase \in 0 .. ScanEvery - 1
    /\ tick \in BOOLEAN
    /\ age \in [Tasks -> Nat] /\ waited \in [Tasks -> Nat]
    /\ outcome \in [Tasks -> {"new", "held", "delivered", "dropped"}]

\* The first n delays together.
DelaysUpTo[n \in 0 .. Len(Delay)] == IF n = 0 THEN 0 ELSE DelaysUpTo[n - 1] + Delay[n]
TotalDelay == DelaysUpTo[Len(Delay)]

\* The bucket rides out an outage of the platform: a callback is given up only
\* after all the delays have passed, 14 minutes with the code's values, counted
\* from the first failure and however the scans and slow callbacks fell.
OutageRiddenOut ==
    \A t \in Tasks : outcome[t] = "dropped" => age[t] >= TotalDelay

\* Retries run one after the other, so slow callbacks of other tasks hold a retry
\* up, but not without bound: each attempt is over at most a wait for the next
\* tick and one callback of every held task after its delay. The time that
\* callbacks wait for a token comes on top; the code does not bound it.
Lateness == ScanEvery - 1 + Cardinality(Tasks) * CallTime
NoRetryStarves ==
    \A it \in Items \cup {batch[i] : i \in DOMAIN batch} :
        waited[it.task] <= Delay[it.attempt + 1] + Lateness

WithoutClock(it) == [task |-> it.task, action |-> it.action, attempt |-> it.attempt]

Bucket == INSTANCE RetryBucket WITH
    MaxCallbackRetries <- Len(Delay),
    items <- {WithoutClock(it) : it \in Items},
    ripe <- {WithoutClock(it) : it \in {j \in Items : IsDue(j)}},
    due <- {WithoutClock(batch[i]) : i \in DOMAIN batch}

\* The bucket with its clock, its slices and its ticker implements the bucket
\* the pipeline is built on.
ImplementsBucket == Bucket!BucketSpec
=============================================================================
