------------------------------ MODULE Pipeline ------------------------------
(***************************************************************************)
(* The life of an approval request inside the service: the webhook handler *)
(* queues it (web/webhook.go, queue/queue.go), the consumer goroutine      *)
(* takes it, evaluates it and calls the platform back (app.go, Run and     *)
(* processTask), and the retry goroutine repeats a callback that failed    *)
(* (consumer/retry.go, the module RetryBucket).                            *)
(*                                                                         *)
(* The budget store is seen only through HasMissingTargets: a sync that    *)
(* could not find a configured budget package pauses the consumer. When    *)
(* and how that flag changes is the module BudgetSync; Service puts the    *)
(* two together.                                                           *)
(***************************************************************************)
EXTENDS RetryBucket, Sequences

CONSTANTS
    QueueSize,    \* capacity of the channel, cfg.Sync.QueueSize
    NoTask,       \* the consumer holds no task
    NoVerdict,    \* the consumer has no verdict
    MaxEpisodes,  \* bound: how often missing targets may appear
    MaxCrashes    \* bound: how often the process may stop

\* The history entries that are not a verdict.
Failures == {"panic", "callback_retry", "callback_dropped"}

ASSUME PipelineAssumption ==
    /\ QueueSize \in Nat \ {0}
    /\ MaxEpisodes \in Nat
    /\ MaxCrashes \in Nat
    /\ NoTask \notin Tasks
    /\ NoVerdict \notin Verdicts
    /\ Verdicts \cap Failures = {}

VARIABLES
    missing,    \* Store.HasMissingTargets()
    pc,         \* where the consumer goroutine is
    queue,      \* Queue.ch
    hand,       \* the consumer's local variable task
    verdict,    \* processTask's local variable action
    \* What the platform sees.
    status,     \* the answer to the webhook request: none yet, 200 or 503
    received,   \* the verdicts that reached the platform
    \* History variables.
    calls,      \* how often CallbackApproval was called for a task
    history,    \* every entry AddHistory was given (the code keeps the last 50)
    lost,       \* accepted tasks the consumer could not put back in the queue
    strayed,    \* tasks whose evaluation began while targets were missing
    episodes,   \* how often missing targets have appeared
    crashes,    \* how often the process has stopped
    forgotten   \* accepted tasks that were in memory when it stopped

consumerVars == <<pc, hand, verdict>>
platformVars == <<received, calls>>
crashVars == <<crashes, forgotten>>
vars == <<bucketVars, missing, episodes, queue, consumerVars, status, platformVars,
          history, lost, strayed, crashVars>>

TypeOK ==
    /\ items \subseteq RetryItem
    /\ ripe \subseteq items
    /\ due \subseteq RetryItem
    /\ missing \in BOOLEAN
    /\ pc \in {"off", "gate", "receive", "recheck", "evaluate", "callback"}
    /\ queue \in Seq(Tasks)
    /\ Len(queue) <= QueueSize
    /\ hand \in Tasks \cup {NoTask}
    /\ verdict \in Verdicts \cup {NoVerdict}
    /\ status \in [Tasks -> {"none", "200", "503"}]
    /\ received \in [Tasks -> SUBSET Verdicts]
    /\ calls \in [Tasks -> Nat]
    /\ history \subseteq Tasks \X (Verdicts \cup Failures)
    /\ lost \subseteq Tasks
    /\ strayed \subseteq Tasks
    /\ episodes \in 0 .. MaxEpisodes
    /\ crashes \in 0 .. MaxCrashes
    /\ forgotten \subseteq Tasks

Init ==
    /\ BucketInit
    /\ missing = FALSE
    /\ pc = "off"
    /\ queue = <<>>
    /\ hand = NoTask
    /\ verdict = NoVerdict
    /\ status = [t \in Tasks |-> "none"]
    /\ received = [t \in Tasks |-> {}]
    /\ calls = [t \in Tasks |-> 0]
    /\ history = {}
    /\ lost = {}
    /\ strayed = {}
    /\ episodes = 0
    /\ crashes = 0
    /\ forgotten = {}

-----------------------------------------------------------------------------
(* The webhook handler. A request with empty fields is answered without     *)
(* being queued and changes nothing, so it has no action here.              *)

\* Enqueue's select: the channel takes the task, the platform gets 200.
Accept(t) ==
    /\ status[t] # "200"
    /\ Len(queue) < QueueSize
    /\ queue' = Append(queue, t)
    /\ status' = [status EXCEPT ![t] = "200"]
    /\ UNCHANGED <<bucketVars, missing, episodes, consumerVars, platformVars,
                   history, lost, strayed, crashVars>>

\* Enqueue's default branch: 503. The platform may send the request again.
Reject(t) ==
    /\ status[t] = "none"
    /\ Len(queue) >= QueueSize
    /\ status' = [status EXCEPT ![t] = "503"]
    /\ UNCHANGED <<bucketVars, missing, episodes, queue, consumerVars, platformVars,
                   history, lost, strayed, crashVars>>

-----------------------------------------------------------------------------
(* The consumer goroutine.                                                  *)

\* Run starts the consumer after the first successful sync.
Start ==
    /\ pc = "off"
    /\ pc' = "gate"
    /\ UNCHANGED <<bucketVars, missing, episodes, queue, hand, verdict, status,
                   platformVars, history, lost, strayed, crashVars>>

\* Mutant of PassGate: only the second check looks for missing targets.
PassGateUnchecked ==
    /\ pc = "gate"
    /\ pc' = "receive"
    /\ UNCHANGED <<bucketVars, missing, episodes, queue, hand, verdict, status,
                   platformVars, history, lost, strayed, crashVars>>

\* The check at the head of the loop. With targets missing the loop sleeps.
PassGate ==
    /\ pc = "gate"
    /\ ~missing
    /\ pc' = "receive"
    /\ UNCHANGED <<bucketVars, missing, episodes, queue, hand, verdict, status,
                   platformVars, history, lost, strayed, crashVars>>

\* task := <-a.Queue.Chan(), which blocks while the channel is empty.
Receive ==
    /\ pc = "receive"
    /\ queue # <<>>
    /\ hand' = Head(queue)
    /\ queue' = Tail(queue)
    /\ pc' = "recheck"
    /\ UNCHANGED <<bucketVars, missing, episodes, verdict, status, platformVars,
                   history, lost, strayed, crashVars>>

\* The second check, after a receive that may have blocked for long.
PassRecheck ==
    /\ pc = "recheck"
    /\ ~missing
    /\ pc' = "evaluate"
    /\ UNCHANGED <<bucketVars, missing, episodes, queue, hand, verdict, status,
                   platformVars, history, lost, strayed, crashVars>>

\* Targets are missing: the task goes back to the end of the queue.
Requeue ==
    /\ pc = "recheck"
    /\ missing
    /\ Len(queue) < QueueSize
    /\ queue' = Append(queue, hand)
    /\ hand' = NoTask
    /\ pc' = "gate"
    /\ UNCHANGED <<bucketVars, missing, episodes, verdict, status, platformVars,
                   history, lost, strayed, crashVars>>

\* Webhooks have filled the queue since the receive: the task is only logged.
RequeueFails ==
    /\ pc = "recheck"
    /\ missing
    /\ Len(queue) >= QueueSize
    /\ lost' = lost \cup {hand}
    /\ hand' = NoTask
    /\ pc' = "gate"
    /\ UNCHANGED <<bucketVars, missing, episodes, queue, verdict, status, platformVars,
                   history, strayed, crashVars>>

\* Evaluate begins with the store as it is now; nothing stops a sync that
\* replaces it after the second check.
BeginsWithMissing == strayed' = IF missing THEN strayed \cup {hand} ELSE strayed

\* Checker.Evaluate returns a verdict, "refuse" for each of its own errors.
Evaluate(v) ==
    /\ pc = "evaluate"
    /\ verdict' = v
    /\ pc' = "callback"
    /\ BeginsWithMissing
    /\ UNCHANGED <<bucketVars, missing, episodes, queue, hand, status, platformVars,
                   history, lost, crashVars>>

\* Evaluate panics: processTask recovers, and the task ends in the history.
EvaluatePanics ==
    /\ pc = "evaluate"
    /\ history' = history \cup {<<hand, "panic">>}
    /\ hand' = NoTask
    /\ pc' = "gate"
    /\ BeginsWithMissing
    /\ UNCHANGED <<bucketVars, missing, episodes, queue, verdict, status, platformVars,
                   lost, crashVars>>

-----------------------------------------------------------------------------
(* CallbackApproval. It succeeds when the platform answers 200 and does not *)
(* deny success. It fails without reaching the platform (no sign key, no    *)
(* token, a refused connection) or after the platform has taken the verdict *)
(* (the answer was lost, or was not the JSON expected).                     *)

CallbackSucceeds(t, v) ==
    /\ calls' = [calls EXCEPT ![t] = @ + 1]
    /\ received' = [received EXCEPT ![t] = @ \cup {v}]

CallbackFails(t, v) ==
    /\ calls' = [calls EXCEPT ![t] = @ + 1]
    /\ \/ UNCHANGED received
       \/ received' = [received EXCEPT ![t] = @ \cup {v}]

ConsumerDone ==
    /\ hand' = NoTask
    /\ verdict' = NoVerdict
    /\ pc' = "gate"

\* processTask, the first callback succeeds.
FirstCallbackSucceeds ==
    /\ pc = "callback"
    /\ CallbackSucceeds(hand, verdict)
    /\ history' = history \cup {<<hand, verdict>>}
    /\ ConsumerDone
    /\ UNCHANGED <<bucketVars, missing, episodes, queue, status, lost, strayed, crashVars>>

\* Mutant of FirstCallbackFails: the bucket evaluates again.
FirstCallbackFailsReevaluates ==
    /\ pc = "callback"
    /\ CallbackFails(hand, verdict)
    /\ \E v \in Verdicts : Add(hand, v)
    /\ history' = history \cup {<<hand, "callback_retry">>}
    /\ ConsumerDone
    /\ UNCHANGED <<missing, episodes, queue, status, lost, strayed, crashVars>>

\* processTask, the first callback fails: the bucket takes over.
FirstCallbackFails ==
    /\ pc = "callback"
    /\ CallbackFails(hand, verdict)
    /\ Add(hand, verdict)
    /\ history' = history \cup {<<hand, "callback_retry">>}
    /\ ConsumerDone
    /\ UNCHANGED <<missing, episodes, queue, status, lost, strayed, crashVars>>

-----------------------------------------------------------------------------
(* The retry goroutine.                                                     *)

TimePasses ==
    /\ \E S \in SUBSET (items \ ripe) : DelayElapses(S)
    /\ UNCHANGED <<missing, episodes, queue, consumerVars, status, platformVars,
                   history, lost, strayed, crashVars>>

ScanBucket ==
    /\ Scan
    /\ UNCHANGED <<missing, episodes, queue, consumerVars, status, platformVars,
                   history, lost, strayed, crashVars>>

\* retry, the callback succeeds.
RetryDelivers(it) ==
    /\ RetrySucceeds(it)
    /\ CallbackSucceeds(it.task, it.action)
    /\ history' = history \cup {<<it.task, it.action>>}
    /\ UNCHANGED <<missing, episodes, queue, consumerVars, status, lost, strayed, crashVars>>

\* retry, the callback fails and another attempt is left.
RetryLater(it) ==
    /\ PutBack(it)
    /\ CallbackFails(it.task, it.action)
    /\ UNCHANGED <<missing, episodes, queue, consumerVars, status, history, lost,
                   strayed, crashVars>>

\* Mutants of GiveUp: the history shows the verdict, or shows nothing.
GiveUpAsVerdict(it) ==
    /\ Drop(it)
    /\ CallbackFails(it.task, it.action)
    /\ history' = history \cup {<<it.task, it.action>>}
    /\ UNCHANGED <<missing, episodes, queue, consumerVars, status, lost, strayed, crashVars>>

GiveUpSilently(it) ==
    /\ Drop(it)
    /\ CallbackFails(it.task, it.action)
    /\ UNCHANGED <<missing, episodes, queue, consumerVars, status, history, lost,
                   strayed, crashVars>>

\* retry, the last attempt fails: a person has to finish the approval.
GiveUp(it) ==
    /\ Drop(it)
    /\ CallbackFails(it.task, it.action)
    /\ history' = history \cup {<<it.task, "callback_dropped">>}
    /\ UNCHANGED <<missing, episodes, queue, consumerVars, status, lost, strayed, crashVars>>

-----------------------------------------------------------------------------
(* The environment: budget syncs and the end of the process.                *)

\* A sync replaces the store by one with or without missing targets.
TargetsVanish ==
    /\ ~missing
    /\ episodes < MaxEpisodes
    /\ missing' = TRUE
    /\ episodes' = episodes + 1
    /\ UNCHANGED <<bucketVars, queue, consumerVars, status, platformVars, history,
                   lost, strayed, crashVars>>

TargetsReturn ==
    /\ missing
    /\ missing' = FALSE
    /\ UNCHANGED <<bucketVars, episodes, queue, consumerVars, status, platformVars,
                   history, lost, strayed, crashVars>>

\* Accepted tasks the process still has to answer.
QueuedTasks == {queue[i] : i \in 1 .. Len(queue)}
InMemory == QueuedTasks \cup ({hand} \ {NoTask}) \cup HeldTasks

\* The process stops, by a crash or by a service stop, which drains nothing;
\* everything is in memory, and the new process starts with an empty store.
Crash ==
    /\ crashes < MaxCrashes
    /\ crashes' = crashes + 1
    /\ forgotten' = forgotten \cup InMemory
    /\ items' = {} /\ ripe' = {} /\ due' = {}
    /\ queue' = <<>>
    /\ hand' = NoTask
    /\ verdict' = NoVerdict
    /\ pc' = "off"
    /\ missing' = FALSE
    /\ UNCHANGED <<episodes, status, platformVars, history, lost, strayed>>

-----------------------------------------------------------------------------
Webhook == \E t \in Tasks : Accept(t) \/ Reject(t)
Consumer ==
    \/ PassGate
    \/ Receive
    \/ PassRecheck \/ Requeue \/ RequeueFails
    \/ (\E v \in Verdicts : Evaluate(v)) \/ EvaluatePanics
    \/ FirstCallbackSucceeds \/ FirstCallbackFails
Retry(it) == RetryDelivers(it) \/ RetryLater(it) \/ GiveUp(it)
Retries == ScanBucket \/ \E it \in due : Retry(it)
Environment == TimePasses \/ TargetsVanish \/ TargetsReturn \/ Crash

Next == Webhook \/ Start \/ Consumer \/ Retries \/ Environment

Spec == Init /\ [][Next]_vars

\* The goroutines run and every HTTP call returns; a delay that has begun ends.
\* Neither requests, nor syncs, nor crashes have to happen.
ItemTimePasses(t) ==
    /\ \E it \in items \ ripe : it.task = t
    /\ TimePasses
    /\ \E it \in ripe' : it.task = t
Fairness ==
    /\ WF_vars(Consumer)
    /\ WF_vars(Retries)
    /\ \A t \in Tasks : WF_vars(ItemTimePasses(t))

FairSpec == Spec /\ Fairness

-----------------------------------------------------------------------------
(* Where an accepted task can be, and how it can end.                       *)

Answered(t) == \E v \in Verdicts : <<t, v>> \in history
Panicked(t) == <<t, "panic">> \in history
Dropped(t) == <<t, "callback_dropped">> \in history
Ended(t) == Answered(t) \/ Panicked(t) \/ Dropped(t) \/ t \in lost \/ t \in forgotten

\* The ways a task may end exclude each other.
EndsOneWay(t) ==
    /\ Answered(t) => ~Panicked(t) /\ ~Dropped(t) /\ t \notin lost \cup forgotten
    /\ Panicked(t) => ~Dropped(t) /\ t \notin lost \cup forgotten
    /\ Dropped(t) => t \notin lost \cup forgotten
    /\ t \in lost => t \notin forgotten

NoTaskTwice ==
    /\ \A i, j \in 1 .. Len(queue) : queue[i] = queue[j] => i = j
    /\ hand \notin QueuedTasks \cup HeldTasks
    /\ QueuedTasks \cap HeldTasks = {}
    /\ \A a, b \in items \cup due : a.task = b.task => a = b
    /\ items \cap due = {}

\* Every request answered with 200 is in exactly one place: once in the queue,
\* in the consumer's hand, once in the retry bucket or in the batch being
\* retried, or it has ended, and in one way only. Neither the requeue, nor the
\* scan that empties the bucket outside the lock of the retries, nor a crash
\* duplicates a task or makes one vanish unaccounted.
TasksAccountedFor ==
    /\ NoTaskTwice
    /\ \A t \in Tasks :
        /\ status[t] = "200" <=> t \in InMemory \/ Ended(t)
        /\ ~(t \in InMemory /\ Ended(t))
        /\ EndsOneWay(t)

\* The attempts of a task are counted right through every hand-over between
\* consumer, bucket and batch: an item that waits has been called back once
\* more than it was retried, and no task is dropped before, or called after,
\* 1 + MaxCallbackRetries calls.
CallBudget ==
    /\ \A it \in items \cup due : calls[it.task] = it.attempt + 1
    /\ \A t \in Tasks : Dropped(t) => calls[t] = MaxCallbackRetries + 1
    /\ \A t \in Tasks : calls[t] <= MaxCallbackRetries + 1

\* The platform never hears two different verdicts for one task, even when a
\* callback it took looked like a failure and was repeated: a retry repeats the
\* verdict of the one evaluation.
OneVerdict ==
    /\ \A t \in Tasks : \A v, w \in received[t] : v = w
    /\ \A it \in items \cup due : received[it.task] \subseteq {it.action}
    /\ pc = "callback" => received[hand] = {}

\* The history tells the truth: a verdict shown for a task is the one, and the
\* only one, that the platform has received for it.
TruthfulHistory ==
    \A t \in Tasks, v \in Verdicts : <<t, v>> \in history => received[t] = {v}

\* The pause has a hole, and the hole has a bound. Between the second check and
\* the evaluation, and between the receive and the requeue, a sync may install
\* a store with missing targets; the task in hand is then evaluated all the
\* same, or dropped if the queue has filled up. Each time targets go missing
\* that costs at most one task.
PauseBound ==
    Cardinality(lost) + Cardinality(strayed)
        + (IF missing /\ pc \in {"receive", "recheck", "evaluate"} THEN 1 ELSE 0)
        <= episodes

\* What has ended is over: no later callback, whatever was still under way.
EndIsFinal ==
    [][\A t \in Tasks :
        Ended(t) => Ended(t)' /\ calls'[t] = calls[t] /\ received'[t] = received[t]]_vars

\* When the consumer runs and no target is missing for good, every accepted
\* request ends: with a verdict, a panic or a dropped callback in the history,
\* or lost on one of the two ways the code has to lose it.
Settles ==
    <>[](pc # "off" /\ ~missing) =>
        \A t \in Tasks : (status[t] = "200") ~> Ended(t)

\* What the log line of a pause says (app.go:360): webhooks are still queued and
\* are served once the configuration is repaired. The code breaks this promise:
\* a webhook may take the place of the task that has to go back.
PausedTasksAreKept == lost = {}

-----------------------------------------------------------------------------
(* The abstract specification, and how the pipeline's state maps to it.     *)

StageOf(t) ==
    IF status[t] # "200" THEN "unknown"
    ELSE IF Answered(t) THEN "answered"
    ELSE IF Panicked(t) \/ Dropped(t) THEN "abandoned"
    ELSE IF t \in lost \cup forgotten THEN "lost"
    ELSE "pending"

Contract == INSTANCE ApprovalContract WITH stage <- [t \in Tasks |-> StageOf(t)]

\* The pipeline, with its queue, its two goroutines, its retries and its
\* crashes, implements the contract of a single request.
MeetsContract == Contract!ContractSpec
=============================================================================
