--------------------------- MODULE PipelineProofs ---------------------------
(***************************************************************************)
(* Theorems about Pipeline, for every number of tasks, every queue size,   *)
(* every retry limit, and any number of pauses and crashes: every accepted *)
(* task is in one place or has ended, once, and the platform hears one     *)
(* verdict for it.                                                         *)
(*                                                                         *)
(* The invariant has two halves. The first follows the tasks through the   *)
(* queue, the consumer's hand, the bucket and the batch. The second, which *)
(* needs the first, follows the calls and verdicts that each place implies.*)
(***************************************************************************)
EXTENDS Pipeline, FiniteSetTheorems, TLAPS

\* The consumer holds a task from the receive to the end of processTask, and a
\* verdict only between the evaluation and the callback.
HandInv ==
    /\ pc \in {"recheck", "evaluate", "callback"} => hand \in Tasks
    /\ pc \notin {"recheck", "evaluate", "callback"} => hand = NoTask
    /\ pc = "callback" => verdict \in Verdicts

TypeInv == TypeOK /\ HandInv

\* A callback, however it ends, keeps the types of what the platform has.
LEMMA CallbackTypes ==
    ASSUME received \in [Tasks -> SUBSET Verdicts], calls \in [Tasks -> Nat],
           NEW t \in Tasks, NEW v \in Verdicts,
           CallbackSucceeds(t, v) \/ CallbackFails(t, v)
    PROVE  received' \in [Tasks -> SUBSET Verdicts] /\ calls' \in [Tasks -> Nat]
  BY DEF CallbackSucceeds, CallbackFails

\* Every action keeps the variables typed, and the consumer's locals set
\* exactly when the code between receive and callback uses them.
LEMMA TypeInvStep == TypeInv /\ [Next]_vars => TypeInv'
<1> SUFFICES ASSUME TypeInv, [Next]_vars PROVE TypeInv'
  OBVIOUS
<1> USE MaxRetriesAssumption, PipelineAssumption
    DEF MaxRetriesAssumption, PipelineAssumption, TypeInv, TypeOK, HandInv
<1>1. CASE Webhook
  <2> PICK t \in Tasks : Accept(t) \/ Reject(t)
    BY <1>1 DEF Webhook
  <2>1. CASE Accept(t)
    BY <2>1 DEF Accept, bucketVars, consumerVars, platformVars, crashVars
  <2>2. CASE Reject(t)
    BY <2>2 DEF Reject, bucketVars, consumerVars, platformVars, crashVars
  <2> QED BY <2>1, <2>2
<1>2. CASE Start \/ PassGate
  BY <1>2 DEF Start, PassGate, bucketVars, platformVars, crashVars
<1>3. CASE Receive
  BY <1>3 DEF Receive, bucketVars, platformVars, crashVars
<1>4. CASE PassRecheck
  BY <1>4 DEF PassRecheck, bucketVars, platformVars, crashVars
<1>5. CASE Requeue
  BY <1>5 DEF Requeue, bucketVars, platformVars, crashVars
<1>6. CASE RequeueFails
  BY <1>6 DEF RequeueFails, bucketVars, platformVars, crashVars
<1>7. ASSUME NEW v \in Verdicts, Evaluate(v) PROVE TypeInv'
  BY <1>7 DEF Evaluate, BeginsWithMissing, bucketVars, platformVars, crashVars
<1>8. CASE EvaluatePanics
  BY <1>8 DEF EvaluatePanics, BeginsWithMissing, Failures, bucketVars, platformVars, crashVars
<1>9. CASE FirstCallbackSucceeds
  <2>1. received' \in [Tasks -> SUBSET Verdicts] /\ calls' \in [Tasks -> Nat]
    BY <1>9, CallbackTypes DEF FirstCallbackSucceeds
  <2> QED BY <1>9, <2>1 DEF FirstCallbackSucceeds, ConsumerDone, bucketVars, crashVars
<1>10. CASE FirstCallbackFails
  <2>1. received' \in [Tasks -> SUBSET Verdicts] /\ calls' \in [Tasks -> Nat]
    BY <1>10, CallbackTypes DEF FirstCallbackFails
  <2>2. items' \subseteq RetryItem /\ ripe' \subseteq items' /\ due' \subseteq RetryItem
    BY <1>10 DEF FirstCallbackFails, Add, RetryItem
  <2> QED BY <1>10, <2>1, <2>2 DEF FirstCallbackFails, ConsumerDone, Failures, crashVars
<1>11. CASE TimePasses
  BY <1>11 DEF TimePasses, DelayElapses, consumerVars, platformVars, crashVars
<1>12. CASE ScanBucket
  BY <1>12 DEF ScanBucket, Scan, consumerVars, platformVars, crashVars
<1>13. ASSUME NEW it \in due, Retry(it) PROVE TypeInv'
  <2> it \in RetryItem /\ it.task \in Tasks /\ it.action \in Verdicts
    BY DEF RetryItem
  <2>1. received' \in [Tasks -> SUBSET Verdicts] /\ calls' \in [Tasks -> Nat]
    BY <1>13, CallbackTypes DEF Retry, RetryDelivers, RetryLater, GiveUp
  <2>2. items' \subseteq RetryItem /\ ripe' \subseteq items' /\ due' \subseteq RetryItem
    <3>1. CASE RetryDelivers(it) \/ GiveUp(it)
      BY <3>1 DEF RetryDelivers, GiveUp, RetrySucceeds, Drop
    <3>2. CASE RetryLater(it)
      <4> it.attempt + 1 \in 0 .. MaxCallbackRetries - 1
        BY <3>2 DEF RetryLater, PutBack, RetryItem
      <4>1. [it EXCEPT !.attempt = @ + 1] \in RetryItem
        BY DEF RetryItem
      <4> QED BY <3>2, <4>1 DEF RetryLater, PutBack
    <3> QED BY <1>13, <3>1, <3>2 DEF Retry
  <2>3. history' \subseteq Tasks \X (Verdicts \cup Failures)
    BY <1>13 DEF Retry, RetryDelivers, RetryLater, GiveUp, Failures
  <2> QED BY <1>13, <2>1, <2>2, <2>3
        DEF Retry, RetryDelivers, RetryLater, GiveUp, consumerVars, crashVars
<1>14. CASE TargetsVanish \/ TargetsReturn
  <2>1. missing' \in BOOLEAN
    BY <1>14, Zenon DEF TargetsVanish, TargetsReturn
  <2>2. episodes' \in 0 .. MaxEpisodes
    BY <1>14 DEF TargetsVanish, TargetsReturn
  <2> QED BY <1>14, <2>1, <2>2
        DEF TargetsVanish, TargetsReturn, bucketVars, consumerVars, platformVars, crashVars
<1>15. CASE Crash
  <2>1. InMemory \subseteq Tasks
    BY DEF InMemory, QueuedTasks, HeldTasks, RetryItem
  <2>2. queue' \in Seq(Tasks) /\ Len(queue') <= QueueSize
    BY <1>15 DEF Crash
  <2>3. crashes' \in 0 .. MaxCrashes /\ forgotten' \subseteq Tasks
    BY <1>15, <2>1 DEF Crash
  <2>4. items' \subseteq RetryItem /\ ripe' \subseteq items' /\ due' \subseteq RetryItem
    BY <1>15 DEF Crash
  <2> QED BY <1>15, <2>2, <2>3, <2>4 DEF Crash, platformVars
<1>16. CASE UNCHANGED vars
  BY <1>16 DEF vars, bucketVars, consumerVars, platformVars, crashVars
<1> QED
  BY <1>1, <1>2, <1>3, <1>4, <1>5, <1>6, <1>7, <1>8, <1>9, <1>10, <1>11, <1>12, <1>13,
     <1>14, <1>15, <1>16 DEF Next, Consumer, Retries, Environment

LEMMA TypeInvInit == Init => TypeInv
<1> SUFFICES ASSUME Init PROVE TypeInv
  OBVIOUS
<1> USE MaxRetriesAssumption, PipelineAssumption DEF MaxRetriesAssumption, PipelineAssumption, Init
<1>1. queue \in Seq(Tasks) /\ Len(queue) <= QueueSize
  OBVIOUS
<1>2. status \in [Tasks -> {"none", "200", "503"}]
  OBVIOUS
<1>3. received \in [Tasks -> SUBSET Verdicts] /\ calls \in [Tasks -> Nat]
  OBVIOUS
<1>4. missing \in BOOLEAN
  BY Zenon
<1>5. episodes \in 0 .. MaxEpisodes /\ crashes \in 0 .. MaxCrashes
  OBVIOUS
<1> QED
  BY <1>1, <1>2, <1>3, <1>4, <1>5 DEF BucketInit, TypeInv, TypeOK, HandInv

\* The variables keep their types, and the consumer's locals are set exactly when
\* the code uses them: the inductive form of type correctness.
LEMMA TypeInvHolds == Spec => []TypeInv
  BY TypeInvInit, TypeInvStep, PTL DEF Spec

\* Every variable of the pipeline keeps its type, and the queue never holds more
\* than its capacity, whatever the interleaving of webhooks, consumer, retries,
\* syncs and crashes (web/webhook.go, app.go Run, consumer/retry.go).
THEOREM TypeCorrect == Spec => []TypeOK
<1>1. TypeInv => TypeOK
  BY DEF TypeInv
<1> QED BY <1>1, TypeInvHolds, PTL

-----------------------------------------------------------------------------
(* What a pause costs.                                                      *)

PauseInv ==
    /\ IsFiniteSet(lost)
    /\ IsFiniteSet(strayed)
    /\ PauseBound

\* Adding one task to a finite set of tasks adds at most one to its size.
LEMMA OneMore ==
    ASSUME NEW S, IsFiniteSet(S), NEW x
    PROVE  /\ IsFiniteSet(S \cup {x})
           /\ Cardinality(S \cup {x}) \in Nat
           /\ Cardinality(S) \in Nat
           /\ Cardinality(S \cup {x}) <= Cardinality(S) + 1
<1>1. Cardinality(S) \in Nat
  BY FS_CardinalityType
<1>2. IsFiniteSet(S \cup {x})
  BY FS_AddElement
<1>3. Cardinality(S \cup {x}) = IF x \in S THEN Cardinality(S) ELSE Cardinality(S) + 1
  BY FS_AddElement
<1> QED BY <1>1, <1>2, <1>3

\* Only two steps can hurt a task, both with targets missing and the consumer
\* past its first check; each of them ends the exposure that the bound counts.
LEMMA PauseInvStep == TypeInv /\ PauseInv /\ [Next]_vars => PauseInv'
<1> SUFFICES ASSUME TypeInv, PauseInv, [Next]_vars PROVE PauseInv'
  OBVIOUS
<1> DEFINE Exposed == missing /\ pc \in {"receive", "recheck", "evaluate"}
<1>1. Cardinality(lost) \in Nat /\ Cardinality(strayed) \in Nat /\ episodes \in Nat
  BY FS_CardinalityType, PipelineAssumption DEF PauseInv, TypeInv, TypeOK
<1>2. Cardinality(lost) + Cardinality(strayed) + (IF Exposed THEN 1 ELSE 0) <= episodes
  BY DEF PauseInv, PauseBound
<1>3. ASSUME UNCHANGED <<lost, strayed>>, episodes' = episodes, Exposed' => Exposed PROVE PauseInv'
  BY <1>1, <1>2, <1>3 DEF PauseInv, PauseBound
<1>4. CASE RequeueFails
  <2>1. Exposed /\ ~Exposed' /\ UNCHANGED <<strayed, episodes>> /\ lost' = lost \cup {hand}
    BY <1>4 DEF RequeueFails
  <2> QED BY <1>1, <1>2, <2>1, OneMore DEF PauseInv, PauseBound
<1>5. CASE EvaluatePanics \/ \E v \in Verdicts : Evaluate(v)
  <2>1. pc = "evaluate" /\ ~Exposed' /\ UNCHANGED <<lost, episodes>>
    BY <1>5 DEF Evaluate, EvaluatePanics
  <2>2. strayed' = IF missing THEN strayed \cup {hand} ELSE strayed
    BY <1>5 DEF Evaluate, EvaluatePanics, BeginsWithMissing
  <2>3. CASE missing
    BY <1>1, <1>2, <2>1, <2>2, <2>3, OneMore DEF PauseInv, PauseBound
  <2>4. CASE ~missing
    BY <1>1, <1>2, <2>1, <2>2, <2>4 DEF PauseInv, PauseBound
  <2> QED BY <2>3, <2>4
<1>6. CASE TargetsVanish
  <2>1. UNCHANGED <<lost, strayed>> /\ ~Exposed /\ episodes' = episodes + 1
    BY <1>6 DEF TargetsVanish
  <2> QED BY <1>1, <1>2, <2>1 DEF PauseInv, PauseBound
<1>7. CASE Webhook
  BY <1>3, <1>7 DEF Webhook, Accept, Reject, consumerVars
<1>8. CASE Start \/ PassGate \/ Receive \/ PassRecheck \/ Requeue
  BY <1>3, <1>8 DEF Start, PassGate, Receive, PassRecheck, Requeue
<1>9. CASE FirstCallbackSucceeds \/ FirstCallbackFails
  BY <1>3, <1>9 DEF FirstCallbackSucceeds, FirstCallbackFails, ConsumerDone
<1>10. CASE Retries \/ TimePasses
  BY <1>3, <1>10 DEF Retries, Retry, ScanBucket, RetryDelivers, RetryLater, GiveUp, TimePasses,
       consumerVars
<1>11. CASE TargetsReturn \/ Crash
  BY <1>3, <1>11 DEF TargetsReturn, Crash, consumerVars
<1>12. CASE UNCHANGED vars
  BY <1>3, <1>12 DEF vars, consumerVars
<1> QED
  BY <1>4, <1>5, <1>6, <1>7, <1>8, <1>9, <1>10, <1>11, <1>12 DEF Next, Consumer, Environment

LEMMA PauseInvInit == Init => PauseInv
  BY FS_EmptySet DEF Init, PauseInv, PauseBound

\* Each time targets go missing, the pause of the consumer loses or lets through
\* at most one task: the second check in Run closes all but one step of the race.
THEOREM PauseIsBounded == Spec => []PauseBound
<1>1. PauseInv => PauseBound
  BY DEF PauseInv
<1> QED BY <1>1, PauseInvInit, PauseInvStep, TypeInvHolds, PTL DEF Spec

-----------------------------------------------------------------------------
(* Queues without repetition.                                               *)

Elems(q) == {q[i] : i \in 1 .. Len(q)}
Distinct(q) == \A i, j \in 1 .. Len(q) : q[i] = q[j] => i = j

LEMMA AppendDistinct ==
    ASSUME NEW S, NEW q \in Seq(S), NEW e \in S
    PROVE  /\ Elems(Append(q, e)) = Elems(q) \cup {e}
           /\ Distinct(q) /\ e \notin Elems(q) => Distinct(Append(q, e))
<1> DEFINE r == Append(q, e)
<1>1. Len(r) = Len(q) + 1 /\ Len(q) \in Nat
  OBVIOUS
<1>2. \A i \in 1 .. Len(q) : r[i] = q[i]
  OBVIOUS
<1>3. r[Len(q) + 1] = e
  OBVIOUS
<1>4. 1 .. Len(r) = (1 .. Len(q)) \cup {Len(q) + 1}
  BY <1>1
<1> HIDE DEF r
<1>5. Elems(r) = Elems(q) \cup {e}
  BY <1>2, <1>3, <1>4 DEF Elems
<1>6. Distinct(q) /\ e \notin Elems(q) => Distinct(r)
  BY <1>2, <1>3, <1>4 DEF Elems, Distinct
<1> QED BY <1>5, <1>6 DEF r

LEMMA TailDistinct ==
    ASSUME NEW S, NEW q \in Seq(S), q # <<>>, Distinct(q)
    PROVE  /\ Elems(Tail(q)) = Elems(q) \ {Head(q)}
           /\ Head(q) \in Elems(q)
           /\ Distinct(Tail(q))
<1> DEFINE r == Tail(q)
<1>1. Len(q) \in Nat \ {0} /\ Len(r) = Len(q) - 1 /\ Head(q) = q[1]
  OBVIOUS
<1>2. \A i \in 1 .. Len(r) : r[i] = q[i + 1]
  OBVIOUS
<1>3. \A i \in 1 .. Len(q) : i = 1 \/ (i - 1 \in 1 .. Len(r) /\ r[i - 1] = q[i])
  BY <1>1, <1>2
<1>4. \A i \in 1 .. Len(r) : i + 1 \in 1 .. Len(q) /\ i + 1 # 1
  BY <1>1
<1>5. 1 \in 1 .. Len(q)
  BY <1>1
<1> HIDE DEF r
<1>6. Distinct(r)
  <2> SUFFICES ASSUME NEW i \in 1 .. Len(r), NEW j \in 1 .. Len(r), r[i] = r[j] PROVE i = j
    BY DEF Distinct
  <2>1. i + 1 = j + 1
    BY <1>2, <1>4 DEF Distinct
  <2> QED BY <2>1, <1>1
<1>7. Elems(r) = Elems(q) \ {q[1]}
  <2>1. \A x : x \in Elems(r) => x \in Elems(q) /\ x # q[1]
    BY <1>2, <1>4, <1>5 DEF Elems, Distinct
  <2>2. \A x : x \in Elems(q) /\ x # q[1] => x \in Elems(r)
    BY <1>3 DEF Elems
  <2> QED BY <2>1, <2>2
<1> QED BY <1>1, <1>5, <1>6, <1>7 DEF r, Elems

-----------------------------------------------------------------------------
(* What a step does to the end of a task.                                   *)

SameEnd(t) ==
    /\ Answered(t)' <=> Answered(t)
    /\ Panicked(t)' <=> Panicked(t)
    /\ Dropped(t)' <=> Dropped(t)
    /\ t \in lost' <=> t \in lost
    /\ t \in forgotten' <=> t \in forgotten

\* One entry of the history ends at most its own task, in the way it says.
LEMMA HistoryEntry ==
    ASSUME NEW t \in Tasks, NEW e \in Verdicts \cup Failures,
           history' = history \cup {<<t, e>>}, UNCHANGED <<lost, forgotten>>
    PROVE  \A u \in Tasks :
               /\ Answered(u)' <=> Answered(u) \/ (u = t /\ e \in Verdicts)
               /\ Panicked(u)' <=> Panicked(u) \/ (u = t /\ e = "panic")
               /\ Dropped(u)' <=> Dropped(u) \/ (u = t /\ e = "callback_dropped")
               /\ u \in lost' <=> u \in lost
               /\ u \in forgotten' <=> u \in forgotten
  BY DEF Answered, Panicked, Dropped

LEMMA NoHistoryEntry ==
    ASSUME UNCHANGED history
    PROVE  \A u \in Tasks :
               /\ Answered(u)' <=> Answered(u)
               /\ Panicked(u)' <=> Panicked(u)
               /\ Dropped(u)' <=> Dropped(u)
  BY DEF Answered, Panicked, Dropped

Accounted(t) ==
    /\ status[t] = "200" <=> t \in InMemory \/ Ended(t)
    /\ ~(t \in InMemory /\ Ended(t))
    /\ EndsOneWay(t)

\* A task that ends nowhere and moves nowhere stays accounted for.
LEMMA StaysAccounted ==
    ASSUME NEW t \in Tasks, Accounted(t), SameEnd(t),
           t \in InMemory' <=> t \in InMemory,
           status'[t] = "200" <=> status[t] = "200"
    PROVE  Accounted(t)'
  BY DEF Accounted, SameEnd, Ended, EndsOneWay

\* A task that leaves memory is accounted for when it ends in just one way.
LEMMA EndsAccounted ==
    ASSUME NEW t \in Tasks, Accounted(t), t \in InMemory, t \notin InMemory',
           status' = status, Ended(t)', EndsOneWay(t)'
    PROVE  Accounted(t)'
  BY DEF Accounted

-----------------------------------------------------------------------------
(* The places of a task: no step puts it in two.                            *)

LEMMA Places ==
    /\ QueuedTasks = Elems(queue)
    /\ NoTaskTwice <=>
        /\ Distinct(queue)
        /\ hand \notin Elems(queue) \cup HeldTasks
        /\ Elems(queue) \cap HeldTasks = {}
        /\ \A a, b \in items \cup due : a.task = b.task => a = b
        /\ items \cap due = {}
    /\ InMemory = Elems(queue) \cup ({hand} \ {NoTask}) \cup HeldTasks
  BY DEF QueuedTasks, Elems, Distinct, NoTaskTwice, InMemory

LEMMA PlacesAfter ==
    /\ NoTaskTwice' <=>
        /\ Distinct(queue')
        /\ hand' \notin Elems(queue') \cup HeldTasks'
        /\ Elems(queue') \cap HeldTasks' = {}
        /\ \A a, b \in items' \cup due' : a.task = b.task => a = b
        /\ items' \cap due' = {}
    /\ InMemory' = Elems(queue') \cup ({hand'} \ {NoTask}) \cup HeldTasks'
  BY DEF QueuedTasks, Elems, Distinct, NoTaskTwice, InMemory

\* The bucket and the batch stay as they are: so do the tasks they hold.
LEMMA HeldStays ==
    ASSUME UNCHANGED <<items, due>>
    PROVE  HeldTasks' = HeldTasks
  BY DEF HeldTasks

LEMMA HeldAdd ==
    ASSUME NEW t \in Tasks, NEW v, Add(t, v)
    PROVE  LET jt == [task |-> t, action |-> v, attempt |-> 0]
           IN  /\ items' \cup due' = (items \cup due) \cup {jt}
               /\ HeldTasks' = HeldTasks \cup {t}
<1> DEFINE jt == [task |-> t, action |-> v, attempt |-> 0]
<1>1. items' \cup due' = (items \cup due) \cup {jt}
  BY DEF Add
<1>2. jt.task = t
  OBVIOUS
<1> HIDE DEF jt
<1>3. HeldTasks' = HeldTasks \cup {t}
  BY <1>1, <1>2 DEF HeldTasks
<1> QED BY <1>1, <1>3 DEF jt

LEMMA HeldScan ==
    ASSUME Scan, ripe \subseteq items
    PROVE  /\ items' \cup due' = items \cup due
           /\ HeldTasks' = HeldTasks
<1>1. items' \cup due' = items \cup due
  BY DEF Scan
<1> QED BY <1>1 DEF HeldTasks

\* A retry that leaves nothing behind.
LEMMA HeldLeaves ==
    ASSUME TypeInv, NoTaskTwice, NEW it \in due, RetrySucceeds(it) \/ Drop(it)
    PROVE  /\ items' \cup due' = (items \cup due) \ {it}
           /\ HeldTasks' = HeldTasks \ {it.task}
<1>1. items' \cup due' = (items \cup due) \ {it}
  BY DEF RetrySucceeds, Drop, NoTaskTwice
<1> QED BY <1>1 DEF HeldTasks, NoTaskTwice

\* A retry that puts its item back.
LEMMA HeldPutBack ==
    ASSUME TypeInv, NoTaskTwice, NEW it \in due, PutBack(it)
    PROVE  LET jt == [it EXCEPT !.attempt = @ + 1]
           IN  /\ jt \in RetryItem /\ jt.task = it.task
               /\ jt.action = it.action /\ jt.attempt = it.attempt + 1
               /\ items' = items \cup {jt} /\ due' = due \ {it}
               /\ items' \cup due' = ((items \cup due) \ {it}) \cup {jt}
               /\ HeldTasks' = HeldTasks
<1> DEFINE jt == [it EXCEPT !.attempt = @ + 1]
<1>1. it \in RetryItem /\ it.attempt + 1 \in 0 .. MaxCallbackRetries - 1
  BY MaxRetriesAssumption DEF TypeInv, TypeOK, PutBack, RetryItem
<1>2. jt \in RetryItem /\ jt.task = it.task /\ jt.action = it.action /\ jt.attempt = it.attempt + 1
  BY <1>1 DEF RetryItem
<1>3. items' = items \cup {jt} /\ due' = due \ {it}
  BY DEF PutBack
<1> HIDE DEF jt
<1>4. items' \cup due' = ((items \cup due) \ {it}) \cup {jt}
  BY <1>3 DEF NoTaskTwice
<1>5. HeldTasks' = HeldTasks
  BY <1>2, <1>4 DEF HeldTasks, NoTaskTwice
<1> QED BY <1>2, <1>3, <1>4, <1>5 DEF jt

\* A step that moves no task and ends none.
LEMMA NothingMoves ==
    ASSUME TypeInv, TasksAccountedFor, UNCHANGED <<items, due, queue, hand, history, lost, forgotten>>,
           \A t \in Tasks : status'[t] = "200" <=> status[t] = "200"
    PROVE  TasksAccountedFor'
<1>1. NoTaskTwice'
  BY HeldStays, Places DEF TasksAccountedFor, NoTaskTwice, QueuedTasks
<1>2. InMemory' = InMemory
  BY HeldStays DEF InMemory, QueuedTasks
<1>3. \A t \in Tasks : SameEnd(t)
  BY NoHistoryEntry DEF SameEnd
<1>4. \A t \in Tasks : Accounted(t)
  BY DEF TasksAccountedFor, Accounted
<1>5. \A t \in Tasks : Accounted(t)'
  BY <1>2, <1>3, <1>4, StaysAccounted
<1> QED BY <1>1, <1>5 DEF TasksAccountedFor, Accounted

\* A step that moves a task from one place to the next and ends none.
LEMMA TaskMoves ==
    ASSUME TypeInv, TasksAccountedFor, NoTaskTwice', InMemory' = InMemory, status' = status,
           \A t \in Tasks : SameEnd(t)
    PROVE  TasksAccountedFor'
<1>1. \A t \in Tasks : Accounted(t)
  BY DEF TasksAccountedFor, Accounted
<1>2. \A t \in Tasks : Accounted(t)'
  BY <1>1, StaysAccounted
<1> QED BY <1>2 DEF TasksAccountedFor, Accounted

\* A step that takes one task out of memory and ends it, and no other.
LEMMA TaskEnds ==
    ASSUME TypeInv, TasksAccountedFor, NoTaskTwice', NEW t \in Tasks \cap InMemory,
           InMemory' = InMemory \ {t}, status' = status,
           Ended(t)', ~Ended(t) => EndsOneWay(t)',
           \A u \in Tasks \ {t} : SameEnd(u)
    PROVE  TasksAccountedFor'
<1>1. \A u \in Tasks : Accounted(u)
  BY DEF TasksAccountedFor, Accounted
<1>2. Accounted(t)'
  BY <1>1, EndsAccounted DEF Accounted
<1>3. \A u \in Tasks \ {t} : Accounted(u)'
  BY <1>1, StaysAccounted
<1> QED BY <1>2, <1>3 DEF TasksAccountedFor, Accounted

\* Every step keeps every accepted task in exactly one place or at one end.
LEMMA AccountStep == TypeInv /\ TypeInv' /\ TasksAccountedFor /\ [Next]_vars => TasksAccountedFor'
<1> SUFFICES ASSUME TypeInv, TypeInv', TasksAccountedFor, [Next]_vars PROVE TasksAccountedFor'
  OBVIOUS
<1>0. /\ NoTaskTwice
      /\ queue \in Seq(Tasks)
      /\ hand \in Tasks \cup {NoTask} /\ NoTask \notin Tasks
      /\ HeldTasks \subseteq Tasks /\ Elems(queue) \subseteq Tasks
      /\ status \in [Tasks -> {"none", "200", "503"}]
  <2>1. NoTaskTwice
    BY DEF TasksAccountedFor
  <2>2. HeldTasks \subseteq Tasks
    BY DEF TypeInv, TypeOK, HeldTasks, RetryItem
  <2>3. queue \in Seq(Tasks) /\ Elems(queue) \subseteq Tasks
    BY DEF TypeInv, TypeOK, Elems
  <2> QED BY <2>1, <2>2, <2>3, PipelineAssumption DEF TypeInv, TypeOK
<1>1. ASSUME NEW t \in Tasks, Accept(t) PROVE TasksAccountedFor'
  <2>1. t \notin InMemory
    BY <1>1 DEF Accept, TasksAccountedFor
  <2>2. Elems(queue') = Elems(queue) \cup {t} /\ Distinct(queue')
    BY <1>0, <1>1, <2>1, AppendDistinct, Places DEF Accept
  <2>3. HeldTasks' = HeldTasks /\ hand' = hand /\ UNCHANGED <<items, due, history, lost, forgotten>>
    BY <1>1, HeldStays DEF Accept, bucketVars, consumerVars, crashVars
  <2>4. NoTaskTwice'
    BY <1>0, <2>1, <2>2, <2>3, Places, PlacesAfter
  <2>5. InMemory' = InMemory \cup {t}
    BY <2>2, <2>3, Places, PlacesAfter
  <2>6. \A u \in Tasks : SameEnd(u)
    BY <2>3, NoHistoryEntry DEF SameEnd
  <2>7. \A u \in Tasks : Accounted(u)
    BY DEF TasksAccountedFor, Accounted
  <2>8. Accounted(t)'
    <3>1. status'[t] = "200" /\ status[t] # "200"
      BY <1>0, <1>1 DEF Accept
    <3> QED BY <2>5, <2>6, <2>7, <3>1 DEF Accounted, SameEnd, Ended, EndsOneWay
  <2>9. \A u \in Tasks \ {t} : Accounted(u)'
    <3>1. \A u \in Tasks \ {t} : status'[u] = status[u]
      BY <1>0, <1>1 DEF Accept
    <3> QED BY <2>5, <2>6, <2>7, <3>1, StaysAccounted
  <2> QED BY <2>4, <2>8, <2>9 DEF TasksAccountedFor, Accounted
<1>2. ASSUME NEW t \in Tasks, Reject(t) PROVE TasksAccountedFor'
  <2>1. \A u \in Tasks : status'[u] = "200" <=> status[u] = "200"
    BY <1>0, <1>2 DEF Reject
  <2> QED BY <1>2, <2>1, NothingMoves DEF Reject, bucketVars, consumerVars, crashVars
<1>3. CASE Start \/ PassGate \/ PassRecheck \/ TimePasses \/ TargetsVanish \/ TargetsReturn
           \/ (\E v \in Verdicts : Evaluate(v)) \/ UNCHANGED vars
  <2>1. /\ UNCHANGED <<items, due, queue, hand, history, lost, forgotten>>
        /\ UNCHANGED status
    BY <1>3 DEF Start, PassGate, PassRecheck, TimePasses, DelayElapses, TargetsVanish,
         TargetsReturn, Evaluate, vars, bucketVars, consumerVars, crashVars
  <2> QED BY <2>1, NothingMoves
<1>4. CASE Receive
  <2>1. /\ Elems(queue') = Elems(queue) \ {hand'} /\ hand' \in Elems(queue) /\ Distinct(queue')
    BY <1>0, <1>4, TailDistinct, Places DEF Receive
  <2>2. hand = NoTask
    BY <1>4 DEF Receive, TypeInv, HandInv
  <2>3. HeldTasks' = HeldTasks /\ UNCHANGED <<items, due, status, history, lost, forgotten>>
    BY <1>4, HeldStays DEF Receive, bucketVars, crashVars
  <2>4. NoTaskTwice' /\ InMemory' = InMemory
    BY <1>0, <2>1, <2>2, <2>3, Places, PlacesAfter
  <2> QED BY <2>3, <2>4, NoHistoryEntry, TaskMoves DEF SameEnd
<1>5. CASE Requeue
  <2>1. hand \in Tasks
    BY <1>5 DEF Requeue, TypeInv, HandInv
  <2>2. Elems(queue') = Elems(queue) \cup {hand} /\ Distinct(queue') /\ hand' = NoTask
    BY <1>0, <1>5, <2>1, AppendDistinct, Places DEF Requeue
  <2>3. HeldTasks' = HeldTasks /\ UNCHANGED <<items, due, status, history, lost, forgotten>>
    BY <1>5, HeldStays DEF Requeue, bucketVars, crashVars
  <2>4. NoTaskTwice' /\ InMemory' = InMemory
    BY <1>0, <2>1, <2>2, <2>3, Places, PlacesAfter
  <2> QED BY <2>3, <2>4, NoHistoryEntry, TaskMoves DEF SameEnd
<1>6. CASE RequeueFails
  <2>1. PICK t \in Tasks : t = hand /\ hand' = NoTask
    BY <1>6 DEF RequeueFails, TypeInv, HandInv
  <2>2. /\ HeldTasks' = HeldTasks
        /\ UNCHANGED <<items, due, queue, status, history, forgotten>>
        /\ lost' = lost \cup {t}
    BY <1>6, <2>1, HeldStays DEF RequeueFails, bucketVars, crashVars
  <2>3. NoTaskTwice' /\ InMemory' = InMemory \ {t} /\ t \in InMemory
    BY <1>0, <2>1, <2>2, Places, PlacesAfter
  <2>4. /\ Ended(t)'
        /\ ~Ended(t) => EndsOneWay(t)'
        /\ \A u \in Tasks \ {t} : SameEnd(u)
    BY <2>1, <2>2, NoHistoryEntry DEF SameEnd, Ended, EndsOneWay
  <2> QED BY <2>1, <2>2, <2>3, <2>4, TaskEnds
<1>7. CASE EvaluatePanics \/ FirstCallbackSucceeds
  <2>1. PICK t \in Tasks : t = hand /\ hand' = NoTask
    BY <1>7 DEF EvaluatePanics, FirstCallbackSucceeds, ConsumerDone, TypeInv, HandInv
  <2>2. HeldTasks' = HeldTasks /\ UNCHANGED <<items, due, queue, status, lost, forgotten>>
    BY <1>7, HeldStays DEF EvaluatePanics, FirstCallbackSucceeds, bucketVars, crashVars
  <2>3. NoTaskTwice' /\ InMemory' = InMemory \ {t} /\ t \in InMemory
    BY <1>0, <2>1, <2>2, Places, PlacesAfter
  <2>4. PICK e \in Verdicts \cup {"panic"} : history' = history \cup {<<t, e>>}
    BY <1>7, <2>1 DEF EvaluatePanics, FirstCallbackSucceeds, TypeInv, HandInv
  <2>5. e \notin {"callback_dropped"} /\ (e = "panic" => e \notin Verdicts) /\ e \in Verdicts \cup Failures
    BY PipelineAssumption DEF Failures
  <2>6. /\ Ended(t)'
        /\ ~Ended(t) => EndsOneWay(t)'
        /\ \A u \in Tasks \ {t} : SameEnd(u)
    BY <2>1, <2>2, <2>4, <2>5, HistoryEntry DEF SameEnd, Ended, EndsOneWay
  <2> QED BY <2>1, <2>2, <2>3, <2>6, TaskEnds
<1>8. CASE FirstCallbackFails
  <2>1. PICK t \in Tasks : t = hand /\ hand' = NoTask /\ Add(t, verdict)
    BY <1>8 DEF FirstCallbackFails, ConsumerDone, TypeInv, HandInv
  <2>2. UNCHANGED <<queue, status, lost, forgotten>> /\ due' = due
    BY <1>8 DEF FirstCallbackFails, Add, crashVars
  <2> DEFINE jt == [task |-> t, action |-> verdict, attempt |-> 0]
  <2>3. HeldTasks' = HeldTasks \cup {t} /\ items' = items \cup {jt} /\ jt.task = t
    BY <2>1, HeldAdd DEF Add
  <2> HIDE DEF jt
  <2>4. NoTaskTwice' /\ InMemory' = InMemory
    BY <1>0, <2>1, <2>2, <2>3, Places, PlacesAfter DEF HeldTasks
  <2>5. \A u \in Tasks : SameEnd(u)
    <3>1. history' = history \cup {<<t, "callback_retry">>}
      BY <1>8, <2>1 DEF FirstCallbackFails
    <3>2. "callback_retry" \notin Verdicts /\ "callback_retry" \in Failures
      BY PipelineAssumption DEF Failures
    <3> QED BY <2>1, <2>2, <3>1, <3>2, HistoryEntry DEF SameEnd
  <2> QED BY <2>2, <2>4, <2>5, TaskMoves
<1>9. CASE ScanBucket
  <2>1. UNCHANGED <<queue, hand, status, history, lost, forgotten>> /\ Scan
    BY <1>9 DEF ScanBucket, consumerVars, crashVars
  <2>2. items' \cup due' = items \cup due /\ HeldTasks' = HeldTasks /\ items' \cap due' = {}
    BY <2>1, HeldScan DEF Scan, TypeInv, TypeOK
  <2>3. NoTaskTwice' /\ InMemory' = InMemory
    BY <1>0, <2>1, <2>2, Places, PlacesAfter
  <2> QED BY <2>1, <2>3, NoHistoryEntry, TaskMoves DEF SameEnd
<1>10. ASSUME NEW it \in due, RetryDelivers(it) \/ GiveUp(it) PROVE TasksAccountedFor'
  <2>1. it \in RetryItem /\ it.task \in Tasks /\ it.action \in Verdicts /\ it.task \in HeldTasks
    BY DEF TypeInv, TypeOK, RetryItem, HeldTasks
  <2>2. /\ items' \cup due' = (items \cup due) \ {it}
        /\ HeldTasks' = HeldTasks \ {it.task}
        /\ items' \cap due' = {}
    BY <1>0, <1>10, HeldLeaves
      DEF RetryDelivers, GiveUp, RetrySucceeds, Drop, NoTaskTwice
  <2>3. UNCHANGED <<queue, hand, status, lost, forgotten>>
    BY <1>10 DEF RetryDelivers, GiveUp, consumerVars, crashVars
  <2>4. NoTaskTwice' /\ InMemory' = InMemory \ {it.task} /\ it.task \in InMemory
    BY <1>0, <2>1, <2>2, <2>3, Places, PlacesAfter
  <2>5. PICK e \in Verdicts \cup {"callback_dropped"} : history' = history \cup {<<it.task, e>>}
    BY <1>10, <2>1 DEF RetryDelivers, GiveUp
  <2>6. e # "panic" /\ (e = "callback_dropped" => e \notin Verdicts) /\ e \in Verdicts \cup Failures
    BY PipelineAssumption DEF Failures
  <2>7. /\ Ended(it.task)'
        /\ ~Ended(it.task) => EndsOneWay(it.task)'
        /\ \A u \in Tasks \ {it.task} : SameEnd(u)
    BY <2>1, <2>3, <2>5, <2>6, HistoryEntry DEF SameEnd, Ended, EndsOneWay
  <2> QED BY <2>1, <2>3, <2>4, <2>7, TaskEnds
<1>11. ASSUME NEW it \in due, RetryLater(it) PROVE TasksAccountedFor'
  <2>1. UNCHANGED <<queue, hand, status, history, lost, forgotten>> /\ PutBack(it)
    BY <1>11 DEF RetryLater, consumerVars, crashVars
  <2> DEFINE jt == [it EXCEPT !.attempt = @ + 1]
  <2>2. /\ jt.task = it.task
        /\ items' = items \cup {jt} /\ due' = due \ {it}
        /\ items' \cup due' = ((items \cup due) \ {it}) \cup {jt}
        /\ HeldTasks' = HeldTasks
    BY <1>0, <2>1, HeldPutBack
  <2>3. jt # it
    <3>1. it \in RetryItem /\ it.attempt \in Int
      BY MaxRetriesAssumption DEF TypeInv, TypeOK, RetryItem
    <3>2. jt.attempt = it.attempt + 1
      BY <1>0, <2>1, HeldPutBack
    <3> HIDE DEF jt
    <3> QED BY <3>1, <3>2
  <2> HIDE DEF jt
  <2>4. NoTaskTwice' /\ InMemory' = InMemory
    <3>1. \A a, b \in items' \cup due' : a.task = b.task => a = b
      BY <1>0, <2>2, Places, PlacesAfter
    <3>2. items' \cap due' = {}
      BY <1>0, <2>2, <2>3, Places, PlacesAfter
    <3> QED BY <1>0, <2>1, <2>2, <3>1, <3>2, Places, PlacesAfter
  <2> QED BY <2>1, <2>4, NoHistoryEntry, TaskMoves DEF SameEnd
<1>12. CASE Crash
  <2>1. /\ queue' = <<>> /\ hand' = NoTask /\ items' = {} /\ due' = {}
        /\ forgotten' = forgotten \cup InMemory
        /\ UNCHANGED <<status, history, lost>>
    BY <1>12 DEF Crash
  <2>2. HeldTasks' = {}
    BY <2>1 DEF HeldTasks
  <2>3. Elems(queue') = {} /\ Distinct(queue')
    BY <2>1 DEF Elems, Distinct
  <2>4. NoTaskTwice' /\ InMemory' = {}
    BY <2>1, <2>2, <2>3, Places, PlacesAfter
  <2>5. \A u \in Tasks : Accounted(u)
    BY DEF TasksAccountedFor, Accounted
  <2>6. \A u \in Tasks : Accounted(u)'
    BY <2>1, <2>4, <2>5, NoHistoryEntry DEF Accounted, Ended, EndsOneWay
  <2> QED BY <2>4, <2>6 DEF TasksAccountedFor, Accounted
<1> QED
  BY <1>1, <1>2, <1>3, <1>4, <1>5, <1>6, <1>7, <1>8, <1>9, <1>10, <1>11, <1>12
    DEF Next, Webhook, Consumer, Retries, Retry, Environment

LEMMA AccountInit == Init => TasksAccountedFor
<1> SUFFICES ASSUME Init PROVE TasksAccountedFor
  OBVIOUS
<1>1. HeldTasks = {} /\ Elems(queue) = {} /\ Distinct(queue) /\ hand = NoTask
  BY DEF Init, BucketInit, HeldTasks, Elems, Distinct
<1>2. NoTaskTwice /\ InMemory = {}
  BY <1>1, Places DEF Init, BucketInit
<1>3. \A t \in Tasks : status[t] = "none" /\ ~Ended(t)
  BY DEF Init, Ended, Answered, Panicked, Dropped
<1>4. \A t \in Tasks : EndsOneWay(t)
  BY <1>3 DEF EndsOneWay, Ended
<1> QED BY <1>2, <1>3, <1>4 DEF TasksAccountedFor

\* Neither the requeue, nor the scan, nor the retries, nor a crash duplicates an
\* accepted task or makes one vanish unaccounted.
THEOREM TasksAreAccountedFor == Spec => []TasksAccountedFor
<1>1. TypeInv /\ TypeInv' /\ TasksAccountedFor /\ [Next]_vars => TasksAccountedFor'
  BY AccountStep
<1> QED BY <1>1, AccountInit, TypeInvHolds, PTL DEF Spec

-----------------------------------------------------------------------------
(* What the platform has been told about a task, place by place.            *)

Held == items \cup due

Told(t) ==
    /\ t \notin HeldTasks /\ ~Ended(t) => calls[t] = 0 /\ received[t] = {}
    /\ \A it \in Held : it.task = t =>
           calls[t] = it.attempt + 1 /\ received[t] \subseteq {it.action}
    /\ Ended(t) => calls[t] <= MaxCallbackRetries + 1 /\ \A v, w \in received[t] : v = w
    /\ Dropped(t) => calls[t] = MaxCallbackRetries + 1
    /\ \A v \in Verdicts : <<t, v>> \in history => received[t] = {v}

ToldInv == \A t \in Tasks : Told(t)

\* A task that is not called back keeps what it has, even when it ends.
LEMMA UntouchedTold ==
    ASSUME TypeInv, NEW t \in Tasks, Told(t),
           calls'[t] = calls[t], received'[t] = received[t],
           \A it \in Held' : it.task = t => it \in Held,
           t \notin HeldTasks' /\ ~Ended(t)' => t \notin HeldTasks /\ ~Ended(t),
           Dropped(t)' => Dropped(t),
           \A v \in Verdicts : <<t, v>> \in history' => <<t, v>> \in history
    PROVE  Told(t)'
<1>1. \A it \in Held : it.attempt \in 0 .. MaxCallbackRetries - 1
  BY DEF TypeInv, TypeOK, RetryItem, Held
<1>2. t \in HeldTasks => \E it \in Held : it.task = t
  BY DEF HeldTasks, Held
<1>3. calls[t] <= MaxCallbackRetries + 1 /\ \A v, w \in received[t] : v = w
  <2>1. CASE t \in HeldTasks
    BY <1>1, <1>2, <2>1, MaxRetriesAssumption DEF Told
  <2>2. CASE t \notin HeldTasks
    BY <2>2, MaxRetriesAssumption DEF Told
  <2> QED BY <2>1, <2>2
<1> QED BY <1>3 DEF Told

\* Every step leaves what each task has been told in accord with its place.
LEMMA ToldStep ==
    TypeInv /\ TasksAccountedFor /\ ToldInv /\ [Next]_vars => ToldInv'
<1> SUFFICES ASSUME TypeInv, TasksAccountedFor, ToldInv, [Next]_vars, NEW t \in Tasks
             PROVE  Told(t)'
  BY DEF ToldInv
<1>0. /\ Told(t)
      /\ NoTaskTwice
      /\ calls \in [Tasks -> Nat] /\ received \in [Tasks -> SUBSET Verdicts]
      /\ t \in InMemory => ~Ended(t)
  BY DEF ToldInv, TasksAccountedFor, TypeInv, TypeOK
<1>1. CASE Webhook \/ Start \/ PassGate \/ Receive \/ PassRecheck \/ Requeue
           \/ (\E v \in Verdicts : Evaluate(v)) \/ TimePasses \/ TargetsVanish
           \/ TargetsReturn \/ UNCHANGED vars
  <2>1. UNCHANGED <<items, due, calls, received, history, lost, forgotten>>
    BY <1>1 DEF Webhook, Accept, Reject, Start, PassGate, Receive, PassRecheck, Requeue,
         Evaluate, TimePasses, DelayElapses, TargetsVanish, TargetsReturn, vars,
         bucketVars, platformVars, crashVars
  <2>2. Held' = Held /\ HeldTasks' = HeldTasks
    BY <2>1, HeldStays DEF Held
  <2>3. Ended(t)' <=> Ended(t)
    BY <2>1, NoHistoryEntry DEF Ended
  <2> QED BY <1>0, <2>1, <2>2, <2>3, NoHistoryEntry, UntouchedTold
<1>2. CASE RequeueFails \/ EvaluatePanics
  <2>1. PICK h \in Tasks : h = hand
    BY <1>2 DEF RequeueFails, EvaluatePanics, TypeInv, HandInv
  <2>2. /\ UNCHANGED <<items, due, calls, received, forgotten>>
        /\ \/ UNCHANGED history /\ lost' = lost \cup {h}
           \/ UNCHANGED lost /\ history' = history \cup {<<h, "panic">>}
    BY <1>2, <2>1 DEF RequeueFails, EvaluatePanics, bucketVars, platformVars, crashVars
  <2>3. Held' = Held /\ HeldTasks' = HeldTasks
    BY <2>2, HeldStays DEF Held
  <2>4. "panic" \notin Verdicts /\ "panic" \in Failures
    BY PipelineAssumption DEF Failures
  <2>5. /\ Ended(t) => Ended(t)'
        /\ Dropped(t)' => Dropped(t)
        /\ \A v \in Verdicts : <<t, v>> \in history' => <<t, v>> \in history
    <3>1. CASE UNCHANGED history /\ lost' = lost \cup {h}
      BY <2>2, <3>1, NoHistoryEntry DEF Ended
    <3>2. CASE UNCHANGED lost /\ history' = history \cup {<<h, "panic">>}
      BY <2>2, <2>4, <3>2, HistoryEntry DEF Ended
    <3> QED BY <2>2, <3>1, <3>2
  <2> QED BY <1>0, <2>2, <2>3, <2>5, UntouchedTold
<1>3. CASE ScanBucket
  <2>1. UNCHANGED <<calls, received, history, lost, forgotten>> /\ Scan
    BY <1>3 DEF ScanBucket, platformVars, crashVars
  <2>2. Held' = Held /\ HeldTasks' = HeldTasks
    BY <2>1, HeldScan DEF Held, TypeInv, TypeOK
  <2> QED BY <1>0, <2>1, <2>2, NoHistoryEntry, UntouchedTold DEF Ended
<1>4. CASE Crash
  <2>1. UNCHANGED <<calls, received, history, lost>> /\ forgotten' = forgotten \cup InMemory
    BY <1>4 DEF Crash, platformVars
  <2>2. Held' = {} /\ HeldTasks' = {}
    BY <1>4 DEF Crash, Held, HeldTasks
  <2>3. ~Ended(t)' => t \notin HeldTasks /\ ~Ended(t)
    BY <2>1, NoHistoryEntry DEF Ended, InMemory
  <2> QED BY <1>0, <2>1, <2>2, <2>3, NoHistoryEntry, UntouchedTold
<1>5. CASE FirstCallbackSucceeds
  <2>1. PICK h \in Tasks, a \in Verdicts : h = hand /\ a = verdict
    BY <1>5 DEF FirstCallbackSucceeds, TypeInv, HandInv
  <2>2. /\ UNCHANGED <<items, due, lost, forgotten>>
        /\ calls' = [calls EXCEPT ![h] = @ + 1]
        /\ received' = [received EXCEPT ![h] = @ \cup {a}]
        /\ history' = history \cup {<<h, a>>}
    BY <1>5, <2>1 DEF FirstCallbackSucceeds, CallbackSucceeds, bucketVars, crashVars
  <2>3. Held' = Held /\ HeldTasks' = HeldTasks
    BY <2>2, HeldStays DEF Held
  <2>4. CASE t # h
    BY <1>0, <2>2, <2>3, <2>4, HistoryEntry, UntouchedTold DEF Ended
  <2>5. CASE t = h
    <3>1. t \in InMemory /\ t \notin HeldTasks /\ t \notin HeldTasks'
      BY <2>1, <2>3, <2>5, PipelineAssumption, <1>0 DEF InMemory, NoTaskTwice
    <3>2. calls[t] = 0 /\ received[t] = {} /\ ~Ended(t)
      BY <1>0, <3>1 DEF Told
    <3>3. calls'[t] = 1 /\ received'[t] = {a}
      BY <1>0, <2>2, <2>5, <3>2
    <3>4. Ended(t)' /\ ~Dropped(t)'
      BY <2>2, <2>5, <3>2, PipelineAssumption, HistoryEntry DEF Ended, Failures
    <3>5. \A v \in Verdicts : <<t, v>> \in history' => v = a
      BY <2>2, <2>5, <3>2 DEF Ended, Answered
    <3>6. \A it \in Held' : it.task # t
      BY <3>1 DEF Held, HeldTasks
    <3> QED BY <3>1, <3>3, <3>4, <3>5, <3>6, MaxRetriesAssumption DEF Told
  <2> QED BY <2>4, <2>5
<1>6. CASE FirstCallbackFails
  <2>1. PICK h \in Tasks, a \in Verdicts : h = hand /\ a = verdict
    BY <1>6 DEF FirstCallbackFails, TypeInv, HandInv
  <2> DEFINE jt == [task |-> h, action |-> a, attempt |-> 0]
  <2>2. /\ Add(h, a)
        /\ UNCHANGED <<lost, forgotten>>
        /\ calls' = [calls EXCEPT ![h] = @ + 1]
        /\ received' = received \/ received' = [received EXCEPT ![h] = @ \cup {a}]
        /\ history' = history \cup {<<h, "callback_retry">>}
    BY <1>6, <2>1 DEF FirstCallbackFails, CallbackFails, crashVars
  <2>3. Held' = Held \cup {jt} /\ HeldTasks' = HeldTasks \cup {h}
    BY <2>2, HeldAdd DEF Held
  <2>4. jt.task = h /\ jt.action = a /\ jt.attempt = 0
    OBVIOUS
  <2> HIDE DEF jt
  <2>5. /\ "callback_retry" \notin Verdicts /\ "callback_retry" \in Failures
        /\ \A v \in Verdicts : <<t, v>> \in history' => <<t, v>> \in history
    BY <2>2, PipelineAssumption DEF Failures
  <2>6. (Ended(t)' <=> Ended(t)) /\ (Dropped(t)' <=> Dropped(t))
    BY <2>2, <2>5, HistoryEntry DEF Ended
  <2>7. CASE t # h
    BY <1>0, <2>2, <2>3, <2>4, <2>5, <2>6, <2>7, UntouchedTold
  <2>8. CASE t = h
    <3>1. t \in InMemory /\ t \notin HeldTasks /\ t \in HeldTasks'
      BY <2>1, <2>3, <2>8, PipelineAssumption, <1>0 DEF InMemory, NoTaskTwice
    <3>2. calls[t] = 0 /\ received[t] = {} /\ ~Ended(t) /\ ~Ended(t)' /\ ~Dropped(t)'
      BY <1>0, <2>6, <3>1 DEF Told, Ended
    <3>3. calls'[t] = 1 /\ received'[t] \subseteq {a}
      BY <1>0, <2>2, <2>8, <3>2
    <3>4. \A it \in Held' : it.task = t => it = jt
      BY <2>3, <3>1 DEF Held, HeldTasks
    <3>5. \A v \in Verdicts : <<t, v>> \notin history'
      BY <2>5, <3>2 DEF Ended, Answered
    <3> QED BY <2>4, <3>1, <3>2, <3>3, <3>4, <3>5 DEF Told
  <2> QED BY <2>7, <2>8
<1>7. ASSUME NEW it \in due, RetryDelivers(it) \/ GiveUp(it) PROVE Told(t)'
  <2>1. /\ it.task \in Tasks /\ it.action \in Verdicts
        /\ it.attempt \in 0 .. MaxCallbackRetries - 1
        /\ it.task \in HeldTasks /\ it \in Held
    BY DEF TypeInv, TypeOK, RetryItem, Held, HeldTasks
  <2>2. Held' = Held \ {it} /\ HeldTasks' = HeldTasks \ {it.task}
    BY <1>0, <1>7, HeldLeaves DEF RetryDelivers, GiveUp, Held
  <2>3. /\ UNCHANGED <<lost, forgotten>>
        /\ calls' = [calls EXCEPT ![it.task] = @ + 1]
        /\ received' = received \/ received' = [received EXCEPT ![it.task] = @ \cup {it.action}]
    BY <1>7 DEF RetryDelivers, GiveUp, CallbackSucceeds, CallbackFails, crashVars
  <2>4. PICK e \in {it.action, "callback_dropped"} :
           /\ history' = history \cup {<<it.task, e>>}
           /\ e = it.action => received' = [received EXCEPT ![it.task] = @ \cup {it.action}]
           /\ e # it.action => it.attempt + 1 >= MaxCallbackRetries
    BY <1>7, <2>1, PipelineAssumption DEF RetryDelivers, GiveUp, Drop, CallbackSucceeds, Failures
  <2>5. "callback_dropped" \notin Verdicts /\ e \in Verdicts \cup Failures /\ e # "panic"
    BY <2>1, PipelineAssumption DEF Failures
  <2>6. CASE t # it.task
    <3>1. (Ended(t)' <=> Ended(t)) /\ (Dropped(t)' <=> Dropped(t))
      BY <2>1, <2>3, <2>4, <2>5, <2>6, HistoryEntry DEF Ended
    <3>2. \A v \in Verdicts : <<t, v>> \in history' => <<t, v>> \in history
      BY <2>4, <2>6
    <3> QED BY <1>0, <2>1, <2>2, <2>3, <2>6, <3>1, <3>2, UntouchedTold
  <2>7. CASE t = it.task
    <3>1. t \in HeldTasks /\ t \notin HeldTasks' /\ ~Ended(t)
      BY <1>0, <2>1, <2>2, <2>7 DEF InMemory
    <3>2. calls[t] = it.attempt + 1 /\ received[t] \subseteq {it.action}
      BY <1>0, <2>1, <2>7 DEF Told
    <3>3. /\ calls'[t] = it.attempt + 2 /\ received'[t] \subseteq {it.action}
          /\ e = it.action => received'[t] = {it.action}
      BY <1>0, <2>3, <2>4, <2>7, <3>2, <2>1
    <3>4. calls'[t] <= MaxCallbackRetries + 1
      BY <2>1, <3>3, MaxRetriesAssumption
    <3>5. Ended(t)' /\ (Dropped(t)' => e # it.action)
      BY <2>1, <2>3, <2>4, <2>5, <2>7, <3>1, HistoryEntry DEF Ended
    <3>6. Dropped(t)' => calls'[t] = MaxCallbackRetries + 1
      BY <2>1, <2>4, <3>3, <3>5, MaxRetriesAssumption
    <3>7. \A v \in Verdicts : <<t, v>> \in history' => v = e /\ e = it.action
      BY <2>4, <2>5, <2>7, <3>1 DEF Ended, Answered
    <3>8. \A jt \in Held' : jt.task # t
      BY <3>1 DEF Held, HeldTasks
    <3> QED BY <3>1, <3>3, <3>4, <3>5, <3>6, <3>7, <3>8 DEF Told
  <2> QED BY <2>6, <2>7
<1>8. ASSUME NEW it \in due, RetryLater(it) PROVE Told(t)'
  <2>1. /\ it.task \in Tasks /\ it.task \in HeldTasks /\ it \in Held
        /\ it.attempt \in 0 .. MaxCallbackRetries - 1
    BY DEF TypeInv, TypeOK, RetryItem, Held, HeldTasks
  <2> DEFINE jt == [it EXCEPT !.attempt = @ + 1]
  <2>2. /\ jt.task = it.task /\ jt.action = it.action /\ jt.attempt = it.attempt + 1
        /\ Held' = (Held \ {it}) \cup {jt} /\ HeldTasks' = HeldTasks
    BY <1>0, <1>8, HeldPutBack DEF RetryLater, Held
  <2> HIDE DEF jt
  <2>3. /\ UNCHANGED <<history, lost, forgotten>>
        /\ calls' = [calls EXCEPT ![it.task] = @ + 1]
        /\ received' = received \/ received' = [received EXCEPT ![it.task] = @ \cup {it.action}]
    BY <1>8 DEF RetryLater, CallbackFails, crashVars
  <2>4. (Ended(t)' <=> Ended(t)) /\ (Dropped(t)' <=> Dropped(t))
    BY <2>3, NoHistoryEntry DEF Ended
  <2>5. CASE t # it.task
    BY <1>0, <2>1, <2>2, <2>3, <2>4, <2>5, UntouchedTold
  <2>6. CASE t = it.task
    <3>1. t \in HeldTasks' /\ ~Ended(t) /\ ~Dropped(t)
      BY <1>0, <2>1, <2>2, <2>6 DEF InMemory, Ended
    <3>2. calls[t] = it.attempt + 1 /\ received[t] \subseteq {it.action}
      BY <1>0, <2>1, <2>6 DEF Told
    <3>3. calls'[t] = jt.attempt + 1 /\ received'[t] \subseteq {jt.action}
      BY <1>0, <2>1, <2>2, <2>3, <2>6, <3>2
    <3>4. \A x \in Held' : x.task = t => x = jt
      BY <1>0, <2>1, <2>2, <2>6 DEF Held, NoTaskTwice
    <3>5. \A v \in Verdicts : <<t, v>> \notin history'
      BY <2>3, <3>1 DEF Ended, Answered
    <3> QED BY <2>4, <3>1, <3>3, <3>4, <3>5 DEF Told
  <2> QED BY <2>5, <2>6
<1> QED
  BY <1>1, <1>2, <1>3, <1>4, <1>5, <1>6, <1>7, <1>8 DEF Next, Consumer, Retries, Retry, Environment

LEMMA ToldInit == Init => ToldInv
<1> SUFFICES ASSUME Init, NEW t \in Tasks PROVE Told(t)
  BY DEF ToldInv
<1>1. Held = {} /\ calls[t] = 0 /\ received[t] = {} /\ history = {}
  BY DEF Init, BucketInit, Held
<1> QED BY <1>1, MaxRetriesAssumption DEF Told, Dropped

\* What the two halves of the invariant say together.
FullInv == TypeInv /\ TasksAccountedFor /\ ToldInv

LEMMA FullInvStep == FullInv /\ [Next]_vars => FullInv'
  BY TypeInvStep, AccountStep, ToldStep DEF FullInv

LEMMA FullInvAlways == Spec => []FullInv
  BY TypeInvInit, AccountInit, ToldInit, FullInvStep, PTL DEF Spec, FullInv

LEMMA HandIsFresh ==
    ASSUME FullInv, pc = "callback"
    PROVE  calls[hand] = 0 /\ received[hand] = {}
<1>1. hand \in Tasks /\ hand \in InMemory
  BY PipelineAssumption DEF FullInv, TypeInv, HandInv, InMemory
<1>2. hand \notin HeldTasks /\ ~Ended(hand)
  BY <1>1 DEF FullInv, TasksAccountedFor, NoTaskTwice
<1> QED BY <1>1, <1>2 DEF FullInv, ToldInv, Told

\* The attempts of a task are counted right through every hand-over: nothing is
\* given up early, and nothing is called more often than the code promises.
THEOREM CallsAreBudgeted == Spec => []CallBudget
<1>1. FullInv => CallBudget
  <2> SUFFICES ASSUME FullInv PROVE CallBudget
    OBVIOUS
  <2>1. \A it \in items \cup due :
           /\ it.task \in Tasks /\ it.task \in HeldTasks
           /\ it.attempt \in 0 .. MaxCallbackRetries - 1
    BY DEF FullInv, TypeInv, TypeOK, RetryItem, HeldTasks
  <2>2. \A it \in items \cup due : calls[it.task] = it.attempt + 1
    BY <2>1 DEF FullInv, ToldInv, Told, Held
  <2>3. \A t \in Tasks : Dropped(t) => calls[t] = MaxCallbackRetries + 1
    BY DEF FullInv, ToldInv, Told
  <2>4. ASSUME NEW t \in Tasks PROVE calls[t] <= MaxCallbackRetries + 1
    <3>1. CASE t \in HeldTasks
      BY <2>1, <2>2, <3>1, MaxRetriesAssumption DEF HeldTasks
    <3>2. CASE t \notin HeldTasks
      BY <3>2, MaxRetriesAssumption DEF FullInv, ToldInv, Told
    <3> QED BY <3>1, <3>2
  <2> QED BY <2>2, <2>3, <2>4 DEF CallBudget
<1> QED BY <1>1, FullInvAlways, PTL

\* The platform never hears two verdicts for one task, though callbacks it took
\* may look like failures and be repeated.
THEOREM PlatformHearsOneVerdict == Spec => []OneVerdict
<1>1. FullInv => OneVerdict
  <2> SUFFICES ASSUME FullInv PROVE OneVerdict
    OBVIOUS
  <2>1. \A it \in items \cup due : it.task \in Tasks /\ received[it.task] \subseteq {it.action}
    BY DEF FullInv, ToldInv, Told, Held, TypeInv, TypeOK, RetryItem
  <2>2. ASSUME NEW t \in Tasks PROVE \A v, w \in received[t] : v = w
    <3>1. CASE t \in HeldTasks
      BY <2>1, <3>1 DEF HeldTasks
    <3>2. CASE t \notin HeldTasks
      BY <3>2 DEF FullInv, ToldInv, Told
    <3> QED BY <3>1, <3>2
  <2>3. pc = "callback" => received[hand] = {}
    BY HandIsFresh
  <2> QED BY <2>1, <2>2, <2>3 DEF OneVerdict
<1> QED BY <1>1, FullInvAlways, PTL

\* A verdict the history shows is the one the platform has.
THEOREM HistoryIsTruthful == Spec => []TruthfulHistory
<1>1. FullInv => TruthfulHistory
  BY DEF FullInv, ToldInv, Told, TruthfulHistory
<1> QED BY <1>1, FullInvAlways, PTL

-----------------------------------------------------------------------------
(* Nothing happens to a task after its end.                                 *)

\* A callback for one task touches no other.
LEMMA OthersUntouched ==
    ASSUME NEW t \in Tasks, NEW u \in Tasks, t # u, NEW v,
           calls \in [Tasks -> Nat], received \in [Tasks -> SUBSET Verdicts],
           CallbackSucceeds(u, v) \/ CallbackFails(u, v)
    PROVE  calls'[t] = calls[t] /\ received'[t] = received[t]
  BY DEF CallbackSucceeds, CallbackFails

LEMMA EndIsFinalStep ==
    ASSUME FullInv, [Next]_vars, NEW t \in Tasks, Ended(t)
    PROVE  Ended(t)' /\ calls'[t] = calls[t] /\ received'[t] = received[t]
<1>0. /\ t \notin InMemory
      /\ calls \in [Tasks -> Nat] /\ received \in [Tasks -> SUBSET Verdicts]
  BY DEF FullInv, TasksAccountedFor, TypeInv, TypeOK
<1>1. Ended(t)'
  <2>1. history \subseteq history' /\ lost \subseteq lost' /\ forgotten \subseteq forgotten'
    BY DEF Next, vars, Webhook, Accept, Reject, Start, Consumer, PassGate, Receive, PassRecheck,
      Requeue, RequeueFails, Evaluate, EvaluatePanics, FirstCallbackSucceeds,
      FirstCallbackFails, Retries, ScanBucket, Retry, RetryDelivers, RetryLater, GiveUp,
      Environment, TimePasses, TargetsVanish, TargetsReturn, Crash, crashVars
  <2> QED BY <2>1 DEF Ended, Answered, Panicked, Dropped
<1>2. calls'[t] = calls[t] /\ received'[t] = received[t]
  <2>1. CASE FirstCallbackSucceeds \/ FirstCallbackFails
    <3>1. hand \in Tasks /\ hand \in InMemory
      BY <2>1, PipelineAssumption
        DEF FirstCallbackSucceeds, FirstCallbackFails, FullInv, TypeInv, HandInv, InMemory
    <3> QED BY <1>0, <2>1, <3>1, OthersUntouched DEF FirstCallbackSucceeds, FirstCallbackFails
  <2>2. ASSUME NEW it \in due, Retry(it) PROVE calls'[t] = calls[t] /\ received'[t] = received[t]
    <3>1. it.task \in Tasks /\ it.task \in InMemory
      BY DEF FullInv, TypeInv, TypeOK, RetryItem, InMemory, HeldTasks
    <3> QED BY <1>0, <2>2, <3>1, OthersUntouched DEF Retry, RetryDelivers, RetryLater, GiveUp
  <2>3. CASE UNCHANGED <<calls, received>>
    BY <2>3
  <2> QED
    BY <2>1, <2>2, <2>3 DEF Next, vars, platformVars, Webhook, Accept, Reject, Start, Consumer,
      PassGate, Receive, PassRecheck, Requeue, RequeueFails, Evaluate, EvaluatePanics, Retries,
      ScanBucket, Environment, TimePasses, TargetsVanish, TargetsReturn, Crash
<1> QED BY <1>1, <1>2

\* What has ended is over: no callback follows, whatever was still under way.
THEOREM EndsAreFinal == Spec => EndIsFinal
<1>1. FullInv /\ [Next]_vars =>
          [\A t \in Tasks :
              Ended(t) => Ended(t)' /\ calls'[t] = calls[t] /\ received'[t] = received[t]]_vars
  BY EndIsFinalStep
<1> QED BY <1>1, FullInvAlways, PTL DEF Spec, EndIsFinal

-----------------------------------------------------------------------------
(***************************************************************************)
(* Pipeline implements ApprovalContract: each step of the webhook handler, *)
(* the consumer, the retry goroutine or the environment is a step of the   *)
(* contract of one request, or leaves the contract's state alone.          *)
(***************************************************************************)

Stage == [t \in Tasks |-> StageOf(t)]

\* The stage of a task follows from its end and from its acceptance.
LEMMA StageStays ==
    ASSUME NEW t \in Tasks, SameEnd(t), status'[t] = "200" <=> status[t] = "200"
    PROVE  StageOf(t)' = StageOf(t)
  BY DEF StageOf, SameEnd

LEMMA StagePending ==
    ASSUME FullInv, NEW t \in Tasks, t \in InMemory
    PROVE  StageOf(t) = "pending"
  BY DEF FullInv, TasksAccountedFor, StageOf, Ended

LEMMA StagePendingAfter ==
    ASSUME FullInv', NEW t \in Tasks, t \in InMemory'
    PROVE  StageOf(t)' = "pending"
  BY DEF FullInv, TasksAccountedFor, StageOf, Ended

\* No task changes its stage.
LEMMA SameStage ==
    ASSUME \A t \in Tasks : StageOf(t)' = StageOf(t)
    PROVE  Stage' = Stage
  BY DEF Stage

\* One task changes its stage.
LEMMA OneStage ==
    ASSUME NEW t \in Tasks, NEW s, StageOf(t)' = s,
           \A u \in Tasks \ {t} : StageOf(u)' = StageOf(u)
    PROVE  Stage' = [Stage EXCEPT ![t] = s]
  BY DEF Stage

\* What a callback does to the verdicts of its task.
LEMMA OneVerdictArrives ==
    ASSUME NEW t \in Tasks, NEW a, received \in [Tasks -> SUBSET Verdicts],
           received[t] \subseteq {a}, received' = [received EXCEPT ![t] = @ \cup {a}]
    PROVE  received' = [received EXCEPT ![t] = {a}]
  OBVIOUS

LEMMA ContractStep ==
    FullInv /\ FullInv' /\ [Next]_vars => [Contract!ContractNext]_(Contract!cvars)
<1> SUFFICES ASSUME FullInv, FullInv', [Next]_vars,
                    ~(Stage' = Stage /\ received' = received)
             PROVE  Contract!ContractNext
  BY DEF Contract!cvars, Stage
<1>0. received \in [Tasks -> SUBSET Verdicts] /\ status \in [Tasks -> {"none", "200", "503"}]
  BY DEF FullInv, TypeInv, TypeOK
<1>1. ASSUME NEW t \in Tasks, Accept(t) PROVE Contract!ContractNext
  <2>1. /\ UNCHANGED <<history, lost, forgotten, received>>
        /\ status[t] # "200" /\ \A u \in Tasks \ {t} : status'[u] = status[u]
        /\ queue' = Append(queue, t)
    BY <1>0, <1>1 DEF Accept, crashVars, platformVars
  <2>2. \A u \in Tasks : SameEnd(u)
    BY <2>1, NoHistoryEntry DEF SameEnd
  <2>3. t \in InMemory'
    BY <2>1, AppendDistinct, PlacesAfter DEF FullInv, TypeInv, TypeOK
  <2>4. Stage' = [Stage EXCEPT ![t] = "pending"]
    BY <2>1, <2>2, <2>3, StagePendingAfter, StageStays, OneStage
  <2>5. Stage[t] = "unknown"
    BY <2>1 DEF Stage, StageOf
  <2>6. Contract!Take(t)
    BY <2>1, <2>4, <2>5 DEF Contract!Take, Stage
  <2> QED BY <2>6 DEF Contract!ContractNext
<1>2. CASE Start \/ PassGate \/ Receive \/ PassRecheck \/ Requeue \/ ScanBucket
           \/ (\E v \in Verdicts : Evaluate(v)) \/ TimePasses \/ TargetsVanish
           \/ TargetsReturn \/ UNCHANGED vars \/ (\E t \in Tasks : Reject(t))
  <2>1. /\ UNCHANGED <<history, lost, forgotten, received>>
        /\ \A u \in Tasks : status'[u] = "200" <=> status[u] = "200"
    BY <1>0, <1>2 DEF Start, PassGate, Receive, PassRecheck, Requeue, Evaluate, TimePasses,
         ScanBucket, TargetsVanish, TargetsReturn, Reject, vars, platformVars, crashVars
  <2>2. \A u \in Tasks : SameEnd(u)
    BY <2>1, NoHistoryEntry DEF SameEnd
  <2> QED BY <2>1, <2>2, StageStays, SameStage
<1>3. CASE RequeueFails
  <2>1. PICK t \in Tasks : t = hand
    BY <1>3 DEF RequeueFails, FullInv, TypeInv, HandInv
  <2>2. t \in InMemory /\ UNCHANGED <<history, forgotten, received, status>> /\ lost' = lost \cup {t}
    BY <1>3, <2>1, PipelineAssumption DEF RequeueFails, platformVars, crashVars, InMemory
  <2>3. Stage[t] = "pending"
    BY <2>2, StagePending DEF Stage
  <2>4. \A u \in Tasks \ {t} : StageOf(u)' = StageOf(u)
    BY <2>2, NoHistoryEntry, StageStays DEF SameEnd
  <2>5. StageOf(t)' = "lost"
    BY <2>2, NoHistoryEntry
      DEF FullInv, TasksAccountedFor, StageOf, Ended
  <2>6. Stage' = [u \in Tasks |-> IF u \in {t} THEN "lost" ELSE Stage[u]]
    BY <2>4, <2>5 DEF Stage
  <2>7. Contract!Lose({t})
    BY <2>2, <2>3, <2>6 DEF Contract!Lose, Stage
  <2> QED BY <2>7 DEF Contract!ContractNext
<1>4. CASE Crash
  <2>1. UNCHANGED <<history, lost, received, status>> /\ forgotten' = forgotten \cup InMemory
    BY <1>4 DEF Crash, platformVars
  <2> DEFINE S == InMemory \cap Tasks
  <2>2. \A u \in Tasks : u \notin S => StageOf(u)' = StageOf(u)
    BY <2>1, NoHistoryEntry, StageStays DEF SameEnd
  <2>3. \A u \in S : Stage[u] = "pending"
    BY StagePending DEF Stage
  <2>4. \A u \in S : StageOf(u)' = "lost"
    BY <2>1, NoHistoryEntry DEF FullInv, TasksAccountedFor, StageOf, Ended
  <2>5. Stage' = [u \in Tasks |-> IF u \in S THEN "lost" ELSE Stage[u]]
    BY <2>2, <2>4 DEF Stage
  <2>6. Contract!Lose(S)
    BY <2>1, <2>3, <2>5 DEF Contract!Lose, Stage
  <2> QED BY <2>6 DEF Contract!ContractNext
<1>5. CASE EvaluatePanics
  <2>1. PICK t \in Tasks : t = hand
    BY <1>5 DEF EvaluatePanics, FullInv, TypeInv, HandInv
  <2>2. /\ t \in InMemory
        /\ UNCHANGED <<lost, forgotten, received, status>>
        /\ history' = history \cup {<<t, "panic">>}
    BY <1>5, <2>1, PipelineAssumption DEF EvaluatePanics, platformVars, crashVars, InMemory
  <2>3. "panic" \in Failures \ Verdicts
    BY PipelineAssumption DEF Failures
  <2>4. Stage[t] = "pending" /\ status[t] = "200" /\ ~Ended(t)
    BY <2>2, StagePending DEF Stage, FullInv, TasksAccountedFor
  <2>5. StageOf(t)' = "abandoned" /\ \A u \in Tasks \ {t} : StageOf(u)' = StageOf(u)
    BY <2>2, <2>3, <2>4, HistoryEntry, StageStays DEF SameEnd, StageOf, Ended
  <2>6. Contract!Abandon(t)
    BY <2>2, <2>4, <2>5, OneStage DEF Contract!Abandon, Stage
  <2> QED BY <2>6 DEF Contract!ContractNext
<1>6. CASE FirstCallbackSucceeds \/ FirstCallbackFails
  <2>1. PICK t \in Tasks, a \in Verdicts : t = hand /\ a = verdict
    BY <1>6 DEF FirstCallbackSucceeds, FirstCallbackFails, FullInv, TypeInv, HandInv
  <2>2. t \in InMemory /\ received[t] = {}
    BY <1>6, <2>1, HandIsFresh, PipelineAssumption
      DEF FirstCallbackSucceeds, FirstCallbackFails, InMemory
  <2>3. PICK e \in {a, "callback_retry"} :
          /\ UNCHANGED <<lost, forgotten, status>>
          /\ history' = history \cup {<<t, e>>}
          /\ e = a => received' = [received EXCEPT ![t] = @ \cup {a}]
          /\ received' = received \/ received' = [received EXCEPT ![t] = @ \cup {a}]
    BY <1>6, <2>1, PipelineAssumption
      DEF FirstCallbackSucceeds, FirstCallbackFails, CallbackSucceeds, CallbackFails, crashVars,
          Failures
  <2>4. e \in Verdicts \cup Failures /\ "callback_retry" \notin Verdicts /\ e # "panic"
        /\ e # "callback_dropped"
    BY <2>1, <2>3, PipelineAssumption DEF Failures
  <2>5. Stage[t] = "pending" /\ status[t] = "200" /\ ~Ended(t)
    BY <2>2, StagePending DEF Stage, FullInv, TasksAccountedFor
  <2>6. /\ StageOf(t)' = IF e = a THEN "answered" ELSE "pending"
        /\ \A u \in Tasks \ {t} : StageOf(u)' = StageOf(u)
    BY <2>3, <2>4, <2>5, HistoryEntry, StageStays DEF SameEnd, StageOf, Ended
  <2>7. received' = [received EXCEPT ![t] = {a}]
    <3>1. CASE received' = received
      <4>1. e # a
        BY <1>0, <2>2, <2>3, <3>1
      <4>2. \A u \in Tasks : StageOf(u)' = StageOf(u)
        BY <2>5, <2>6, <4>1 DEF Stage
      <4> QED BY <3>1, <4>2, SameStage
    <3>2. CASE received' # received
      BY <1>0, <2>2, <2>3, <3>2, OneVerdictArrives
    <3> QED BY <3>1, <3>2
  <2>8. \E s \in {"pending", "answered", "abandoned"} : Stage' = [Stage EXCEPT ![t] = s]
    BY <2>6, OneStage
  <2>9. Contract!Arrive(t, a)
    BY <2>2, <2>5, <2>7, <2>8 DEF Contract!Arrive, Stage
  <2> QED BY <2>9 DEF Contract!ContractNext
<1>7. ASSUME NEW it \in due, Retry(it) PROVE Contract!ContractNext
  <2>1. PICK t \in Tasks, a \in Verdicts : t = it.task /\ a = it.action
    BY DEF FullInv, TypeInv, TypeOK, RetryItem
  <2>2. /\ t \in InMemory
        /\ received[t] \subseteq {a}
    BY <2>1 DEF FullInv, ToldInv, Told, Held, InMemory, HeldTasks
  <2>3. Stage[t] = "pending" /\ status[t] = "200" /\ ~Ended(t)
    BY <2>2, StagePending DEF Stage, FullInv, TasksAccountedFor
  <2>4. /\ UNCHANGED <<lost, forgotten, status>>
        /\ received' = received \/ received' = [received EXCEPT ![t] = @ \cup {a}]
    BY <1>7, <2>1 DEF Retry, RetryDelivers, RetryLater, GiveUp, CallbackSucceeds, CallbackFails,
         crashVars
  <2>5. /\ \A u \in Tasks \ {t} : StageOf(u)' = StageOf(u)
        /\ \/ StageOf(t)' = "pending"
           \/ StageOf(t)' = "answered" /\ received' = [received EXCEPT ![t] = @ \cup {a}]
           \/ StageOf(t)' = "abandoned"
    <3>1. CASE RetryDelivers(it)
      <4>1. history' = history \cup {<<t, a>>} /\ received' = [received EXCEPT ![t] = @ \cup {a}]
        BY <2>1, <3>1 DEF RetryDelivers, CallbackSucceeds
      <4>2. a \in Verdicts \cup Failures /\ a \notin {"panic", "callback_dropped"}
        BY PipelineAssumption DEF Failures
      <4> QED BY <2>3, <2>4, <4>1, <4>2, HistoryEntry, StageStays DEF SameEnd, StageOf, Ended
    <3>2. CASE RetryLater(it)
      <4>1. UNCHANGED history
        BY <3>2 DEF RetryLater
      <4> QED BY <2>3, <2>4, <4>1, NoHistoryEntry, StageStays DEF SameEnd, StageOf, Ended
    <3>3. CASE GiveUp(it)
      <4>1. history' = history \cup {<<t, "callback_dropped">>}
        BY <2>1, <3>3 DEF GiveUp
      <4>2. "callback_dropped" \in Failures \ Verdicts
        BY PipelineAssumption DEF Failures
      <4> QED BY <2>3, <2>4, <4>1, <4>2, HistoryEntry, StageStays DEF SameEnd, StageOf, Ended
    <3> QED BY <1>7, <3>1, <3>2, <3>3 DEF Retry
  <2>6. PICK s \in {"pending", "answered", "abandoned"} : StageOf(t)' = s
    BY <2>5
  <2>7. Stage' = [Stage EXCEPT ![t] = s]
    BY <2>5, <2>6, OneStage
  <2>8. CASE received' = [received EXCEPT ![t] = @ \cup {a}]
    <3>1. received' = [received EXCEPT ![t] = {a}]
      BY <1>0, <2>2, <2>8, OneVerdictArrives
    <3>2. Contract!Arrive(t, a)
      BY <2>2, <2>3, <2>7, <3>1 DEF Contract!Arrive, Stage
    <3> QED BY <3>2 DEF Contract!ContractNext
  <2>9. CASE received' = received /\ received' # [received EXCEPT ![t] = @ \cup {a}]
    <3>1. s = "abandoned"
      <4>1. CASE s = "pending"
        <5>1. \A u \in Tasks : StageOf(u)' = StageOf(u)
          BY <2>3, <2>5, <2>6, <4>1 DEF Stage
        <5> QED BY <2>9, <5>1, SameStage
      <4>2. s # "answered"
        BY <2>5, <2>6, <2>9
      <4> QED BY <4>1, <4>2
    <3>2. Contract!Abandon(t)
      BY <2>3, <2>7, <2>9, <3>1 DEF Contract!Abandon, Stage
    <3> QED BY <3>2 DEF Contract!ContractNext
  <2> QED BY <2>4, <2>8, <2>9
<1> QED
  BY <1>1, <1>2, <1>3, <1>4, <1>5, <1>6, <1>7
    DEF Next, Webhook, Consumer, Retries, Environment

LEMMA ContractStart == Init => Contract!ContractInit
<1> SUFFICES ASSUME Init PROVE Contract!ContractInit
  OBVIOUS
<1>1. \A t \in Tasks : StageOf(t) = "unknown"
  BY DEF Init, StageOf
<1> QED BY <1>1 DEF Contract!ContractInit, Init

\* Whatever happens inside, the platform sees the contract of a single request:
\* taken once, told one verdict, ended once, answered only with what it was told.
THEOREM PipelineMeetsContract == Spec => MeetsContract
<1>1. FullInv /\ FullInv' /\ [Next]_vars => [Contract!ContractNext]_(Contract!cvars)
  BY ContractStep
<1> QED BY <1>1, ContractStart, FullInvAlways, PTL DEF Spec, MeetsContract, Contract!ContractSpec
=============================================================================
