------------------------------ MODULE Service ------------------------------
(***************************************************************************)
(* The whole service: budget synchronisation (BudgetSync) and the pipeline *)
(* of approval requests (Pipeline) in one process. They meet at three      *)
(* points: the consumer and the retry bucket are started by the background *)
(* goroutine's first success, the consumer reads the store's missing       *)
(* targets that a sync installs, and a restart ends both.                  *)
(***************************************************************************)
EXTENDS BudgetSync, Sequences

CONSTANTS
    Tasks, Verdicts, MaxCallbackRetries, QueueSize, NoTask, NoVerdict,
    MaxEpisodes, MaxCrashes,  \* as in Pipeline
    MaxChanges                \* bound: changes of the file and of the platform

\* Targets can go missing once per change and once at the start, so the bound
\* of Pipeline never stops a sync.
ASSUME ServiceAssumption ==
    /\ MaxChanges \in Nat
    /\ MaxEpisodes >= MaxChanges + MaxCrashes + 1

VARIABLES
    items, ripe, due, pc, queue, hand, verdict, status, received, calls,
    history, lost, strayed, episodes, crashes, forgotten,  \* as in Pipeline
    changes    \* how often the file or the platform has changed

HasMissingTargets == store.missing # {}

P == INSTANCE Pipeline WITH missing <- HasMissingTargets

pipelineVars == <<items, ripe, due, pc, queue, hand, verdict, status, received, calls,
                  history, lost, strayed, episodes, crashes, forgotten>>
serviceVars == <<syncVars, pipelineVars, changes>>

ServiceInit == SyncInit /\ P!Init /\ changes = 0

\* A step of the webhook handler, the consumer or the retry goroutine.
PipelineStep ==
    /\ UNCHANGED <<syncVars, changes>>
    /\ P!Webhook \/ P!Consumer \/ P!Retries \/ P!TimePasses

\* A step of a caller of App.Sync that leaves the store alone.
QuietSyncStep(c) ==
    /\ SyncStep(c)
    /\ ~Install(c)
    /\ UNCHANGED <<pipelineVars, changes>>

\* A sync installs its store under the consumer's eyes.
InstallStore(c) ==
    /\ Install(c)
    /\ \/ P!TargetsVanish
       \/ P!TargetsReturn
       \/ UNCHANGED <<HasMissingTargets, pipelineVars>>
    /\ UNCHANGED changes

\* The first sync is done: go consume.
FirstSyncDone == StartConsumer /\ P!Start /\ UNCHANGED changes

LoopStep == (PlanNext \/ WakeUp) /\ UNCHANGED <<pipelineVars, changes>>

ManualSync(c) == Request(c) /\ UNCHANGED <<pipelineVars, changes>>

WorldChanges ==
    /\ changes < MaxChanges
    /\ changes' = changes + 1
    /\ SyncEnvironment
    /\ UNCHANGED pipelineVars

RestartProcess == Restart /\ P!Crash /\ UNCHANGED changes

ServiceNext ==
    \/ PipelineStep
    \/ \E c \in Callers : QuietSyncStep(c) \/ InstallStore(c) \/ ManualSync(c)
    \/ FirstSyncDone \/ LoopStep
    \/ WorldChanges
    \/ RestartProcess

ServiceSpec == ServiceInit /\ [][ServiceNext]_serviceVars

\* As in the parts: every goroutine runs, calls and sleeps and delays end.
ItemTimePasses(t) == UNCHANGED <<syncVars, changes>> /\ P!ItemTimePasses(t)
ServiceFairSpec ==
    /\ ServiceSpec
    /\ \A c \in Callers : WF_serviceVars(QuietSyncStep(c) \/ InstallStore(c))
    /\ WF_serviceVars(FirstSyncDone \/ LoopStep)
    /\ WF_serviceVars(UNCHANGED <<syncVars, changes>> /\ P!Consumer)
    /\ WF_serviceVars(UNCHANGED <<syncVars, changes>> /\ P!Retries)
    /\ \A t \in Tasks : WF_serviceVars(ItemTimePasses(t))

-----------------------------------------------------------------------------
\* No request is evaluated, and no retry is made, before a sync has filled the
\* store of this process, also after a restart and whoever synced.
ConsumesOnlyData == pc # "off" \/ items # {} \/ due # {} => synced

\* A document is checked by the rules of the runtime against the trees and the missing
\* targets of the store and the fee types of the client, which a sync swaps one after
\* the other while the consumer runs. When it is checked between two syncs and the last
\* one did not fail, they belong together: every target with an ID that a rule may name
\* is there, whoever synced and whatever a restart or a turned-away sync came before.
ChecksItsTargets ==
    pc = "evaluate" /\ ~syncing /\ fails = 0 =>
        /\ AccountsFor(store.trees, store.missing, runtime)
        /\ fees = "store"

\* No more changes, requests for a sync, failing steps or restarts.
Calm ==
    <>[][~\/ WorldChanges
          \/ RestartProcess
          \/ \E c \in Callers : ManualSync(c) \/ StepFails(c)]_serviceVars

\* End to end: in a calm world, where the platform has every package the readable
\* file names, every accepted request ends: answered, in the history as panicked
\* or dropped, or lost on one of the ways the code has to lose it.
RequestsEnd ==
    Calm /\ <>[](readable /\ file \subseteq listed) =>
        \A t \in Tasks : (status[t] = "200") ~> P!Ended(t)

\* docs/Webhook配置指南.md:190: a wrong package ID does not stop the service, the
\* check answers that the package is not synchronised. Broken by the pause: the
\* request stays in the queue for as long as the ID is wrong.
WrongTargetIsAnswered ==
    Calm /\ <>[]readable => \A t \in Tasks : (status[t] = "200") ~> P!Ended(t)
=============================================================================
