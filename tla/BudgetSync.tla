----------------------------- MODULE BudgetSync -----------------------------
(***************************************************************************)
(* Budget synchronisation: App.Sync and its callers (src/src/app/app.go),  *)
(* the stages of budget.Sync (src/src/budget/sync.go), and what they leave *)
(* in the store, in the rule runtime and in the client's fee types.        *)
(*                                                                         *)
(* The background goroutine syncs until it succeeds once, then starts the  *)
(* consumer, then syncs periodically. Requests to /api/sync run App.Sync   *)
(* in goroutines of their own. A compare-and-swap on App.Syncing lets one  *)
(* caller in; it reloads the configuration file, fetches fee types, then   *)
(* the list of budget packages, builds the trees of the configured ones in *)
(* a private store, and installs that store at the end.                    *)
(*                                                                         *)
(* A budget tree is only the fact that its package was built.              *)
(***************************************************************************)
EXTENDS SyncBackoff, FiniteSets

CONSTANTS
    Packages,    \* budget packages
    Named,       \* those that a target refers to by a name only, without an ID
    Requests,    \* goroutines of /api/sync
    Background,  \* the goroutine of App.Run
    Interval,    \* normalInterval, read once, when the process starts
    MaxFails     \* bound: failures are counted up to here (the wait is then constant)

ASSUME SyncAssumption ==
    /\ Background \notin Requests
    /\ Named \subseteq Packages
    /\ Interval \in Nat
    /\ MaxFails \in Nat \ {0}

Callers == Requests \cup {Background}

VARIABLES
    \* The environment.
    readable,  \* the configuration file can be loaded
    file,      \* the targets it names
    listed,    \* the packages the platform lists
    \* App.
    syncing,   \* App.Syncing
    fails,     \* App.SyncFails
    runtime,   \* the targets of the loaded configuration: SyncCfg, engines, sign keys
    fees,      \* the client's fee types: "empty", or written "ahead" of the store
               \* or by the sync that wrote the "store"
    synced,    \* the store is a sync's, not the empty one of the start
    store,     \* App.Store: its trees and its missing targets
    storeOf,   \* history: the targets the sync that wrote the store worked for
    \* The callers of App.Sync.
    stage,     \* where in Sync a caller is
    draft,     \* nextStore, and the work left to do for it
    result,    \* what Sync last returned to the background goroutine (others only log it)
    \* The background goroutine.
    mode,      \* "first" until one of its own syncs has succeeded
    loop,      \* where in its loop it is
    wait       \* how long it sleeps, in minutes; 0 when awake

appVars == <<syncing, fails, runtime, fees>>
storeVars == <<synced, store, storeOf>>
callerVars == <<stage, draft, result>>
loopVars == <<mode, loop, wait>>
syncVars == <<readable, file, listed, appVars, storeVars, callerVars, loopVars>>

EmptyStore == [trees |-> {}, missing |-> {}]
NoDraft == [trees |-> {}, missing |-> {}, todo |-> {}]

Inside == {"reload", "fees", "list", "trees", "count", "return"}

SyncTyped ==
    /\ readable \in BOOLEAN
    /\ file \subseteq Packages
    /\ listed \subseteq Packages
    /\ syncing \in BOOLEAN
    /\ fails \in 0 .. MaxFails
    /\ runtime \subseteq Packages
    /\ fees \in {"empty", "ahead", "store"}
    /\ synced \in BOOLEAN
    /\ store \in [trees : SUBSET Packages, missing : SUBSET Packages]
    /\ storeOf \subseteq Packages
    /\ stage \in [Callers -> Inside \cup {"idle", "spawned"}]
    /\ draft \in [Callers -> [trees : SUBSET Packages, missing : SUBSET Packages,
                              todo : SUBSET Packages]]
    /\ result \in {"none", "ok", "error", "busy"}
    /\ mode \in {"first", "periodic"}
    /\ loop \in {"call", "inside", "returned", "asleep"}

\* The variables are typed, and no sleep is longer than the configured interval.
SyncTypeOK == SyncTyped /\ wait \in 0 .. Interval

\* Init and Run: the process starts with the configuration file it could read.
SyncInit ==
    /\ readable = TRUE
    /\ file \in SUBSET Packages
    /\ listed \in SUBSET Packages
    /\ syncing = FALSE
    /\ fails = 0
    /\ runtime = file
    /\ fees = "empty"
    /\ synced = FALSE
    /\ store = EmptyStore
    /\ storeOf = {}
    /\ stage = [c \in Callers |-> "idle"]
    /\ draft = [c \in Callers |-> NoDraft]
    /\ result = "none"
    /\ mode = "first"
    /\ loop = "call"
    /\ wait = 0

\* SyncFails.Add(1).
CountUp(n) == IF n < MaxFails THEN n + 1 ELSE n

-----------------------------------------------------------------------------
(* App.Sync, step by step.                                                  *)

\* /api/sync looks at Syncing and starts a goroutine; the look proves nothing
\* by the time the goroutine runs.
Request(c) ==
    /\ c \in Requests
    /\ stage[c] = "idle"
    /\ ~syncing
    /\ stage' = [stage EXCEPT ![c] = "spawned"]
    /\ UNCHANGED <<readable, file, listed, appVars, storeVars, draft, result, loopVars>>

\* The caller is about to call Sync.
Calls(c) == IF c = Background THEN loop = "call" ELSE stage[c] = "spawned"

Returns(c, r) == result' = IF c = Background THEN r ELSE result

\* Mutant of Enter: Syncing is set without being compared.
EnterUnchecked(c) ==
    /\ Calls(c)
    /\ syncing' = TRUE
    /\ stage' = [stage EXCEPT ![c] = "reload"]
    /\ loop' = IF c = Background THEN "inside" ELSE loop
    /\ UNCHANGED <<readable, file, listed, fails, runtime, fees, storeVars, draft, result,
                   mode, wait>>

\* CompareAndSwap(false, true) succeeds.
Enter(c) ==
    /\ Calls(c)
    /\ ~syncing
    /\ syncing' = TRUE
    /\ stage' = [stage EXCEPT ![c] = "reload"]
    /\ loop' = IF c = Background THEN "inside" ELSE loop
    /\ UNCHANGED <<readable, file, listed, fails, runtime, fees, storeVars, draft, result,
                   mode, wait>>

\* CompareAndSwap fails: ErrSyncAlreadyRunning.
TurnedAway(c) ==
    /\ Calls(c)
    /\ syncing
    /\ stage' = [stage EXCEPT ![c] = "idle"]
    /\ Returns(c, "busy")
    /\ loop' = IF c = Background THEN "returned" ELSE loop
    /\ UNCHANGED <<readable, file, listed, appVars, storeVars, draft, mode, wait>>

\* Mutant of ReloadFails: the error path returns without resetting Syncing.
ReloadFailsKeepsFlag(c) ==
    /\ stage[c] = "reload"
    /\ ~readable
    /\ stage' = [stage EXCEPT ![c] = "idle"]
    /\ Returns(c, "error")
    /\ loop' = IF c = Background THEN "returned" ELSE loop
    /\ UNCHANGED <<readable, file, listed, appVars, storeVars, draft, mode, wait>>

\* reloadRuntimeConfig fails: Sync returns, SyncFails is left as it is.
ReloadFails(c) ==
    /\ stage[c] = "reload"
    /\ ~readable
    /\ stage' = [stage EXCEPT ![c] = "return"]
    /\ Returns(c, "error")
    /\ UNCHANGED <<readable, file, listed, appVars, storeVars, draft, loopVars>>

\* Mutant of Reload: the sync goes on with the configuration of the start.
ReloadNothing(c) ==
    /\ stage[c] = "reload"
    /\ readable
    /\ stage' = [stage EXCEPT ![c] = "fees"]
    /\ UNCHANGED <<readable, file, listed, appVars, storeVars, draft, result, loopVars>>

\* reloadRuntimeConfig: the rules and targets of the file are in force from
\* here on. Other credentials mean a new client, without fee types.
Reload(c) ==
    /\ stage[c] = "reload"
    /\ readable
    /\ runtime' = file
    /\ fees' \in {fees, "empty"}
    /\ stage' = [stage EXCEPT ![c] = "fees"]
    /\ UNCHANGED <<readable, file, listed, syncing, fails, storeVars, draft, result, loopVars>>

\* SyncFeeTypesContext: the client's fee types are replaced at once.
FetchFees(c) ==
    /\ stage[c] = "fees"
    /\ fees' = "ahead"
    /\ stage' = [stage EXCEPT ![c] = "list"]
    /\ UNCHANGED <<readable, file, listed, syncing, fails, runtime, storeVars, draft, result,
                   loopVars>>

\* fetchBudgetList, and the configured targets that are not in the list. A target
\* with a name only is passed over: it is neither built nor missing.
FetchList(c) ==
    /\ stage[c] = "list"
    /\ draft' = [draft EXCEPT ![c] = [trees |-> {}, missing |-> (runtime \ listed) \ Named,
                                      todo |-> runtime \cap listed]]
    /\ stage' = [stage EXCEPT ![c] = "trees"]
    /\ UNCHANGED <<readable, file, listed, appVars, storeVars, result, loopVars>>

\* buildTree of one package; it is still there.
BuildTree(c) ==
    /\ stage[c] = "trees"
    /\ \E p \in draft[c].todo \cap listed :
        draft' = [draft EXCEPT ![c].todo = @ \ {p}, ![c].trees = @ \cup {p}]
    /\ UNCHANGED <<readable, file, listed, appVars, storeVars, stage, result, loopVars>>

\* Mutant of StepFails: the failure is not counted.
StepFailsUncounted(c) ==
    /\ stage[c] \in {"fees", "list", "trees"}
    /\ stage' = [stage EXCEPT ![c] = "return"]
    /\ Returns(c, "error")
    /\ draft' = [draft EXCEPT ![c] = NoDraft]
    /\ UNCHANGED <<readable, file, listed, appVars, storeVars, loopVars>>

\* A token, a fetch or a decoding fails, a tree is empty, or the timeout strikes.
StepFails(c) ==
    /\ stage[c] \in {"fees", "list", "trees"}
    /\ fails' = CountUp(fails)
    /\ stage' = [stage EXCEPT ![c] = "return"]
    /\ Returns(c, "error")
    /\ draft' = [draft EXCEPT ![c] = NoDraft]
    /\ UNCHANGED <<readable, file, listed, syncing, runtime, fees, storeVars, loopVars>>

\* Mutant of Install: what has been built so far is installed.
InstallPartial(c) ==
    /\ stage[c] = "trees"
    /\ store' = [trees |-> draft[c].trees, missing |-> draft[c].missing]
    /\ storeOf' = runtime
    /\ synced' = TRUE
    /\ fees' = IF fees = "empty" THEN "empty" ELSE "store"
    /\ stage' = [stage EXCEPT ![c] = "count"]
    /\ draft' = [draft EXCEPT ![c] = NoDraft]
    /\ UNCHANGED <<readable, file, listed, syncing, fails, runtime, result, loopVars>>

\* store.Replace(nextStore).
Install(c) ==
    /\ stage[c] = "trees"
    /\ draft[c].todo = {}
    /\ store' = [trees |-> draft[c].trees, missing |-> draft[c].missing]
    /\ storeOf' = runtime
    /\ synced' = TRUE
    /\ fees' = IF fees = "empty" THEN "empty" ELSE "store"
    /\ stage' = [stage EXCEPT ![c] = "count"]
    /\ draft' = [draft EXCEPT ![c] = NoDraft]
    /\ UNCHANGED <<readable, file, listed, syncing, fails, runtime, result, loopVars>>

\* Back in App.Sync: SyncFails.Store(0).
CountSuccess(c) ==
    /\ stage[c] = "count"
    /\ fails' = 0
    /\ stage' = [stage EXCEPT ![c] = "return"]
    /\ Returns(c, "ok")
    /\ UNCHANGED <<readable, file, listed, syncing, runtime, fees, storeVars, draft, loopVars>>

\* The deferred Syncing.Store(false), on every path.
Release(c) ==
    /\ stage[c] = "return"
    /\ syncing' = FALSE
    /\ stage' = [stage EXCEPT ![c] = "idle"]
    /\ loop' = IF c = Background THEN "returned" ELSE loop
    /\ UNCHANGED <<readable, file, listed, fails, runtime, fees, storeVars, draft, result,
                   mode, wait>>

-----------------------------------------------------------------------------
(* The goroutine of App.Run.                                                *)

\* The first-sync loop breaks on success only. Its mutant breaks on
\* ErrSyncAlreadyRunning too.
FirstDoneOrBusy == mode = "first" /\ result \in {"ok", "busy"}
FirstDone == mode = "first" /\ result = "ok"

\* Its first sync has succeeded: the consumer and the retry bucket start.
StartConsumer ==
    /\ loop = "returned"
    /\ FirstDone
    /\ mode' = "periodic"
    /\ UNCHANGED <<readable, file, listed, appVars, storeVars, callerVars, loop, wait>>

\* Every other return leads to a sleep, after a look at SyncFails.
PlanNext ==
    /\ loop = "returned"
    /\ ~FirstDone
    /\ wait' = NextSyncBackoff(fails, Interval)
    /\ loop' = "asleep"
    /\ UNCHANGED <<readable, file, listed, appVars, storeVars, callerVars, mode>>

WakeUp ==
    /\ loop = "asleep"
    /\ loop' = "call"
    /\ wait' = 0
    /\ UNCHANGED <<readable, file, listed, appVars, storeVars, callerVars, mode>>

-----------------------------------------------------------------------------
(* The environment.                                                         *)

\* An operator edits or repairs the configuration file, or breaks it.
EditFile(f) ==
    /\ ~readable \/ f # file
    /\ readable' = TRUE
    /\ file' = f
    /\ UNCHANGED <<listed, appVars, storeVars, callerVars, loopVars>>

BreakFile ==
    /\ readable
    /\ readable' = FALSE
    /\ file' = {}
    /\ UNCHANGED <<listed, appVars, storeVars, callerVars, loopVars>>

\* Packages appear on the platform and disappear.
PlatformChanges(P) ==
    /\ P # listed
    /\ listed' = P
    /\ UNCHANGED <<readable, file, appVars, storeVars, callerVars, loopVars>>

\* The process stops and is started again; it starts only with a file it can read.
Restart ==
    /\ readable
    /\ syncing' = FALSE /\ fails' = 0 /\ runtime' = file /\ fees' = "empty"
    /\ synced' = FALSE /\ store' = EmptyStore /\ storeOf' = {}
    /\ stage' = [c \in Callers |-> "idle"]
    /\ draft' = [c \in Callers |-> NoDraft]
    /\ result' = "none"
    /\ mode' = "first" /\ loop' = "call" /\ wait' = 0
    /\ UNCHANGED <<readable, file, listed>>

-----------------------------------------------------------------------------
SyncStep(c) ==
    \/ Enter(c) \/ TurnedAway(c)
    \/ ReloadFails(c) \/ Reload(c) \/ FetchFees(c) \/ FetchList(c) \/ BuildTree(c)
    \/ StepFails(c)
    \/ Install(c) \/ CountSuccess(c) \/ Release(c)
Loop == StartConsumer \/ PlanNext \/ WakeUp
SyncEnvironment ==
    \/ \E f \in SUBSET Packages : EditFile(f)
    \/ BreakFile
    \/ \E P \in SUBSET Packages : PlatformChanges(P)

SyncNext ==
    \/ \E c \in Callers : Request(c) \/ SyncStep(c)
    \/ Loop
    \/ SyncEnvironment
    \/ Restart

SyncSpec == SyncInit /\ [][SyncNext]_syncVars

\* Goroutines run, calls end by their timeouts, sleeps end.
SyncFairSpec ==
    /\ SyncSpec
    /\ \A c \in Callers : WF_syncVars(SyncStep(c))
    /\ WF_syncVars(Loop)

-----------------------------------------------------------------------------
(* Properties.                                                              *)

Busy(c) == stage[c] \in Inside

\* The compare-and-swap lets one caller in at a time, and App.Syncing is set as
\* long as one is inside, on every path out of Sync.
OneSyncAtATime ==
    /\ \A c, d \in Callers : Busy(c) /\ Busy(d) => c = d
    /\ syncing <=> \E c \in Callers : Busy(c)

\* Every target with an ID is built or missing, and nothing else is.
AccountsFor(built, missing, targets) ==
    /\ built \cup missing \subseteq targets
    /\ targets \ Named \subseteq built \cup missing

\* The store is never a half-built one (sync.go:29): it is empty, or it accounts
\* for every target with an ID of the one sync that wrote it, each built or missing,
\* though the file, the platform and the other callers moved while it was built.
StoreIsWhole ==
    /\ synced => AccountsFor(store.trees, store.missing, storeOf)
    /\ store.trees \cap store.missing = {}
    /\ ~synced => store = EmptyStore

\* The background goroutine starts the consumer only on a store that was synced.
ConsumesSyncedStore == mode = "periodic" => synced

\* Sync swaps the rules, the fee types and the store at three different moments,
\* and a failure in between leaves them apart. SyncFails tells: while no sync
\* runs and SyncFails is 0, rules, fee types and store are of one sync.
AgreeUnlessFailing ==
    synced /\ ~syncing /\ fails = 0 => runtime = storeOf /\ fees = "store"

\* The sync flag does not stay set, whatever fails inside.
SyncingEnds == syncing ~> ~syncing

\* No more edits, requests, failures or restarts.
Undisturbed ==
    <>[][~\/ SyncEnvironment
          \/ Restart
          \/ \E c \in Callers : Request(c) \/ StepFails(c)]_syncVars

\* Once the environment leaves the service alone with a readable file, the
\* consumer is started and the store comes to be what the file and the platform
\* say: a repaired configuration ends a pause, without a restart.
Converges ==
    Undisturbed /\ <>[]readable =>
        <>[](/\ mode = "periodic"
             /\ store.trees = file \cap listed
             /\ store.missing = (file \ listed) \ Named)

\* docs/API.md:82: consumption starts when the first sync is complete. Broken by a
\* manual sync that is under way when the background goroutine calls Sync: the
\* goroutine is turned away and sleeps with SyncFails = 0, for a whole normal
\* interval, though the data is there.
ConsumesAfterFirstSync == mode = "first" /\ loop = "asleep" => ~synced

\* app.go:388: after a failed sync the service goes on with the cache of the last
\* successful one. Broken by the rules and fee types of the failed sync, which
\* stay in force next to the old trees.
FailedSyncKeepsCache ==
    synced /\ ~syncing /\ fails > 0 => runtime = storeOf /\ fees = "store"
=============================================================================
