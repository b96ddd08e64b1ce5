--------------------------- MODULE ServiceProofs ---------------------------
(***************************************************************************)
(* Theorems about BudgetSync, for every set of packages and of concurrent  *)
(* sync requests, and about Service, for every load and every bound: what  *)
(* the consumer works on has been synced, and belongs together.            *)
(***************************************************************************)
EXTENDS Service, TLAPS

-----------------------------------------------------------------------------
(* Who is inside Sync.                                                      *)

\* The background goroutine is inside Sync exactly when its loop says so, and
\* nobody else starts it.
LoopInv ==
    /\ Busy(Background) <=> loop = "inside"
    /\ stage[Background] # "spawned"

\* The part of the types that does not depend on the backoff.
EntryInv == SyncTyped /\ LoopInv /\ OneSyncAtATime

LEMMA CallersTyped == Background \in Callers /\ Requests \subseteq Callers
  BY DEF Callers

LEMMA EntryInvInit == SyncInit => EntryInv
<1> SUFFICES ASSUME SyncInit PROVE EntryInv
  OBVIOUS
<1>1. SyncTyped
  <2>1. readable \in BOOLEAN /\ syncing \in BOOLEAN /\ synced \in BOOLEAN
    BY Zenon DEF SyncInit
  <2>2. /\ store \in [trees : SUBSET Packages, missing : SUBSET Packages]
        /\ draft \in [Callers -> [trees : SUBSET Packages, missing : SUBSET Packages,
                                  todo : SUBSET Packages]]
        /\ stage \in [Callers -> Inside \cup {"idle", "spawned"}]
    BY DEF SyncInit, EmptyStore, NoDraft
  <2>3. fails \in 0 .. MaxFails
    BY SyncAssumption DEF SyncInit
  <2> QED BY <2>1, <2>2, <2>3 DEF SyncInit, SyncTyped
<1>2. \A c \in Callers : ~Busy(c)
  BY DEF SyncInit, Busy, Inside
<1> QED BY <1>1, <1>2, CallersTyped DEF EntryInv, LoopInv, OneSyncAtATime, SyncInit

LEMMA CountUpTyped ==
    ASSUME NEW n \in 0 .. MaxFails
    PROVE  CountUp(n) \in 0 .. MaxFails /\ CountUp(n) # 0
  BY SyncAssumption DEF CountUp

\* What building one tree does to the draft.
LEMMA BuildTreeEffect ==
    ASSUME SyncTyped, NEW c \in Callers, BuildTree(c)
    PROVE  \E p \in draft[c].todo :
               draft' = [draft EXCEPT ![c] = [trees |-> draft[c].trees \cup {p},
                                              missing |-> draft[c].missing,
                                              todo |-> draft[c].todo \ {p}]]
<1> PICK p \in draft[c].todo \cap listed :
        draft' = [draft EXCEPT ![c].todo = @ \ {p}, ![c].trees = @ \cup {p}]
  BY DEF BuildTree
<1> DEFINE d == [trees |-> draft[c].trees \cup {p}, missing |-> draft[c].missing,
                 todo |-> draft[c].todo \ {p}]
<1>1. draft \in [Callers -> [trees : SUBSET Packages, missing : SUBSET Packages,
                             todo : SUBSET Packages]]
  BY DEF SyncTyped
<1>2. draft'[c] = d
  BY <1>1
<1>3. draft' = [draft EXCEPT ![c] = d]
  BY <1>1, <1>2
<1> QED BY <1>3

LEMMA SyncTypedStep == SyncTyped /\ [SyncNext]_syncVars => SyncTyped'
<1> SUFFICES ASSUME SyncTyped, [SyncNext]_syncVars PROVE SyncTyped'
  OBVIOUS
<1> USE CallersTyped DEF SyncTyped, appVars, storeVars, callerVars, loopVars
<1>1. ASSUME NEW c \in Callers,
             Request(c) \/ Enter(c) \/ TurnedAway(c) \/ Release(c)
      PROVE  SyncTyped'
  <2>1. syncing' \in BOOLEAN
    BY <1>1, Zenon DEF Request, Enter, TurnedAway, Release
  <2>2. stage' \in [Callers -> Inside \cup {"idle", "spawned"}]
    BY <1>1 DEF Request, Enter, TurnedAway, Release, Inside
  <2>3. result' \in {"none", "ok", "error", "busy"} /\ loop' \in {"call", "inside", "returned", "asleep"}
    BY <1>1 DEF Request, Enter, TurnedAway, Release, Returns
  <2> QED BY <1>1, <2>1, <2>2, <2>3 DEF Request, Enter, TurnedAway, Release
<1>2. ASSUME NEW c \in Callers, ReloadFails(c) \/ StepFails(c) PROVE SyncTyped'
  <2>1. fails' \in 0 .. MaxFails
    BY <1>2, CountUpTyped DEF ReloadFails, StepFails
  <2>2. stage' \in [Callers -> Inside \cup {"idle", "spawned"}]
    BY <1>2 DEF ReloadFails, StepFails, Inside
  <2>3. draft' \in [Callers -> [trees : SUBSET Packages, missing : SUBSET Packages,
                                todo : SUBSET Packages]]
    BY <1>2 DEF ReloadFails, StepFails, NoDraft
  <2>4. result' \in {"none", "ok", "error", "busy"}
    BY <1>2 DEF ReloadFails, StepFails, Returns
  <2> QED BY <1>2, <2>1, <2>2, <2>3, <2>4 DEF ReloadFails, StepFails
<1>3. ASSUME NEW c \in Callers, Reload(c) \/ FetchFees(c) PROVE SyncTyped'
  <2>1. stage' \in [Callers -> Inside \cup {"idle", "spawned"}]
    BY <1>3 DEF Reload, FetchFees, Inside
  <2> QED BY <1>3, <2>1 DEF Reload, FetchFees
<1>4. ASSUME NEW c \in Callers, FetchList(c) PROVE SyncTyped'
  <2>1. stage' \in [Callers -> Inside \cup {"idle", "spawned"}]
    BY <1>4 DEF FetchList, Inside
  <2>2. draft' \in [Callers -> [trees : SUBSET Packages, missing : SUBSET Packages,
                                todo : SUBSET Packages]]
    BY <1>4 DEF FetchList
  <2> QED BY <1>4, <2>1, <2>2 DEF FetchList
<1>5. ASSUME NEW c \in Callers, BuildTree(c) PROVE SyncTyped'
  <2>1. draft' \in [Callers -> [trees : SUBSET Packages, missing : SUBSET Packages,
                                todo : SUBSET Packages]]
    BY <1>5, BuildTreeEffect
  <2> QED BY <1>5, <2>1 DEF BuildTree
<1>6. ASSUME NEW c \in Callers, Install(c) PROVE SyncTyped'
  <2>1. stage' \in [Callers -> Inside \cup {"idle", "spawned"}]
    BY <1>6 DEF Install, Inside
  <2>2. draft' \in [Callers -> [trees : SUBSET Packages, missing : SUBSET Packages,
                                todo : SUBSET Packages]]
    BY <1>6 DEF Install, NoDraft
  <2>3. store' \in [trees : SUBSET Packages, missing : SUBSET Packages]
    BY <1>6 DEF Install
  <2>4. synced' \in BOOLEAN
    BY <1>6, Zenon DEF Install
  <2> QED BY <1>6, <2>1, <2>2, <2>3, <2>4 DEF Install
<1>7. ASSUME NEW c \in Callers, CountSuccess(c) PROVE SyncTyped'
  <2>1. stage' \in [Callers -> Inside \cup {"idle", "spawned"}]
    BY <1>7 DEF CountSuccess, Inside
  <2>2. result' \in {"none", "ok", "error", "busy"}
    BY <1>7 DEF CountSuccess, Returns
  <2>3. fails' \in 0 .. MaxFails
    BY <1>7, SyncAssumption DEF CountSuccess
  <2> QED BY <1>7, <2>1, <2>2, <2>3 DEF CountSuccess
<1>8. CASE Loop
  BY <1>8 DEF Loop, StartConsumer, PlanNext, WakeUp
<1>9. CASE SyncEnvironment
  <2>1. readable' \in BOOLEAN
    BY <1>9, Zenon DEF SyncEnvironment, EditFile, BreakFile, PlatformChanges
  <2>2. file' \subseteq Packages /\ listed' \subseteq Packages
    BY <1>9 DEF SyncEnvironment, EditFile, BreakFile, PlatformChanges
  <2> QED BY <1>9, <2>1, <2>2 DEF SyncEnvironment, EditFile, BreakFile, PlatformChanges
<1>10. CASE Restart
  <2>1. syncing' \in BOOLEAN /\ synced' \in BOOLEAN
    BY <1>10, Zenon DEF Restart
  <2>2. /\ store' \in [trees : SUBSET Packages, missing : SUBSET Packages]
        /\ draft' \in [Callers -> [trees : SUBSET Packages, missing : SUBSET Packages,
                                   todo : SUBSET Packages]]
        /\ stage' \in [Callers -> Inside \cup {"idle", "spawned"}]
    BY <1>10 DEF Restart, EmptyStore, NoDraft
  <2>3. fails' \in 0 .. MaxFails
    BY <1>10, SyncAssumption DEF Restart
  <2> QED BY <1>10, <2>1, <2>2, <2>3 DEF Restart
<1>11. CASE UNCHANGED syncVars
  BY <1>11 DEF syncVars
<1> QED
  BY <1>1, <1>2, <1>3, <1>4, <1>5, <1>6, <1>7, <1>8, <1>9, <1>10, <1>11 DEF SyncNext, SyncStep

\* The compare-and-swap lets a caller in only when nobody is inside, and every
\* path out resets it.
LEMMA EntryInvStep == EntryInv /\ [SyncNext]_syncVars => EntryInv'
<1> SUFFICES ASSUME EntryInv, [SyncNext]_syncVars PROVE EntryInv'
  OBVIOUS
<1>0. SyncTyped'
  BY SyncTypedStep DEF EntryInv
<1>1. stage \in [Callers -> Inside \cup {"idle", "spawned"}]
  BY DEF EntryInv, SyncTyped
<1> USE CallersTyped, SyncAssumption DEF LoopInv, OneSyncAtATime, Busy, Inside,
        appVars, storeVars, callerVars, loopVars
<1>2. ASSUME NEW c \in Callers, Request(c) PROVE LoopInv' /\ OneSyncAtATime'
  BY <1>1, <1>2 DEF EntryInv, Request
<1>3. ASSUME NEW c \in Callers, Enter(c) PROVE LoopInv' /\ OneSyncAtATime'
  <2>1. \A d \in Callers : ~Busy(d)
    BY <1>3 DEF EntryInv, Enter
  <2>2. \A d \in Callers : Busy(d)' <=> d = c
    BY <1>1, <1>3, <2>1 DEF Enter
  <2> QED BY <1>1, <1>3, <2>1, <2>2 DEF EntryInv, Enter
<1>4. ASSUME NEW c \in Callers, TurnedAway(c) PROVE LoopInv' /\ OneSyncAtATime'
  <2>1. ~Busy(c)
    BY <1>4 DEF EntryInv, TurnedAway, Calls
  <2>2. \A d \in Callers : Busy(d)' <=> Busy(d)
    BY <1>1, <1>4, <2>1 DEF TurnedAway
  <2> QED BY <1>1, <1>4, <2>1, <2>2 DEF EntryInv, TurnedAway, Calls
<1>5. ASSUME NEW c \in Callers,
             \/ ReloadFails(c) \/ Reload(c) \/ FetchFees(c) \/ FetchList(c) \/ BuildTree(c)
             \/ StepFails(c) \/ Install(c) \/ CountSuccess(c)
      PROVE  LoopInv' /\ OneSyncAtATime'
  <2>1. \A d \in Callers : Busy(d)' <=> Busy(d)
    BY <1>1, <1>5 DEF ReloadFails, Reload, FetchFees, FetchList, BuildTree, StepFails, Install,
         CountSuccess
  <2>2. UNCHANGED <<syncing, loop>> /\ (stage[Background] # "spawned" => stage'[Background] # "spawned")
    BY <1>1, <1>5 DEF ReloadFails, Reload, FetchFees, FetchList, BuildTree, StepFails, Install,
         CountSuccess
  <2> HIDE DEF Busy, Inside
  <2> QED BY <2>1, <2>2 DEF EntryInv
<1>6. ASSUME NEW c \in Callers, Release(c) PROVE LoopInv' /\ OneSyncAtATime'
  <2>1. \A d \in Callers : Busy(d) <=> d = c
    BY <1>6 DEF EntryInv, Release
  <2>2. \A d \in Callers : ~Busy(d)'
    BY <1>1, <1>6, <2>1 DEF Release
  <2> QED BY <1>1, <1>6, <2>1, <2>2 DEF EntryInv, Release
<1>7. CASE Loop
  <2>1. UNCHANGED <<stage, syncing>> /\ loop # "inside" /\ loop' # "inside"
    BY <1>7 DEF Loop, StartConsumer, PlanNext, WakeUp
  <2>2. \A d \in Callers : Busy(d)' <=> Busy(d)
    BY <2>1
  <2> HIDE DEF Busy, Inside
  <2> QED BY <1>0, <2>1, <2>2 DEF EntryInv
<1>8. CASE SyncEnvironment \/ UNCHANGED syncVars
  <2>1. UNCHANGED <<stage, syncing, loop>>
    BY <1>8 DEF SyncEnvironment, EditFile, BreakFile, PlatformChanges, syncVars
  <2>2. \A d \in Callers : Busy(d)' <=> Busy(d)
    BY <2>1
  <2> HIDE DEF Busy, Inside
  <2> QED BY <1>0, <2>1, <2>2 DEF EntryInv
<1>9. CASE Restart
  <2>1. ~syncing' /\ loop' = "call" /\ stage' = [c \in Callers |-> "idle"]
    BY <1>9 DEF Restart
  <2>2. \A d \in Callers : ~Busy(d)' /\ stage'[d] # "spawned"
    BY <2>1
  <2> HIDE DEF Busy, Inside
  <2> QED BY <1>0, <2>1, <2>2 DEF EntryInv
<1> QED
  BY <1>0, <1>2, <1>3, <1>4, <1>5, <1>6, <1>7, <1>8, <1>9 DEF EntryInv, SyncNext, SyncStep

\* One caller of App.Sync at a time, however many requests arrive while the
\* background goroutine works, and the flag never stays behind.
THEOREM SyncsExclude == SyncSpec => []OneSyncAtATime
<1>1. EntryInv => OneSyncAtATime
  BY DEF EntryInv
<1> QED BY <1>1, EntryInvInit, EntryInvStep, PTL DEF SyncSpec

LEMMA EntryInvAlways == SyncSpec => []EntryInv
  BY EntryInvInit, EntryInvStep, PTL DEF SyncSpec

-----------------------------------------------------------------------------
(* What the caller inside Sync has built, and how far it has swapped.       *)

Agree == runtime = storeOf /\ fees = "store"

\* The draft of a sync accounts for every target of the rules in force, each
\* built, missing or still to be built: nothing moves the rules meanwhile.
DraftInv ==
    \A c \in Callers : stage[c] = "trees" =>
        /\ AccountsFor(draft[c].trees \cup draft[c].todo, draft[c].missing, runtime)
        /\ (draft[c].trees \cup draft[c].todo) \cap draft[c].missing = {}

\* Rules, fee types and store disagree only from the reload to the installation
\* of a sync, or after a failure that SyncFails counts.
AgreeInv ==
    /\ \A c \in Callers : stage[c] \in {"list", "trees"} => fees = "ahead"
    /\ \A c \in Callers : stage[c] = "count" => Agree /\ synced
    /\ synced /\ fails = 0 /\ (\A c \in Callers : stage[c] \notin {"fees", "list", "trees"}) => Agree

\* A sync that returns success to the background goroutine has filled the store.
ConsumeInv == ConsumesSyncedStore /\ (result = "ok" => synced)

StoreInv == DraftInv /\ StoreIsWhole /\ AgreeInv /\ ConsumeInv

LEMMA StoreInvInit == SyncInit => StoreInv
  BY DEF SyncInit, StoreInv, DraftInv, StoreIsWhole, AgreeInv, ConsumeInv, ConsumesSyncedStore,
     EmptyStore

\* The others are outside while one caller is inside.
LEMMA OthersOutside ==
    ASSUME EntryInv, NEW c \in Callers, Busy(c), NEW d \in Callers \ {c}
    PROVE  stage[d] \in {"idle", "spawned"}
  BY DEF EntryInv, OneSyncAtATime, SyncTyped, Busy

\* Every stage of Sync leaves the draft, the store and the agreement in order.
LEMMA StoreInvStep == EntryInv /\ StoreInv /\ [SyncNext]_syncVars => StoreInv'
<1> SUFFICES ASSUME EntryInv, StoreInv, [SyncNext]_syncVars PROVE StoreInv'
  OBVIOUS
<1>1. /\ stage \in [Callers -> Inside \cup {"idle", "spawned"}]
      /\ draft \in [Callers -> [trees : SUBSET Packages, missing : SUBSET Packages,
                                todo : SUBSET Packages]]
      /\ fails \in 0 .. MaxFails
  BY DEF EntryInv, SyncTyped
<1> USE DEF StoreInv, DraftInv, StoreIsWhole, AccountsFor, AgreeInv, Agree, ConsumeInv, ConsumesSyncedStore
<1> USE DEF appVars, storeVars, callerVars, loopVars
<1>2. ASSUME NEW c \in Callers, Request(c) \/ Enter(c) \/ TurnedAway(c) PROVE StoreInv'
  <2>1. /\ \A d \in Callers \ {c} : stage'[d] = stage[d]
        /\ stage'[c] \in {"spawned", "reload", "idle"}
        /\ stage[c] \in {"idle", "spawned"}
    <3>1. stage[c] \in {"idle", "spawned"}
      BY <1>1, <1>2 DEF Request, Enter, TurnedAway, Calls, EntryInv, LoopInv, Busy
    <3> QED BY <1>1, <1>2, <3>1 DEF Request, Enter, TurnedAway
  <2>2. /\ UNCHANGED <<draft, runtime, store, synced, storeOf, fees, fails, mode>>
        /\ result' \in {result, "busy"}
    BY <1>2 DEF Request, Enter, TurnedAway, Returns
  <2> QED BY <2>1, <2>2
<1>3. ASSUME NEW c \in Callers, Busy(c), Busy(c)', \A d \in Callers \ {c} : stage'[d] = stage[d],
             ReloadFails(c) \/ Reload(c) \/ FetchFees(c) \/ FetchList(c) \/ BuildTree(c)
                 \/ StepFails(c) \/ Install(c) \/ CountSuccess(c)
      PROVE  StoreInv'
  <2>0. \A d \in Callers \ {c} : stage[d] \in {"idle", "spawned"} /\ stage'[d] = stage[d]
    BY <1>3, OthersOutside
  <2>1. CASE ReloadFails(c)
    <3>1. stage[c] = "reload" /\ stage'[c] = "return" /\ result' \in {result, "error"}
      BY <1>1, <2>1 DEF ReloadFails, Returns
    <3>2. UNCHANGED <<draft, runtime, store, synced, storeOf, fees, fails, mode>>
      BY <2>1 DEF ReloadFails
    <3> QED BY <2>0, <3>1, <3>2
  <2>2. CASE Reload(c)
    <3>1. stage[c] = "reload" /\ stage'[c] = "fees"
      BY <1>1, <2>2 DEF Reload
    <3>2. UNCHANGED <<draft, store, synced, storeOf, fails, mode, result>>
      BY <2>2 DEF Reload
    <3> QED BY <2>0, <3>1, <3>2
  <2>3. CASE FetchFees(c)
    <3>1. stage[c] = "fees" /\ stage'[c] = "list" /\ fees' = "ahead"
      BY <1>1, <2>3 DEF FetchFees
    <3>2. UNCHANGED <<draft, runtime, store, synced, storeOf, fails, mode, result>>
      BY <2>3 DEF FetchFees
    <3> QED BY <2>0, <3>1, <3>2
  <2>4. CASE FetchList(c)
    <3>1. /\ stage[c] = "list" /\ stage'[c] = "trees"
          /\ draft'[c] = [trees |-> {}, missing |-> (runtime \ listed) \ Named, todo |-> runtime \cap listed]
      BY <1>1, <2>4 DEF FetchList
    <3>2. UNCHANGED <<runtime, store, synced, storeOf, fees, fails, mode, result>>
      BY <2>4 DEF FetchList
    <3> QED BY <2>0, <3>1, <3>2
  <2>5. CASE BuildTree(c)
    <3>1. PICK p \in draft[c].todo :
              draft' = [draft EXCEPT ![c] = [trees |-> draft[c].trees \cup {p},
                                             missing |-> draft[c].missing,
                                             todo |-> draft[c].todo \ {p}]]
      BY <2>5, BuildTreeEffect DEF EntryInv
    <3>2. /\ draft'[c].trees = draft[c].trees \cup {p}
          /\ draft'[c].missing = draft[c].missing
          /\ draft'[c].todo = draft[c].todo \ {p}
      BY <1>1, <3>1
    <3>3. stage[c] = "trees" /\ stage' = stage
      BY <2>5 DEF BuildTree
    <3>4. UNCHANGED <<runtime, store, synced, storeOf, fees, fails, mode, result>>
      BY <2>5 DEF BuildTree
    <3> QED BY <2>0, <3>2, <3>3, <3>4
  <2>6. CASE StepFails(c)
    <3>1. stage'[c] = "return" /\ result' \in {result, "error"} /\ fails' # 0
      BY <1>1, <2>6, CountUpTyped DEF StepFails, Returns
    <3>2. UNCHANGED <<runtime, store, synced, storeOf, fees, mode>>
      BY <2>6 DEF StepFails
    <3> QED BY <2>0, <3>1, <3>2
  <2>7. CASE Install(c)
    <3>1. stage[c] = "trees" /\ draft[c].todo = {} /\ stage'[c] = "count"
      BY <1>1, <2>7 DEF Install
    <3>2. fees = "ahead" /\ fees' = "store"
      BY <2>7, <3>1 DEF Install
    <3>3. store' = [trees |-> draft[c].trees, missing |-> draft[c].missing]
      BY <2>7 DEF Install
    <3>4. storeOf' = runtime /\ runtime' = runtime /\ synced' = TRUE /\ UNCHANGED <<result, mode>>
      BY <2>7 DEF Install
    <3> QED BY <2>0, <3>1, <3>2, <3>3, <3>4
  <2>8. CASE CountSuccess(c)
    <3>1. stage[c] = "count" /\ stage'[c] = "return" /\ result' \in {result, "ok"}
      BY <1>1, <2>8 DEF CountSuccess, Returns
    <3>2. UNCHANGED <<draft, runtime, store, synced, storeOf, fees, mode>>
      BY <2>8 DEF CountSuccess
    <3> QED BY <2>0, <3>1, <3>2
  <2> QED BY <1>3, <2>1, <2>2, <2>3, <2>4, <2>5, <2>6, <2>7, <2>8
<1>4. ASSUME NEW c \in Callers, Release(c) PROVE StoreInv'
  <2>1. stage[c] = "return" /\ stage'[c] = "idle" /\ \A d \in Callers \ {c} : stage'[d] = stage[d]
    BY <1>1, <1>4 DEF Release
  <2>2. UNCHANGED <<draft, runtime, store, synced, storeOf, fees, fails, mode, result>>
    BY <1>4 DEF Release
  <2> QED BY <2>1, <2>2
<1>5. CASE Loop
  <2>1. UNCHANGED <<stage, draft, runtime, store, synced, storeOf, fees, fails, result>>
    BY <1>5 DEF Loop, StartConsumer, PlanNext, WakeUp
  <2>2. mode' = mode \/ result = "ok"
    BY <1>5 DEF Loop, StartConsumer, PlanNext, WakeUp, FirstDone
  <2> QED BY <2>1, <2>2
<1>6. CASE SyncEnvironment \/ UNCHANGED syncVars
  <2>1. UNCHANGED <<stage, draft, runtime, store, synced, storeOf, fees, fails, result, mode>>
    BY <1>6 DEF SyncEnvironment, EditFile, BreakFile, PlatformChanges, syncVars
  <2> QED BY <2>1
<1>7. CASE Restart
  <2>1. /\ stage' = [c \in Callers |-> "idle"] /\ synced' = FALSE /\ store' = EmptyStore
        /\ result' = "none" /\ mode' = "first"
    BY <1>7 DEF Restart
  <2> QED BY <2>1 DEF EmptyStore
<1>8. ASSUME NEW c \in Callers, SyncStep(c) PROVE StoreInv'
  <2>1. CASE Enter(c) \/ TurnedAway(c) \/ Release(c)
    BY <1>2, <1>4, <2>1
  <2>2. CASE ReloadFails(c) \/ Reload(c) \/ FetchFees(c) \/ FetchList(c) \/ BuildTree(c)
                 \/ StepFails(c) \/ Install(c) \/ CountSuccess(c)
    <3>1. Busy(c) /\ Busy(c)' /\ \A d \in Callers \ {c} : stage'[d] = stage[d]
      BY <1>1, <2>2 DEF Busy, Inside, ReloadFails, Reload, FetchFees, FetchList, BuildTree,
           StepFails, Install, CountSuccess
    <3> QED BY <1>3, <2>2, <3>1
  <2> QED BY <1>8, <2>1, <2>2 DEF SyncStep
<1> QED BY <1>2, <1>5, <1>6, <1>7, <1>8 DEF SyncNext

LEMMA StoreInvAlways == SyncSpec => []StoreInv
<1>1. EntryInv /\ StoreInv /\ [SyncNext]_syncVars => StoreInv'
  BY StoreInvStep
<1> QED BY <1>1, StoreInvInit, EntryInvAlways, PTL DEF SyncSpec

\* The store is never a half-built one: it accounts for every target of the one
\* sync that wrote it, whatever changed while it was being built.
THEOREM StoreIsNeverPartial == SyncSpec => []StoreIsWhole
<1>1. StoreInv => StoreIsWhole
  BY DEF StoreInv
<1> QED BY <1>1, StoreInvAlways, PTL

\* The background goroutine starts the consumer only on data.
THEOREM ConsumerHasData == SyncSpec => []ConsumesSyncedStore
<1>1. StoreInv => ConsumesSyncedStore
  BY DEF StoreInv, ConsumeInv
<1> QED BY <1>1, StoreInvAlways, PTL

\* Between syncs, with no failure counted, rules, fee types and store are of one
\* sync, though Sync swaps them at three different moments.
THEOREM RulesAgreeWithStore == SyncSpec => []AgreeUnlessFailing
<1>1. EntryInv /\ StoreInv => AgreeUnlessFailing
  BY DEF EntryInv, OneSyncAtATime, Busy, Inside, StoreInv, AgreeInv, Agree, AgreeUnlessFailing
<1> QED BY <1>1, EntryInvAlways, StoreInvAlways, PTL

-----------------------------------------------------------------------------
(* The composed service                                                     *)

\* A step of the service is one of the synchronisation, or leaves it alone.
LEMMA ServiceStepSyncs == [ServiceNext]_serviceVars => [SyncNext]_syncVars
<1> SUFFICES ASSUME [ServiceNext]_serviceVars PROVE [SyncNext]_syncVars
  OBVIOUS
<1>1. CASE PipelineStep
  BY <1>1 DEF PipelineStep
<1>2. ASSUME NEW c \in Callers, QuietSyncStep(c) \/ InstallStore(c) \/ ManualSync(c)
      PROVE  SyncNext
  <2>1. SyncStep(c) \/ Request(c)
    BY <1>2 DEF QuietSyncStep, InstallStore, ManualSync, SyncStep
  <2> QED BY <2>1 DEF SyncNext
<1>3. CASE FirstSyncDone \/ LoopStep
  BY <1>3 DEF FirstSyncDone, LoopStep, Loop, SyncNext
<1>4. CASE WorldChanges
  BY <1>4 DEF WorldChanges, SyncNext
<1>5. CASE RestartProcess
  BY <1>5 DEF RestartProcess, SyncNext
<1>6. CASE UNCHANGED serviceVars
  BY <1>6 DEF serviceVars
<1> QED BY <1>1, <1>2, <1>3, <1>4, <1>5, <1>6 DEF ServiceNext

\* So what is proved of BudgetSync holds in the service.
LEMMA ServiceSyncs == ServiceSpec => SyncSpec
<1>1. ServiceInit => SyncInit
  BY DEF ServiceInit
<1> QED BY <1>1, ServiceStepSyncs, PTL DEF ServiceSpec, SyncSpec

-----------------------------------------------------------------------------
(* Nothing is consumed too early                                            *)

\* Before the background goroutine's first success, the pipeline stands still:
\* with a consumer that is off, nothing can get into the bucket.
StandsStill == mode # "periodic" => pc = "off" /\ items = {} /\ ripe = {} /\ due = {}

LEMMA StandsStillStep == StandsStill /\ [ServiceNext]_serviceVars => StandsStill'
<1> SUFFICES ASSUME StandsStill, [ServiceNext]_serviceVars, mode' # "periodic"
             PROVE  pc' = "off" /\ items' = {} /\ ripe' = {} /\ due' = {}
  BY DEF StandsStill
<1> DEFINE Stays == UNCHANGED <<mode, pc, items, ripe, due>>
<1>1. Stays => pc' = "off" /\ items' = {} /\ ripe' = {} /\ due' = {}
  BY DEF StandsStill
<1>2. CASE PipelineStep
  <2>1. mode' = mode
    BY <1>2 DEF PipelineStep, syncVars, loopVars
  <2>2. pc = "off" /\ items = {} /\ ripe = {} /\ due = {}
    BY <2>1 DEF StandsStill
  <2>3. ~P!Consumer
    BY <2>2 DEF P!Consumer, P!PassGate, P!Receive, P!PassRecheck, P!Requeue, P!RequeueFails,
                P!Evaluate, P!EvaluatePanics, P!FirstCallbackSucceeds, P!FirstCallbackFails
  <2>4. ~P!Retries
    BY <2>2 DEF P!Retries, P!ScanBucket, P!Scan
  <2>5. ~P!TimePasses
    BY <2>2 DEF P!TimePasses, P!DelayElapses
  <2>6. UNCHANGED <<pc, items, ripe, due>>
    BY <1>2, <2>3, <2>4, <2>5 DEF PipelineStep, P!Webhook, P!Accept, P!Reject, P!bucketVars,
                                  P!consumerVars
  <2> QED BY <1>1, <2>1, <2>6
<1>3. ASSUME NEW c \in Callers, QuietSyncStep(c) \/ InstallStore(c) \/ ManualSync(c)
      PROVE  Stays
  <2>1. mode' = mode
    BY <1>3 DEF QuietSyncStep, InstallStore, ManualSync, Request, SyncStep, Enter, TurnedAway,
                ReloadFails, Reload, FetchFees, FetchList, BuildTree, StepFails, Install,
                CountSuccess, Release, loopVars
  <2>2. UNCHANGED <<pc, items, ripe, due>>
    BY <1>3 DEF QuietSyncStep, InstallStore, ManualSync, pipelineVars, P!TargetsVanish,
                P!TargetsReturn, P!bucketVars, P!consumerVars
  <2> QED BY <2>1, <2>2
<1>4. CASE FirstSyncDone
  BY <1>4 DEF FirstSyncDone, StartConsumer
<1>5. CASE LoopStep
  BY <1>1, <1>5 DEF LoopStep, PlanNext, WakeUp, pipelineVars
<1>6. CASE WorldChanges
  BY <1>1, <1>6 DEF WorldChanges, SyncEnvironment, EditFile, BreakFile, PlatformChanges,
                    loopVars, pipelineVars
<1>7. CASE RestartProcess
  BY <1>7 DEF RestartProcess, P!Crash
<1>8. CASE UNCHANGED serviceVars
  BY <1>1, <1>8 DEF serviceVars, syncVars, loopVars, pipelineVars
<1> QED BY <1>1, <1>2, <1>3, <1>4, <1>5, <1>6, <1>7, <1>8 DEF ServiceNext

\* No request is evaluated, and no retry is made, before a sync has filled the store
\* of this process (app.go, Run): the consumer is started on a store that is synced,
\* and it is the only one who gives the retry bucket anything.
THEOREM ServiceConsumesOnlyData == ServiceSpec => []ConsumesOnlyData
<1>1. ServiceInit => StandsStill
  BY DEF ServiceInit, StandsStill, P!Init, P!BucketInit
<1>2. ServiceSpec => []StandsStill
  BY <1>1, StandsStillStep, PTL DEF ServiceSpec
<1>3. ServiceSpec => []ConsumesSyncedStore
  BY ServiceSyncs, ConsumerHasData, PTL
<1>4. StandsStill /\ ConsumesSyncedStore => ConsumesOnlyData
  BY DEF StandsStill, ConsumesSyncedStore, ConsumesOnlyData
<1> QED BY <1>2, <1>3, <1>4, PTL

\* A document that is checked while no sync runs, the last one not having failed, is
\* checked by rules, trees, missing targets and fee types of one sync (app.go, Run and
\* Sync): for any number of packages and manual syncs, any edits and restarts.
THEOREM ServiceChecksItsTargets == ServiceSpec => []ChecksItsTargets
<1>1. /\ ServiceSpec => []StoreIsWhole
      /\ ServiceSpec => []AgreeUnlessFailing
      /\ ServiceSpec => []ConsumesOnlyData
  BY ServiceSyncs, StoreIsNeverPartial, RulesAgreeWithStore, ServiceConsumesOnlyData
<1>2. StoreIsWhole /\ AgreeUnlessFailing /\ ConsumesOnlyData => ChecksItsTargets
  BY DEF StoreIsWhole, AgreeUnlessFailing, ConsumesOnlyData, ChecksItsTargets
<1> QED BY <1>1, <1>2, PTL
=============================================================================
