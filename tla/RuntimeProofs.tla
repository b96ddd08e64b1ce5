--------------------------- MODULE RuntimeProofs ---------------------------
(***************************************************************************)
(* Theorems about RuntimeConfig, for every set of webhooks, of requests    *)
(* and of rules and any number of edits: the facts that are kept several   *)
(* times agree while reloads and requests do not overlap, and an approval  *)
(* is signed for the account that it goes to.                              *)
(***************************************************************************)
EXTENDS RuntimeConfig, TLAPS

-----------------------------------------------------------------------------
(* The inductive invariant                                                  *)

\* Where a request has no engine yet, and where it has.
Creates == {"newFile", "newRules"}
Saves == {"saveFile", "saveRules"}
Compiled == {"newConfig", "newMaps", "newChecker", "engine", "update", "show"}

\* A request that works has a key, and rules that it has read or compiled.
RequestHolds(h) ==
    /\ Working(h) => key[h] \in Keys
    /\ at[h] \in Creates => rules[h] = NoTargets
    /\ at[h] \in Saves => rules[h] \in RuleSets
    /\ at[h] \in Compiled => rules[h] \in Engines

RuntimeInv == RuntimeTypeOK /\ \A h \in Handlers : RequestHolds(h)

\* As long as the state is clean, one actor works at a time.
Alone ==
    clean => \/ \A h \in Handlers : ~Working(h)
             \/ swap = "idle" /\ \A g, h \in Handlers : Working(g) /\ Working(h) => g = h

\* What a reload that nobody disturbs has swapped so far. Before it began, memory
\* may have disagreed.
ReloadSoFar ==
    clean /\ swap # "idle" =>
        /\ \A k \in Keys : built[k] # None => built[k].client = next.rest
        /\ swap \in {"engines", "shown", "checker"} => mem = next
        /\ swap \in {"shown", "checker"} => engines = built
        /\ swap = "checker" => shown = RulesOf(built)

\* What a request that nobody disturbs has been compiled for and has entered.
RequestSoFar(h) ==
    /\ at[h] \in Compiled => rules[h].client = mem.rest
    /\ at[h] \in {"newConfig", "newMaps", "newChecker"} => rules[h].rules = NoTargets
    /\ at[h] \in {"newMaps", "newChecker"} => key[h] \in mem.webhooks \ mem.keyless /\ data[h].rest = mem.rest
    /\ at[h] \in {"newChecker", "show"} => enforced[key[h]] = rules[h]

\* The sign key and the rules of one webhook agree with the rest, unless a request
\* has got half-way with it.
SignAgrees(k) == signs[k] = IF k \in mem.webhooks \ mem.keyless THEN mem.rest ELSE None
RulesAgree(k) == shown[k] = IF enforced[k] = None THEN None ELSE enforced[k].rules
Creating(k) == \E h \in Handlers : at[h] \in {"newMaps", "newChecker"} /\ key[h] = k
Saving(k) == \E h \in Handlers : at[h] \in {"update", "show"} /\ key[h] = k

\* Memory agrees, but for the webhook that is just being created or saved.
Agreed ==
    /\ client = mem.rest
    /\ \A k \in Keys : enforced[k] # None => enforced[k].client = client
    /\ \A k \in Keys : SignAgrees(k) \/ Creating(k)
    /\ \A k \in Keys : RulesAgree(k) \/ Saving(k)
    /\ \A h \in Handlers : RequestSoFar(h)

AgreesSoFar == clean /\ swap = "idle" => Agreed

AgreementInv == RuntimeInv /\ Alone /\ ReloadSoFar /\ AgreesSoFar

-----------------------------------------------------------------------------
(* Types                                                                    *)

LEMMA ConfigFields ==
    ASSUME NEW c \in Configs
    PROVE  c.webhooks \subseteq Keys /\ c.rest \in Accounts
  BY RuntimeAssumption DEF Configs, Blank, Accounts

LEMMA EngineFields ==
    ASSUME NEW e \in Engines
    PROVE  /\ e.rules \in RuleSets /\ e.client \in Accounts
           /\ e = Engine(e.rules, e.client) /\ e # None
  BY RuntimeAssumption DEF Engines, Engine, Accounts

LEMMA EngineType ==
    ASSUME NEW r \in RuleSets, NEW c \in Accounts
    PROVE  Engine(r, c) \in Engines
  BY DEF Engines, Engine

LEMMA EnginesOfType ==
    ASSUME ruleFile \in [Keys -> RulesOrNone], NEW c \in Configs
    PROVE  /\ \A k \in Keys : EngineOf(k, c.rest) \in Engines \cup {None}
           /\ EnginesOf(c) \in [Keys -> Engines \cup {None}]
<1>1. c.rest \in Accounts
  BY ConfigFields
<1>2. \A k \in Keys : EngineOf(k, c.rest) \in Engines \cup {None}
  BY <1>1, EngineType DEF EngineOf, RulesOrNone
<1> QED BY <1>2 DEF EnginesOf

LEMMA RulesOfType ==
    ASSUME NEW es \in [Keys -> Engines \cup {None}]
    PROVE  RulesOf(es) \in [Keys -> RulesOrNone]
  BY EngineFields DEF RulesOf, RulesOrNone

LEMMA SignsOfType ==
    ASSUME NEW c \in Configs
    PROVE  SignsOf(c) \in [Keys -> Accounts \cup {None}]
  BY ConfigFields DEF SignsOf

LEMMA LoadedTyped ==
    ASSUME ruleFile \in [Keys -> RulesOrNone], NEW c \in Configs, Loaded(c)
    PROVE  /\ mem' \in Configs
           /\ engines' \in [Keys -> Engines \cup {None}]
           /\ enforced' \in [Keys -> Engines \cup {None}]
           /\ shown' \in [Keys -> RulesOrNone]
           /\ signs' \in [Keys -> Accounts \cup {None}]
           /\ client' \in Accounts
<1>1. EnginesOf(c) \in [Keys -> Engines \cup {None}]
  BY EnginesOfType
<1> QED BY <1>1, RulesOfType, SignsOfType, ConfigFields DEF Loaded

LEMMA RuntimeInvInit == RuntimeInit => RuntimeInv
<1> SUFFICES ASSUME RuntimeInit PROVE RuntimeInv
  OBVIOUS
<1>1. file \in Configs /\ Blank \in Configs /\ NoTargets \in RulesOrNone /\ None \in RulesOrNone
  BY RuntimeAssumption DEF RuntimeInit, Configs, RulesOrNone
<1>2. ruleFile \in [Keys -> RulesOrNone]
  BY <1>1 DEF RuntimeInit
<1>3. EnginesOf(file) \in [Keys -> Engines \cup {None}]
  BY <1>1, <1>2, EnginesOfType
<1>4. /\ RulesOf(engines) \in [Keys -> RulesOrNone]
      /\ SignsOf(file) \in [Keys -> Accounts \cup {None}]
      /\ file.rest \in Accounts
  BY <1>1, <1>3, RulesOfType, SignsOfType, ConfigFields DEF RuntimeInit
<1>5. /\ engines \in [Keys -> Engines \cup {None}] /\ enforced \in [Keys -> Engines \cup {None}]
      /\ built \in [Keys -> Engines \cup {None}]
      /\ shown \in [Keys -> RulesOrNone] /\ saved \in [Keys -> RulesOrNone]
      /\ signs \in [Keys -> Accounts \cup {None}] /\ client \in Accounts
  BY <1>1, <1>3, <1>4 DEF RuntimeInit, NoRules
<1>6. RuntimeTypeOK
  <2>1. /\ mem \in Configs /\ next \in Configs /\ data \in [Handlers -> Configs]
        /\ key \in [Handlers -> Keys \cup {None}]
        /\ rules \in [Handlers -> RulesOrNone \cup Engines]
    BY <1>1 DEF RuntimeInit
  <2>2. edits \in 0 .. MaxEdits /\ latest \in 0 .. edits
    BY RuntimeAssumption DEF RuntimeInit
  <2> QED BY <1>1, <1>2, <1>5, <2>1, <2>2 DEF RuntimeInit, RuntimeTypeOK
<1>7. \A h \in Handlers : RequestHolds(h)
  BY DEF RuntimeInit, RequestHolds, Working, Creates, Saves, Compiled
<1> QED BY <1>6, <1>7 DEF RuntimeInv

LEMMA ReloadTyped == RuntimeInv /\ ReloadStep => RuntimeInv'
<1> SUFFICES ASSUME RuntimeInv, ReloadStep PROVE RuntimeInv'
  OBVIOUS
<1> USE DEF RuntimeInv, diskVars, appVars, checkerVars, requestVars, callbackVars
<1>0. /\ Blank \in Configs /\ NoRules \in [Keys -> Engines \cup {None}]
      /\ file.webhooks \subseteq Keys
      /\ next \in Configs /\ next.rest \in Accounts
      /\ SignsOf(next) \in [Keys -> Accounts \cup {None}]
      /\ RulesOf(built) \in [Keys -> RulesOrNone]
      /\ \A k \in Keys : EngineOf(k, next.rest) \in Engines \cup {None}
  <2>1. Blank \in Configs /\ NoRules \in [Keys -> Engines \cup {None}]
    BY DEF Configs, NoRules
  <2>2. file \in Configs /\ next \in Configs
    BY DEF RuntimeTypeOK
  <2>3. file.webhooks \subseteq Keys /\ next.rest \in Accounts
    BY <2>2, ConfigFields
  <2>4. SignsOf(next) \in [Keys -> Accounts \cup {None}]
    BY <2>2, SignsOfType
  <2>5. RulesOf(built) \in [Keys -> RulesOrNone]
    BY RulesOfType DEF RuntimeTypeOK
  <2>6. \A k \in Keys : EngineOf(k, next.rest) \in Engines \cup {None}
    BY <2>2, EnginesOfType DEF RuntimeTypeOK
  <2> QED BY <2>1, <2>2, <2>3, <2>4, <2>5, <2>6
<1>1. UNCHANGED requestVars
  BY DEF ReloadStep, LoadFile, BuildEngine, SwapConfig, SwapEngines, SwapShown, SwapChecker
<1>2. \A h \in Handlers : RequestHolds(h)'
  BY <1>1 DEF RequestHolds, Working
<1>3. clean' \in BOOLEAN
  BY DEF ReloadStep, LoadFile, BuildEngine, SwapConfig, SwapEngines, SwapShown, SwapChecker,
         ReloadMeets, Working, RuntimeTypeOK
<1>4. RuntimeTypeOK'
  <2>1. CASE LoadFile /\ UNCHANGED callbackVars
    BY <1>0, <1>3, <2>1 DEF LoadFile, RuntimeTypeOK
  <2>2. ASSUME NEW k \in Keys, BuildEngine(k), UNCHANGED callbackVars PROVE RuntimeTypeOK'
    BY <1>0, <1>3, <2>2 DEF BuildEngine, RuntimeTypeOK
  <2>3. CASE SwapConfig /\ UNCHANGED callbackVars
    BY <1>3, <2>3 DEF SwapConfig, RuntimeTypeOK
  <2>4. CASE SwapEngines /\ UNCHANGED callbackVars
    BY <1>3, <2>4 DEF SwapEngines, RuntimeTypeOK
  <2>5. CASE SwapShown /\ UNCHANGED callbackVars
    BY <1>0, <1>3, <2>5 DEF SwapShown, RuntimeTypeOK
  <2>6. CASE SwapChecker
    BY <1>0, <1>3, <2>6 DEF SwapChecker, RuntimeTypeOK
  <2> QED BY <2>1, <2>2, <2>3, <2>4, <2>5, <2>6 DEF ReloadStep
<1> QED BY <1>2, <1>4

LEMMA RequestTyped ==
    ASSUME RuntimeInv, NEW h \in Handlers, RequestStep(h)
    PROVE  RuntimeInv'
<1> USE DEF diskVars, appVars, checkerVars, reloadVars, requestVars, callbackVars,
            Goto, Done, RuntimeTypeOK
<1>0. RuntimeTypeOK /\ RequestHolds(h)
  BY DEF RuntimeInv
<1>1. Blank \in Configs /\ NoTargets \in RulesOrNone /\ mem \in Configs
  BY <1>0, RuntimeAssumption DEF Configs, RulesOrNone
<1>2. clean' \in BOOLEAN
  BY <1>0 DEF RequestStep, TruncateRules, WriteRules, CreateInConfig, CreateInMaps, CreateInChecker,
         MarshalConfig, PersistConfig, SaveEngine, SaveInChecker, SaveShown, Meets, Working
<1>3. ASSUME TruncateRules(h) \/ WriteRules(h), UNCHANGED callbackVars
      PROVE  RuntimeTypeOK' /\ RequestHolds(h)'
  <2>1. key[h] \in Keys /\ rules[h] \in RuleSets
    BY <1>0, <1>3, RuntimeAssumption DEF TruncateRules, WriteRules, RequestHolds, Working, Creates, Saves
  <2>2. Engine(rules[h], AppClient) \in Engines
    BY <1>0, <2>1, ConfigFields, EngineType DEF AppClient
  <2>3. CASE TruncateRules(h)
    BY <1>0, <1>2, <1>3, <2>1, <2>3
       DEF TruncateRules, RequestHolds, Working, RulesOrNone, Creates, Saves, Compiled
  <2>4. CASE WriteRules(h)
    BY <1>0, <1>2, <1>3, <2>1, <2>2, <2>4
       DEF WriteRules, RequestHolds, Working, RulesOrNone, Creates, Saves, Compiled
  <2> QED BY <1>3, <2>3, <2>4
<1>4. ASSUME CreateInConfig(h), UNCHANGED callbackVars
      PROVE  RuntimeTypeOK' /\ RequestHolds(h)'
  <2>1. key[h] \in Keys /\ rules[h] \in Engines
    BY <1>0, <1>4 DEF CreateInConfig, RequestHolds, Working, Compiled
  <2>2. mem # Blank => [mem EXCEPT !.webhooks = @ \cup {key[h]}, !.keyless = @ \ {key[h]}] \in Configs
    BY <1>1, <2>1 DEF Configs
  <2>3. RequestHolds(h)'
    BY <1>0, <1>4, <2>1 DEF CreateInConfig, RequestHolds, Working, Creates, Saves, Compiled
  <2>4. mem' \in Configs /\ data' \in [Handlers -> Configs]
    <3>1. CASE mem = Blank
      BY <1>0, <1>1, <1>4, <3>1 DEF CreateInConfig
    <3>2. CASE mem # Blank
      <4>1. mem' \in Configs
        BY <1>4, <2>2, <3>2 DEF CreateInConfig
      <4>2. data' = [data EXCEPT ![h] = mem']
        BY <1>4, <3>2 DEF CreateInConfig
      <4> QED BY <1>0, <4>1, <4>2
    <3> QED BY <3>1, <3>2
  <2>5. /\ key' \in [Handlers -> Keys \cup {None}]
        /\ rules' \in [Handlers -> RulesOrNone \cup Engines]
    BY <1>0, <1>4 DEF CreateInConfig, RulesOrNone
  <2>6. at' \in [Handlers -> {"idle", "newFile", "newRules", "newConfig", "newMaps", "newChecker",
                              "marshal", "persist", "saveFile", "saveRules", "engine", "update",
                              "show"}]
    BY <1>0, <1>4 DEF CreateInConfig
  <2>7. UNCHANGED <<diskVars, engines, shown, checkerVars, reloadVars, edits, latest, created,
                    saved, callbackVars>>
    BY <1>4 DEF CreateInConfig
  <2>8. RuntimeTypeOK'
    BY <1>0, <1>2, <2>4, <2>5, <2>6, <2>7
  <2> QED BY <2>3, <2>8
<1>5. ASSUME CreateInMaps(h) \/ CreateInChecker(h) \/ SaveEngine(h) \/ SaveInChecker(h),
             UNCHANGED callbackVars
      PROVE  RuntimeTypeOK' /\ RequestHolds(h)'
  <2>1. key[h] \in Keys /\ rules[h] \in Engines /\ data[h].rest \in Accounts
    BY <1>0, <1>5, ConfigFields
       DEF CreateInMaps, CreateInChecker, SaveEngine, SaveInChecker, RequestHolds, Working, Compiled
  <2>2. RequestHolds(h)'
    BY <1>0, <1>5, <2>1 DEF CreateInMaps, CreateInChecker, SaveEngine, SaveInChecker,
         RequestHolds, Working, Creates, Saves, Compiled
  <2>3. /\ engines' \in [Keys -> Engines \cup {None}]
        /\ enforced' \in [Keys -> Engines \cup {None}]
    BY <1>0, <1>5, <2>1 DEF CreateInMaps, CreateInChecker, SaveEngine, SaveInChecker, SetEngine
  <2>4. shown' \in [Keys -> RulesOrNone] /\ signs' \in [Keys -> Accounts \cup {None}]
    BY <1>0, <1>1, <1>5, <2>1 DEF CreateInMaps, CreateInChecker, SaveEngine, SaveInChecker
  <2>5. at' \in [Handlers -> {"idle", "newFile", "newRules", "newConfig", "newMaps", "newChecker",
                              "marshal", "persist", "saveFile", "saveRules", "engine", "update",
                              "show"}]
    BY <1>0, <1>5 DEF CreateInMaps, CreateInChecker, SaveEngine, SaveInChecker
  <2>6. UNCHANGED <<diskVars, mem, client, reloadVars, key, rules, data, edits, latest, created,
                    saved, callbackVars>>
    BY <1>5 DEF CreateInMaps, CreateInChecker, SaveEngine, SaveInChecker
  <2>7. RuntimeTypeOK'
    BY <1>0, <1>2, <2>3, <2>4, <2>5, <2>6
  <2> QED BY <2>2, <2>7
<1>6. ASSUME MarshalConfig(h) \/ PersistConfig(h), UNCHANGED callbackVars
      PROVE  RuntimeTypeOK' /\ RequestHolds(h)'
  <2>1. key[h] \in Keys
    BY <1>0, <1>6 DEF MarshalConfig, PersistConfig, RequestHolds, Working
  <2>2. CASE MarshalConfig(h)
    BY <1>0, <1>1, <1>2, <1>6, <2>1, <2>2
       DEF MarshalConfig, RequestHolds, Working, RulesOrNone, Creates, Saves, Compiled
  <2>3. CASE PersistConfig(h)
    BY <1>0, <1>1, <1>2, <1>6, <2>1, <2>3
       DEF PersistConfig, RequestHolds, Working, RulesOrNone, Creates, Saves, Compiled
  <2> QED BY <1>6, <2>2, <2>3
<1>7. ASSUME SaveShown(h), UNCHANGED callbackVars
      PROVE  RuntimeTypeOK' /\ RequestHolds(h)'
  <2>1. key[h] \in Keys /\ rules[h].rules \in RulesOrNone
    BY <1>0, <1>7, EngineFields DEF SaveShown, RequestHolds, Working, Compiled, RulesOrNone
  <2> QED BY <1>0, <1>1, <1>2, <1>7, <2>1
             DEF SaveShown, RequestHolds, Working, RulesOrNone, Creates, Saves, Compiled
<1>8. RuntimeTypeOK' /\ RequestHolds(h)'
  BY <1>3, <1>4, <1>5, <1>6, <1>7 DEF RequestStep
<1>9. ASSUME NEW g \in Handlers \ {h}
      PROVE  at'[g] = at[g] /\ key'[g] = key[g] /\ rules'[g] = rules[g]
  BY <1>0, <1>9 DEF RequestStep, TruncateRules, WriteRules, CreateInConfig, CreateInMaps, CreateInChecker,
         MarshalConfig, PersistConfig, SaveEngine, SaveInChecker, SaveShown
<1>10. \A g \in Handlers : RequestHolds(g)'
  BY <1>8, <1>9 DEF RuntimeInv, RequestHolds, Working
<1> QED BY <1>8, <1>10 DEF RuntimeInv

LEMMA NewRequestTyped == RuntimeInv /\ NewRequest /\ UNCHANGED callbackVars => RuntimeInv'
<1> SUFFICES ASSUME RuntimeInv, UNCHANGED callbackVars, NEW h \in Handlers, NEW k \in Keys,
                    NEW r \in RuleSets, BeginCreate(h, k) \/ BeginSave(h, k, r)
             PROVE  RuntimeInv'
  BY RuntimeAssumption DEF NewRequest
<1> USE DEF diskVars, appVars, checkerVars, reloadVars, callbackVars, Goto, RuntimeTypeOK
<1>0. RuntimeTypeOK /\ r \in RulesOrNone /\ NoTargets \in RulesOrNone
  BY RuntimeAssumption DEF RuntimeInv, RulesOrNone
<1>1. RuntimeTypeOK' /\ RequestHolds(h)'
  <2>1. CASE BeginCreate(h, k)
    BY <1>0, <2>1 DEF BeginCreate, Meets, Working, RequestHolds, Creates, Saves, Compiled
  <2>2. CASE BeginSave(h, k, r)
    BY <1>0, <2>2 DEF BeginSave, Meets, Working, RequestHolds, Creates, Saves, Compiled
  <2> QED BY <2>1, <2>2
<1>2. ASSUME NEW g \in Handlers \ {h}
      PROVE  at'[g] = at[g] /\ key'[g] = key[g] /\ rules'[g] = rules[g]
  BY <1>0, <1>2 DEF BeginCreate, BeginSave
<1> QED BY <1>1, <1>2 DEF RuntimeInv, RequestHolds, Working

LEMMA OperatorTyped == RuntimeInv /\ Operator /\ UNCHANGED callbackVars => RuntimeInv'
<1> SUFFICES ASSUME RuntimeInv, Operator, UNCHANGED callbackVars PROVE RuntimeInv'
  OBVIOUS
<1> USE RuntimeAssumption
    DEF diskVars, appVars, checkerVars, reloadVars, requestVars, callbackVars, RuntimeTypeOK
<1>1. UNCHANGED requestVars
  BY DEF Operator, EditConfig, EditRules
<1>2. \A h \in Handlers : RequestHolds(h)'
  BY <1>1 DEF RuntimeInv, RequestHolds, Working
<1>3. ASSUME NEW W \in SUBSET Keys, NEW N \in SUBSET W, EditConfig(W, N) PROVE RuntimeTypeOK'
  <2>1. file' \in Configs
    BY <1>3 DEF EditConfig, Configs, RuntimeInv
  <2> QED BY <1>3, <2>1 DEF EditConfig, RuntimeInv
<1>4. ASSUME NEW k \in Keys, NEW r \in RulesOrNone, EditRules(k, r) PROVE RuntimeTypeOK'
  BY <1>4 DEF EditRules, RuntimeInv, RulesOrNone
<1> QED BY <1>2, <1>3, <1>4 DEF Operator, RuntimeInv

LEMMA RestartTyped == RuntimeInv /\ Restart => RuntimeInv'
<1> SUFFICES ASSUME RuntimeInv, Restart PROVE RuntimeInv'
  OBVIOUS
<1> USE DEF diskVars, RuntimeTypeOK
<1>1. file \in Configs /\ ruleFile \in [Keys -> RulesOrNone]
  BY DEF RuntimeInv
<1>2. Loaded(file)
  BY DEF Restart
<1>3. RuntimeTypeOK'
  BY <1>1, <1>2, LoadedTyped, RuntimeAssumption DEF Restart, RuntimeInv, NoRules, Configs, RulesOrNone
<1>4. \A h \in Handlers : RequestHolds(h)'
  BY DEF Restart, RequestHolds, Working, Creates, Saves, Compiled
<1> QED BY <1>3, <1>4 DEF RuntimeInv

LEMMA CallbackTyped ==
    RuntimeInv /\ ((\E k \in Keys : ReadSignKey(k)) \/ PostApproval) => RuntimeInv'
  BY DEF RuntimeInv, ReadSignKey, PostApproval, diskVars, appVars, checkerVars, reloadVars,
         requestVars, historyVars, RuntimeTypeOK, RequestHolds, Working, Quiet

LEMMA RuntimeInvStep == RuntimeInv /\ [RuntimeNext]_runtimeVars => RuntimeInv'
<1> SUFFICES ASSUME RuntimeInv, [RuntimeNext]_runtimeVars PROVE RuntimeInv'
  OBVIOUS
<1>1. CASE UNCHANGED runtimeVars
  BY <1>1 DEF runtimeVars, diskVars, appVars, checkerVars, reloadVars, requestVars, callbackVars,
              historyVars, RuntimeInv, RuntimeTypeOK, RequestHolds, Working
<1> QED BY <1>1, ReloadTyped, NewRequestTyped, RequestTyped, OperatorTyped, CallbackTyped,
           RestartTyped DEF RuntimeNext

\* Every variable keeps its type.
THEOREM RuntimeTypesCorrect == RuntimeSpec => []RuntimeTypeOK
  BY RuntimeInvInit, RuntimeInvStep, PTL DEF RuntimeSpec, RuntimeInv

-----------------------------------------------------------------------------
(* Agreement                                                                *)

LEMMA AgreementInvInit == RuntimeInit => AgreementInv
<1> SUFFICES ASSUME RuntimeInit PROVE AgreementInv
  OBVIOUS
<1>1. RuntimeInv
  BY RuntimeInvInit
<1>2. \A h \in Handlers : at[h] = "idle"
  BY DEF RuntimeInit
<1>3. Alone /\ ReloadSoFar
  BY <1>2 DEF Alone, ReloadSoFar, Working, RuntimeInit
<1>4. \A h \in Handlers : RequestSoFar(h)
  BY <1>2 DEF RequestSoFar, Compiled
<1>5. client = mem.rest /\ \A k \in Keys : enforced[k] # None => enforced[k].client = client
  BY DEF RuntimeInit, EnginesOf, EngineOf, Engine
<1>6. AgreesSoFar
  BY <1>4, <1>5 DEF AgreesSoFar, Agreed, SignAgrees, RulesAgree, RuntimeInit, SignsOf, RulesOf
<1> QED BY <1>1, <1>3, <1>6 DEF AgreementInv

\* A reload that nobody disturbs swaps one copy after the other, all of them
\* made from one configuration.
LEMMA ReloadAgrees == AgreementInv /\ ReloadStep => Alone' /\ ReloadSoFar' /\ AgreesSoFar'
<1> SUFFICES ASSUME AgreementInv, ReloadStep PROVE Alone' /\ ReloadSoFar' /\ AgreesSoFar'
  OBVIOUS
<1>1. UNCHANGED requestVars
  BY DEF ReloadStep, LoadFile, BuildEngine, SwapConfig, SwapEngines, SwapShown, SwapChecker
<1>2. clean' => \A h \in Handlers : ~Working(h)
  BY DEF ReloadStep, LoadFile, BuildEngine, SwapConfig, SwapEngines, SwapShown, SwapChecker,
         ReloadMeets
<1>3. Alone'
  BY <1>1, <1>2 DEF Alone, Working, requestVars
<1>4. clean' /\ swap # "idle" => clean
  BY DEF ReloadStep, LoadFile, BuildEngine, SwapConfig, SwapEngines, SwapShown, SwapChecker,
         ReloadMeets
<1>5. clean /\ swap # "idle" =>
        /\ \A k \in Keys : built[k] # None => built[k].client = next.rest
        /\ swap \in {"engines", "shown", "checker"} => mem = next
        /\ swap \in {"shown", "checker"} => engines = built
        /\ swap = "checker" => shown = RulesOf(built)
  BY DEF AgreementInv, ReloadSoFar
<1>6. swap' # "idle" => AgreesSoFar'
  BY DEF AgreesSoFar
<1>7. CASE LoadFile
  <2>1. swap' = "build" /\ built' = NoRules
    BY <1>7 DEF LoadFile
  <2>2. ReloadSoFar'
    BY <2>1 DEF ReloadSoFar, NoRules
  <2> QED BY <1>3, <1>6, <2>1, <2>2
<1>8. ASSUME NEW k \in Keys, BuildEngine(k) PROVE ReloadSoFar' /\ AgreesSoFar'
  <2>1. /\ swap = "build" /\ swap' = "build" /\ next' = next
        /\ built' = [built EXCEPT ![k] = EngineOf(k, next.rest)]
    BY <1>8 DEF BuildEngine
  <2>2. EngineOf(k, next.rest) # None => EngineOf(k, next.rest).client = next.rest
    BY DEF EngineOf, Engine
  <2>3. built \in [Keys -> Engines \cup {None}]
    BY DEF AgreementInv, RuntimeInv, RuntimeTypeOK
  <2>4. ReloadSoFar'
    BY <1>4, <1>5, <2>1, <2>2, <2>3 DEF ReloadSoFar
  <2> QED BY <1>6, <2>1, <2>4
<1>9. CASE SwapConfig
  <2>1. swap = "build" /\ swap' = "engines" /\ mem' = next /\ UNCHANGED <<next, built>>
    BY <1>9 DEF SwapConfig
  <2>2. ReloadSoFar'
    BY <1>4, <1>5, <2>1 DEF ReloadSoFar
  <2> QED BY <1>3, <1>6, <2>1, <2>2
<1>10. CASE SwapEngines
  <2>1. swap = "engines" /\ swap' = "shown" /\ engines' = built /\ UNCHANGED <<mem, next, built>>
    BY <1>10 DEF SwapEngines
  <2>2. ReloadSoFar'
    BY <1>4, <1>5, <2>1 DEF ReloadSoFar
  <2> QED BY <1>3, <1>6, <2>1, <2>2
<1>11. CASE SwapShown
  <2>1. /\ swap = "shown" /\ swap' = "checker" /\ shown' = RulesOf(built)
        /\ UNCHANGED <<mem, engines, next, built>>
    BY <1>11 DEF SwapShown
  <2>2. RulesOf(built)' = RulesOf(built)
    BY <2>1 DEF RulesOf
  <2>3. ReloadSoFar'
    BY <1>4, <1>5, <2>1, <2>2 DEF ReloadSoFar
  <2> QED BY <1>3, <1>6, <2>1, <2>3
<1>12. CASE SwapChecker
  <2>1. swap = "checker" /\ swap' = "idle" /\ UNCHANGED <<mem, engines, shown>>
    BY <1>12 DEF SwapChecker, appVars
  <2>2. ReloadSoFar'
    BY <2>1 DEF ReloadSoFar
  <2>3. ASSUME clean' PROVE Agreed'
    <3>1. /\ mem = next /\ engines = built /\ shown = RulesOf(built)
          /\ \A k \in Keys : built[k] # None => built[k].client = next.rest
      BY <1>4, <1>5, <2>1, <2>3
    <3>2. /\ mem' = next /\ shown' = RulesOf(built) /\ enforced' = built
          /\ signs' = SignsOf(next) /\ client' = next.rest
      BY <1>12, <2>1, <3>1 DEF SwapChecker
    <3>3. \A h \in Handlers : RequestSoFar(h)'
      BY <1>1, <1>2, <2>3 DEF RequestSoFar, Working, Compiled, requestVars
    <3>4. \A k \in Keys : SignAgrees(k)' /\ RulesAgree(k)'
      BY <3>2 DEF SignAgrees, RulesAgree, SignsOf, RulesOf
    <3> QED BY <3>1, <3>2, <3>3, <3>4 DEF Agreed
  <2>4. AgreesSoFar'
    BY <2>3 DEF AgreesSoFar
  <2> QED BY <1>3, <2>2, <2>4
<1> QED BY <1>3, <1>7, <1>8, <1>9, <1>10, <1>11, <1>12 DEF ReloadStep

\* A request that works alone enters its webhook in one copy after the other;
\* meanwhile it is the only one that may disagree.
LEMMA RequestAgrees ==
    ASSUME AgreementInv, NEW h \in Handlers, RequestStep(h)
    PROVE  Alone' /\ ReloadSoFar' /\ AgreesSoFar'
<1>1. /\ UNCHANGED reloadVars
      /\ clean' => clean /\ swap = "idle" /\ \A g \in Handlers \ {h} : ~Working(g)
  BY DEF RequestStep, TruncateRules, WriteRules, CreateInConfig, CreateInMaps, CreateInChecker,
         MarshalConfig, PersistConfig, SaveEngine, SaveInChecker, SaveShown, Meets, reloadVars
<1>2. \A g \in Handlers \ {h} : at'[g] = at[g] /\ key'[g] = key[g]
  BY DEF AgreementInv, RuntimeInv, RuntimeTypeOK, RequestStep, TruncateRules, WriteRules,
         CreateInConfig, CreateInMaps, CreateInChecker, MarshalConfig, PersistConfig,
         SaveEngine, SaveInChecker, SaveShown, Goto, Done
<1>3. SUFFICES ASSUME clean' PROVE Alone' /\ ReloadSoFar' /\ AgreesSoFar'
  BY DEF Alone, ReloadSoFar, AgreesSoFar
<1>4. swap = "idle" /\ swap' = "idle" /\ \A g \in Handlers \ {h} : at[g] = "idle" /\ at'[g] = "idle"
  BY <1>1, <1>2, <1>3 DEF reloadVars, Working
<1>5. Alone' /\ ReloadSoFar'
  BY <1>4 DEF Alone, ReloadSoFar, Working
<1>6. /\ client = mem.rest
      /\ \A k \in Keys : enforced[k] # None => enforced[k].client = client
      /\ \A k \in Keys : SignAgrees(k) \/ Creating(k)
      /\ \A k \in Keys : RulesAgree(k) \/ Saving(k)
      /\ RequestSoFar(h)
  BY <1>1, <1>3 DEF AgreementInv, AgreesSoFar, Agreed
<1>7. \A k \in Keys : /\ Creating(k) <=> at[h] \in {"newMaps", "newChecker"} /\ key[h] = k
                      /\ Saving(k) <=> at[h] \in {"update", "show"} /\ key[h] = k
                      /\ Creating(k)' <=> at'[h] \in {"newMaps", "newChecker"} /\ key'[h] = k
                      /\ Saving(k)' <=> at'[h] \in {"update", "show"} /\ key'[h] = k
  BY <1>4 DEF Creating, Saving
<1>8. \A g \in Handlers \ {h} : RequestSoFar(g)'
  BY <1>4 DEF RequestSoFar, Compiled
<1>9. /\ RequestHolds(h)
      /\ at \in [Handlers -> {"idle", "newFile", "newRules", "newConfig", "newMaps", "newChecker",
                              "marshal", "persist", "saveFile", "saveRules", "engine", "update",
                              "show"}]
      /\ key \in [Handlers -> Keys \cup {None}]
      /\ rules \in [Handlers -> RulesOrNone \cup Engines]
      /\ data \in [Handlers -> Configs] /\ mem \in Configs
      /\ enforced \in [Keys -> Engines \cup {None}]
      /\ shown \in [Keys -> RulesOrNone] /\ signs \in [Keys -> Accounts \cup {None}]
  BY DEF AgreementInv, RuntimeInv, RuntimeTypeOK
<1>10. SUFFICES ASSUME TRUE PROVE Agreed'
  BY <1>5 DEF AgreesSoFar
<1>11. ASSUME TruncateRules(h) \/ WriteRules(h) \/ MarshalConfig(h) \/ PersistConfig(h),
              UNCHANGED callbackVars
       PROVE  Agreed'
  <2>1. UNCHANGED <<mem, client, enforced, signs, shown>>
    BY <1>11 DEF TruncateRules, WriteRules, MarshalConfig, PersistConfig, appVars, checkerVars
  <2>2. /\ at[h] \notin {"newMaps", "newChecker", "update", "show"}
        /\ at'[h] \notin {"newMaps", "newChecker", "update", "show"}
    BY <1>9, <1>11 DEF TruncateRules, WriteRules, MarshalConfig, PersistConfig, Goto, Done
  <2>3. \A k \in Keys : SignAgrees(k)' /\ RulesAgree(k)'
    BY <1>6, <1>7, <2>1, <2>2 DEF SignAgrees, RulesAgree
  <2>4. CASE at'[h] \notin Compiled
    BY <1>6, <1>8, <2>1, <2>2, <2>3, <2>4 DEF Agreed, RequestSoFar, Compiled
  <2>5. CASE at'[h] \in Compiled
    <3>1. WriteRules(h)
      BY <1>9, <1>11, <2>5 DEF TruncateRules, MarshalConfig, PersistConfig, Goto, Done, Compiled
    <3>2. rules'[h] = Engine(rules[h], mem.rest)
      BY <1>4, <1>9, <3>1 DEF WriteRules, AppClient
    <3>3. at'[h] = "newConfig" => rules[h] = NoTargets
      BY <1>9, <3>1 DEF WriteRules, RequestHolds, Creates, Goto
    <3>4. RequestSoFar(h)'
      BY <2>1, <2>2, <3>2, <3>3 DEF RequestSoFar, Engine
    <3> QED BY <1>6, <1>8, <2>1, <2>3, <3>4 DEF Agreed
  <2> QED BY <2>4, <2>5
<1>12. ASSUME CreateInConfig(h), UNCHANGED callbackVars PROVE Agreed'
  <2>1. at[h] = "newConfig" /\ key[h] \in Keys /\ UNCHANGED <<client, enforced, signs, shown>>
    BY <1>9, <1>12 DEF CreateInConfig, checkerVars, RequestHolds, Working
  <2>2. \A k \in Keys : SignAgrees(k) /\ RulesAgree(k)
    BY <1>6, <1>7, <2>1
  <2>3. \A k \in Keys : RulesAgree(k)'
    BY <2>1, <2>2 DEF RulesAgree
  <2>4. CASE mem = Blank
    <3>1. mem' = mem /\ at'[h] = "idle"
      BY <1>9, <1>12, <2>4 DEF CreateInConfig, Done, Goto
    <3>2. \A k \in Keys : SignAgrees(k)'
      BY <2>1, <2>2, <3>1 DEF SignAgrees
    <3>3. RequestSoFar(h)'
      BY <3>1 DEF RequestSoFar, Compiled
    <3> QED BY <1>6, <1>8, <2>1, <2>3, <3>1, <3>2, <3>3 DEF Agreed
  <2>5. CASE mem # Blank
    <3>1. /\ at' = [at EXCEPT ![h] = "newMaps"] /\ key' = key /\ rules' = rules
          /\ mem' = [mem EXCEPT !.webhooks = @ \cup {key[h]}, !.keyless = @ \ {key[h]}]
          /\ data' = [data EXCEPT ![h] = mem']
      BY <1>12, <2>5 DEF CreateInConfig, Goto
    <3>2. mem'.webhooks \ mem'.keyless = (mem.webhooks \ mem.keyless) \cup {key[h]} /\ mem'.rest = mem.rest
      BY <1>9, <3>1 DEF Configs, Blank
    <3>3. at'[h] = "newMaps" /\ data'[h] = mem'
      BY <1>9, <3>1
    <3>4. \A k \in Keys : SignAgrees(k)' \/ Creating(k)'
      BY <1>7, <2>1, <2>2, <3>1, <3>2, <3>3 DEF SignAgrees
    <3>5. RequestSoFar(h)'
      BY <1>6, <2>1, <3>1, <3>2, <3>3 DEF RequestSoFar, Compiled
    <3> QED BY <1>6, <1>8, <2>1, <2>3, <3>2, <3>4, <3>5 DEF Agreed
  <2> QED BY <2>4, <2>5
<1>13. ASSUME CreateInMaps(h), UNCHANGED callbackVars PROVE Agreed'
  <2>1. /\ at[h] = "newMaps" /\ at'[h] = "newChecker" /\ key[h] \in Keys /\ rules[h] \in Engines
        /\ UNCHANGED <<mem, client, signs, key, rules, data>>
        /\ enforced' = [enforced EXCEPT ![key[h]] = rules[h]]
        /\ shown' = [shown EXCEPT ![key[h]] = NoTargets]
    BY <1>4, <1>9, <1>13
       DEF CreateInMaps, SetEngine, Goto, RequestHolds, Working, Compiled
  <2>2. rules[h].client = client /\ rules[h].rules = NoTargets /\ rules[h] # None
    BY <1>6, <2>1, EngineFields DEF RequestSoFar, Compiled
  <2>3. \A k \in Keys : RulesAgree(k)'
    BY <1>6, <1>7, <1>9, <2>1, <2>2 DEF RulesAgree
  <2>4. \A k \in Keys : SignAgrees(k)' \/ Creating(k)'
    BY <1>6, <1>7, <2>1 DEF SignAgrees
  <2>5. \A k \in Keys : enforced'[k] # None => enforced'[k].client = client'
    BY <1>6, <1>9, <2>1, <2>2
  <2>6. RequestSoFar(h)'
    BY <1>6, <1>9, <2>1 DEF RequestSoFar, Compiled
  <2> QED BY <1>6, <1>8, <2>1, <2>3, <2>4, <2>5, <2>6 DEF Agreed
<1>14. ASSUME CreateInChecker(h), UNCHANGED callbackVars PROVE Agreed'
  <2>1. /\ at[h] = "newChecker" /\ at'[h] = "marshal" /\ key[h] \in Keys /\ rules[h] \in Engines
        /\ UNCHANGED <<mem, client, shown, key>>
        /\ enforced' = [enforced EXCEPT ![key[h]] = rules[h]]
        /\ signs' = [signs EXCEPT ![key[h]] = data[h].rest]
    BY <1>9, <1>14
       DEF CreateInChecker, appVars, Goto, RequestHolds, Working, Compiled
  <2>2. /\ rules[h].client = client /\ rules[h].rules = NoTargets /\ rules[h] # None
        /\ key[h] \in mem.webhooks \ mem.keyless /\ data[h].rest = mem.rest
    BY <1>6, <2>1, EngineFields DEF RequestSoFar, Compiled
  <2>3. \A k \in Keys : SignAgrees(k)'
    BY <1>6, <1>7, <1>9, <2>1, <2>2 DEF SignAgrees
  <2>4. \A k \in Keys : RulesAgree(k)'
    <3>1. ASSUME NEW k \in Keys PROVE RulesAgree(k)
      BY <1>6, <1>7, <2>1
    <3>2. enforced[key[h]] = rules[h]
      BY <1>6, <2>1 DEF RequestSoFar
    <3> QED BY <1>9, <2>1, <3>1, <3>2 DEF RulesAgree
  <2>5. \A k \in Keys : enforced'[k] # None => enforced'[k].client = client'
    BY <1>6, <1>9, <2>1, <2>2
  <2>6. RequestSoFar(h)'
    BY <2>1 DEF RequestSoFar, Compiled
  <2> QED BY <1>6, <1>8, <2>1, <2>3, <2>4, <2>5, <2>6 DEF Agreed
<1>15. ASSUME SaveEngine(h) \/ SaveInChecker(h), UNCHANGED callbackVars PROVE Agreed'
  <2>1. /\ at[h] \in {"engine", "update"} /\ at'[h] \in {"update", "show"}
        /\ key[h] \in Keys /\ rules[h] \in Engines
        /\ UNCHANGED <<mem, client, signs, shown, key, rules>>
        /\ enforced' = [enforced EXCEPT ![key[h]] = rules[h]]
    BY <1>4, <1>9, <1>15
       DEF SaveEngine, SaveInChecker, SetEngine, appVars, Goto, RequestHolds, Working, Compiled
  <2>2. rules[h].client = client /\ rules[h] # None
    BY <1>6, <2>1, EngineFields DEF RequestSoFar, Compiled
  <2>3. \A k \in Keys : RulesAgree(k)' \/ Saving(k)'
    BY <1>6, <1>7, <1>9, <2>1 DEF RulesAgree
  <2>4. \A k \in Keys : SignAgrees(k)'
    BY <1>6, <1>7, <2>1 DEF SignAgrees
  <2>5. \A k \in Keys : enforced'[k] # None => enforced'[k].client = client'
    BY <1>6, <1>9, <2>1, <2>2
  <2>6. RequestSoFar(h)'
    BY <1>6, <1>9, <2>1 DEF RequestSoFar, Compiled
  <2> QED BY <1>6, <1>8, <2>1, <2>3, <2>4, <2>5, <2>6 DEF Agreed
<1>16. ASSUME SaveShown(h), UNCHANGED callbackVars PROVE Agreed'
  <2>1. /\ at[h] = "show" /\ at'[h] = "idle" /\ key[h] \in Keys /\ rules[h] \in Engines
        /\ UNCHANGED <<mem, client, signs, enforced>>
        /\ shown' = [shown EXCEPT ![key[h]] = rules[h].rules]
    BY <1>9, <1>16
       DEF SaveShown, checkerVars, Goto, Done, RequestHolds, Working, Compiled
  <2>2. enforced[key[h]] = rules[h] /\ rules[h] # None
    BY <1>6, <2>1, EngineFields DEF RequestSoFar
  <2>3. \A k \in Keys : RulesAgree(k)'
    BY <1>6, <1>7, <1>9, <2>1, <2>2 DEF RulesAgree
  <2>4. \A k \in Keys : SignAgrees(k)'
    BY <1>6, <1>7, <2>1 DEF SignAgrees
  <2>5. RequestSoFar(h)'
    BY <2>1 DEF RequestSoFar, Compiled
  <2> QED BY <1>6, <1>8, <2>1, <2>3, <2>4, <2>5 DEF Agreed
<1> QED BY <1>11, <1>12, <1>13, <1>14, <1>15, <1>16 DEF RequestStep

\* A request begins with nothing entered.
LEMMA NewRequestAgrees ==
    AgreementInv /\ NewRequest /\ UNCHANGED callbackVars => Alone' /\ ReloadSoFar' /\ AgreesSoFar'
<1> SUFFICES ASSUME AgreementInv, UNCHANGED callbackVars, NEW h \in Handlers, NEW k \in Keys,
                    NEW r \in RuleSets, BeginCreate(h, k) \/ BeginSave(h, k, r)
             PROVE  Alone' /\ ReloadSoFar' /\ AgreesSoFar'
  BY RuntimeAssumption DEF NewRequest
<1>1. /\ UNCHANGED <<mem, client, enforced, signs, shown, swap>>
      /\ clean' => clean /\ swap = "idle" /\ \A g \in Handlers \ {h} : ~Working(g)
  BY DEF BeginCreate, BeginSave, Meets, appVars, checkerVars, reloadVars
<1>2. at[h] = "idle" /\ \A g \in Handlers \ {h} : at'[g] = at[g]
  BY DEF AgreementInv, RuntimeInv, RuntimeTypeOK, BeginCreate, BeginSave, Goto
<1>3. at'[h] \in {"newFile", "saveFile"}
  BY DEF AgreementInv, RuntimeInv, RuntimeTypeOK, BeginCreate, BeginSave, Goto
<1>4. SUFFICES ASSUME clean' PROVE Alone' /\ ReloadSoFar' /\ AgreesSoFar'
  BY DEF Alone, ReloadSoFar, AgreesSoFar
<1>5. \A g \in Handlers \ {h} : at[g] = "idle" /\ at'[g] = "idle"
  BY <1>1, <1>2, <1>4 DEF Working
<1>6. swap = "idle" /\ swap' = "idle"
  BY <1>1, <1>4
<1>7. Alone' /\ ReloadSoFar'
  BY <1>5, <1>6 DEF Alone, ReloadSoFar, Working
<1>8. \A j \in Keys : ~Creating(j) /\ ~Saving(j)
  BY <1>2, <1>5 DEF Creating, Saving
<1>9. /\ client = mem.rest
      /\ \A j \in Keys : enforced[j] # None => enforced[j].client = client
      /\ \A j \in Keys : SignAgrees(j) /\ RulesAgree(j)
  BY <1>1, <1>4, <1>6, <1>8 DEF AgreementInv, AgreesSoFar, Agreed
<1>10. \A j \in Keys : SignAgrees(j)' /\ RulesAgree(j)'
  BY <1>1, <1>9 DEF SignAgrees, RulesAgree
<1>11. \A g \in Handlers : RequestSoFar(g)'
  BY <1>3, <1>5 DEF RequestSoFar, Compiled
<1>12. Agreed'
  BY <1>1, <1>9, <1>10, <1>11 DEF Agreed
<1> QED BY <1>7, <1>12 DEF AgreesSoFar

\* What the operator and the callback do, and a restart.
LEMMA OthersAgree ==
    ASSUME AgreementInv,
           \/ UNCHANGED <<appVars, checkerVars, reloadVars, requestVars, clean>>
           \/ Restart
    PROVE  Alone' /\ ReloadSoFar' /\ AgreesSoFar'
<1>1. CASE UNCHANGED <<appVars, checkerVars, reloadVars, requestVars, clean>>
  <2> USE DEF appVars, checkerVars, reloadVars, requestVars
  <2>1. Alone'
    BY <1>1 DEF AgreementInv, Alone, Working
  <2>2. ReloadSoFar'
    BY <1>1 DEF AgreementInv, ReloadSoFar, RulesOf
  <2>3. Agreed => Agreed'
    BY <1>1 DEF Agreed, SignAgrees, RulesAgree, Creating, Saving, RequestSoFar
  <2>4. AgreesSoFar'
    BY <1>1, <2>3 DEF AgreementInv, AgreesSoFar
  <2> QED BY <2>1, <2>2, <2>4
<1>2. CASE Restart
  <2>1. swap' = "idle" /\ \A h \in Handlers : at'[h] = "idle"
    BY <1>2 DEF Restart
  <2>2. Alone' /\ ReloadSoFar'
    BY <2>1 DEF Alone, ReloadSoFar, Working
  <2>3. /\ mem' = file /\ client' = file.rest /\ enforced' = EnginesOf(file)
        /\ signs' = SignsOf(file) /\ shown' = RulesOf(EnginesOf(file))
    BY <1>2 DEF Restart, Loaded
  <2>4. \A k \in Keys : enforced'[k] # None => enforced'[k].client = file.rest
    BY <2>3 DEF EnginesOf, EngineOf, Engine
  <2>5. \A k \in Keys : SignAgrees(k)' /\ RulesAgree(k)'
    BY <2>3 DEF SignAgrees, RulesAgree, SignsOf, RulesOf
  <2>6. \A h \in Handlers : RequestSoFar(h)'
    BY <2>1 DEF RequestSoFar, Compiled
  <2>7. Agreed'
    BY <2>3, <2>4, <2>5, <2>6 DEF Agreed
  <2> QED BY <2>2, <2>7 DEF AgreesSoFar
<1> QED BY <1>1, <1>2

LEMMA AgreementInvStep == AgreementInv /\ [RuntimeNext]_runtimeVars => AgreementInv'
<1> SUFFICES ASSUME AgreementInv, [RuntimeNext]_runtimeVars PROVE AgreementInv'
  OBVIOUS
<1>1. RuntimeInv'
  BY RuntimeInvStep DEF AgreementInv
<1>2. CASE UNCHANGED runtimeVars
  BY <1>1, <1>2, OthersAgree DEF AgreementInv, runtimeVars, historyVars
<1>3. CASE Operator
  BY <1>1, <1>3, OthersAgree DEF AgreementInv, Operator, EditConfig, EditRules
<1>4. CASE (\E k \in Keys : ReadSignKey(k)) \/ PostApproval
  BY <1>1, <1>4, OthersAgree DEF AgreementInv, ReadSignKey, PostApproval, historyVars
<1>5. CASE Restart
  BY <1>1, <1>5, OthersAgree DEF AgreementInv
<1> QED BY <1>1, <1>2, <1>3, <1>4, <1>5, ReloadAgrees, RequestAgrees, NewRequestAgrees
        DEF AgreementInv, RuntimeNext

LEMMA AgreementHolds == RuntimeSpec => []AgreementInv
  BY AgreementInvInit, AgreementInvStep, PTL DEF RuntimeSpec

\* The copies agree whenever nobody is at work and no two actors have overlapped
\* since the last reload: what is routed can be called back, the page shows what is
\* enforced, and every engine uses the account that approvals are sent to.
THEOREM CopiesAgree == RuntimeSpec => []AgreesUnlessOverlapped
<1>1. AgreementInv => AgreesUnlessOverlapped
  <2> SUFFICES ASSUME AgreementInv, clean, Quiet
               PROVE  /\ signs = SignsOf(mem) /\ client = mem.rest
                      /\ shown = RulesOf(enforced)
                      /\ \A k \in Keys : enforced[k] # None => enforced[k].client = client
    BY DEF AgreesUnlessOverlapped
  <2>1. \A k \in Keys : ~Creating(k) /\ ~Saving(k)
    BY DEF Quiet, Working, Creating, Saving
  <2>2. Agreed
    BY DEF AgreementInv, AgreesSoFar, Quiet
  <2>3. \A k \in Keys : SignAgrees(k) /\ RulesAgree(k)
    BY <2>1, <2>2 DEF Agreed
  <2>4. signs \in [Keys -> Accounts \cup {None}] /\ shown \in [Keys -> RulesOrNone]
    BY DEF AgreementInv, RuntimeInv, RuntimeTypeOK
  <2>5. signs = SignsOf(mem)
    BY <2>3, <2>4 DEF SignAgrees, SignsOf
  <2>6. shown = RulesOf(enforced)
    BY <2>3, <2>4 DEF RulesAgree, RulesOf
  <2> QED BY <2>2, <2>5, <2>6 DEF Agreed
<1> QED BY <1>1, AgreementHolds, PTL

-----------------------------------------------------------------------------
(* Approvals                                                                *)

LEMMA PairedStep ==
    AgreementInv /\ PairedUnlessSwapped /\ [RuntimeNext]_runtimeVars => PairedUnlessSwapped'
<1> SUFFICES ASSUME AgreementInv, PairedUnlessSwapped, [RuntimeNext]_runtimeVars
             PROVE  PairedUnlessSwapped'
  OBVIOUS
<1>1. ASSUME NEW k \in Keys, ReadSignKey(k) PROVE PairedUnlessSwapped'
  <2> SUFFICES ASSUME clean, Quiet PROVE callback' = client'
    BY <1>1 DEF ReadSignKey, PairedUnlessSwapped
  <2>1. ~Creating(k)
    BY DEF Quiet, Working, Creating
  <2>2. SignAgrees(k) /\ client = mem.rest
    BY <2>1 DEF AgreementInv, AgreesSoFar, Agreed, Quiet
  <2> QED BY <1>1, <2>2 DEF ReadSignKey, SignAgrees, checkerVars
<1>2. CASE paired' = FALSE
  BY <1>2 DEF PairedUnlessSwapped
<1>3. CASE UNCHANGED <<callback, paired, client>>
  BY <1>3 DEF PairedUnlessSwapped
<1>4. SwapChecker \/ Restart \/ PostApproval => paired' = FALSE
  BY DEF SwapChecker, Restart, PostApproval
<1>5. (ReloadStep /\ ~SwapChecker) \/ (\E h \in Handlers : RequestStep(h)) =>
        UNCHANGED <<callback, paired, client>>
  BY DEF ReloadStep, LoadFile, BuildEngine, SwapConfig, SwapEngines, SwapShown,
         RequestStep, TruncateRules, WriteRules, CreateInConfig, CreateInMaps, CreateInChecker,
         MarshalConfig, PersistConfig, SaveEngine, SaveInChecker, SaveShown,
         checkerVars, callbackVars
<1>6. (NewRequest \/ Operator) /\ UNCHANGED callbackVars => UNCHANGED <<callback, paired, client>>
  BY DEF NewRequest, BeginCreate, BeginSave, Operator, EditConfig, EditRules, checkerVars,
         callbackVars
<1>7. UNCHANGED runtimeVars => UNCHANGED <<callback, paired, client>>
  BY DEF runtimeVars, checkerVars, callbackVars
<1> QED BY <1>1, <1>2, <1>3, <1>4, <1>5, <1>6, <1>7 DEF RuntimeNext

\* The sign key that a callback has read is of the account that the callback goes
\* to, as long as the state was clean and quiet when it was read and no reload has
\* swapped the client since.
THEOREM ApprovalsArePaired == RuntimeSpec => []PairedUnlessSwapped
<1>1. RuntimeInit => PairedUnlessSwapped
  BY DEF RuntimeInit, PairedUnlessSwapped
<1> QED BY <1>1, AgreementHolds, PairedStep, PTL DEF RuntimeSpec
=============================================================================
