--------------------------- MODULE RuntimeConfig ---------------------------
(***************************************************************************)
(* The configuration while the service runs (src/src/app/app.go): every    *)
(* sync reloads the configuration file and the rule files                  *)
(* (reloadRuntimeConfig), the web page creates webhooks (CreateWebhook)    *)
(* and saves rules (SaveRules), and an operator edits the files.           *)
(*                                                                         *)
(* The two files, App.Config, App.Engines, App.RulesCfgs (which the page   *)
(* shows) and the Checker's client, sign keys and engines hold the same    *)
(* facts. Each assignment takes effect on its own: App has no lock for     *)
(* them. The consumer reads the Checker's sign key and client under two    *)
(* locks.                                                                  *)
(*                                                                         *)
(* A configuration is the set of its webhooks, those among them that the   *)
(* operator gave no sign key, and the number of the edit that everything   *)
(* else in it comes from: the account at EKB and its sign  *)
(* keys too, so that a client and a sign key are named by that number.     *)
(* Syncs exclude each other (proved of BudgetSync), so there is one        *)
(* reloading goroutine.                                                    *)
(***************************************************************************)
EXTENDS Integers

CONSTANTS
    Keys,       \* webhook keys
    Handlers,   \* goroutines of web requests
    RuleSets,   \* what a rule file may say
    NoTargets,  \* the rules of a new webhook: no target
    None,       \* no rules: no entry in a map, no file on disk
    MaxEdits    \* bound: how often the operator edits a file

ASSUME RuntimeAssumption ==
    /\ NoTargets \in RuleSets
    /\ None \notin RuleSets
    /\ \A r \in RuleSets, c \in -1 .. MaxEdits : None # [rules |-> r, client |-> c]
    /\ MaxEdits \in Nat

VARIABLES
    file,      \* config.yaml
    ruleFile,  \* rules/<key>.json
    mem,       \* App.Config, which the webhook route reads
    engines,   \* App.Engines: rules and client; RulesPaths has the same keys
    enforced,  \* Checker.Engines, the same map unless a reload is swapping it
    signs,     \* Checker.SignKeys
    client,    \* Checker.Client
    shown,     \* App.RulesCfgs
    \* reloadRuntimeConfig.
    swap,      \* where it is
    next,      \* nextCfg
    built,     \* buildRuleRuntime's engines and rule configurations
    todo,      \* the webhooks it has not built yet
    \* A web request: where it is, its key, its rules, what it is about to write.
    at, key, rules, data,
    callback,  \* the sign key that CallbackApproval has read, before the client
    \* History variables.
    edits,     \* how often the operator has edited a file
    latest,    \* the last edit of config.yaml
    created,   \* webhooks whose creation was answered with ok, unless an edit removed them
    saved,     \* the rules whose saving was last answered with ok
    paired,    \* whether the Checker has been consistent since callback was read
    clean      \* since a reload nobody interfered with, requests came one by one

diskVars == <<file, ruleFile>>
appVars == <<mem, engines, shown>>
checkerVars == <<enforced, signs, client>>
reloadVars == <<swap, next, built, todo>>
requestVars == <<at, key, rules, data>>
callbackVars == <<callback, paired>>
historyVars == <<edits, latest, created, saved, clean>>
runtimeVars == <<diskVars, appVars, checkerVars, reloadVars, requestVars, callbackVars,
                 historyVars>>

RulesOrNone == RuleSets \cup {None}
Accounts == -1 .. MaxEdits
Engines == [rules : RuleSets, client : Accounts]

\* An empty file is read without an error, as a configuration of nothing.
Blank == [webhooks |-> {}, keyless |-> {}, rest |-> -1]
Configs == [webhooks : SUBSET Keys, keyless : SUBSET Keys, rest : 0 .. MaxEdits] \cup {Blank}

RuntimeTypeOK ==
    /\ file \in Configs /\ mem \in Configs /\ next \in Configs
    /\ ruleFile \in [Keys -> RulesOrNone]
    /\ engines \in [Keys -> Engines \cup {None}]
    /\ enforced \in [Keys -> Engines \cup {None}]
    /\ shown \in [Keys -> RulesOrNone]
    /\ built \in [Keys -> Engines \cup {None}]
    /\ signs \in [Keys -> Accounts \cup {None}]
    /\ client \in Accounts
    /\ swap \in {"idle", "build", "engines", "shown", "checker"}
    /\ todo \subseteq Keys
    /\ at \in [Handlers -> {"idle", "newFile", "newRules", "newConfig", "newMaps",
                            "newChecker", "marshal", "persist",
                            "saveFile", "saveRules", "engine", "update", "show"}]
    /\ key \in [Handlers -> Keys \cup {None}]
    /\ rules \in [Handlers -> RulesOrNone \cup Engines]
    /\ callback \in Accounts \cup {None} /\ paired \in BOOLEAN
    /\ data \in [Handlers -> Configs]
    /\ edits \in 0 .. MaxEdits
    /\ latest \in 0 .. edits
    /\ created \subseteq Keys
    /\ saved \in [Keys -> RulesOrNone]
    /\ clean \in BOOLEAN

NoRules == [k \in Keys |-> None]

Engine(r, c) == [rules |-> r, client |-> c]
RulesOf(es) == [k \in Keys |-> IF es[k] = None THEN None ELSE es[k].rules]

\* buildRuleRuntime for one webhook: no engine without a rule file.
EngineOf(k, c) == IF ruleFile[k] = None THEN None ELSE Engine(ruleFile[k], c)
EnginesOf(c) == [k \in Keys |-> IF k \in c.webhooks THEN EngineOf(k, c.rest) ELSE None]
SignsOf(c) == [k \in Keys |-> IF k \in c.webhooks \ c.keyless THEN c.rest ELSE None]

\* App.Client: a reload that has loaded another account replaces it at once.
AppClient == IF swap = "build" THEN next.rest ELSE mem.rest

\* The process starts from the files; so does its next life.
Loaded(c) ==
    /\ mem' = c
    /\ engines' = EnginesOf(c)
    /\ enforced' = EnginesOf(c)
    /\ shown' = RulesOf(EnginesOf(c))
    /\ signs' = SignsOf(c)
    /\ client' = c.rest

RuntimeInit ==
    /\ file \in [webhooks : SUBSET Keys, keyless : SUBSET Keys, rest : {0}]
    /\ file.keyless \subseteq file.webhooks
    /\ ruleFile \in [Keys -> {NoTargets, None}]
    /\ mem = file
    /\ engines = EnginesOf(file)
    /\ enforced = engines
    /\ shown = RulesOf(engines)
    /\ signs = SignsOf(file)
    /\ client = file.rest
    /\ callback = None /\ paired = FALSE
    /\ swap = "idle" /\ next = Blank /\ built = NoRules /\ todo = {}
    /\ at = [h \in Handlers |-> "idle"]
    /\ key = [h \in Handlers |-> None]
    /\ rules = [h \in Handlers |-> None]
    /\ data = [h \in Handlers |-> Blank]
    /\ edits = 0 /\ latest = 0 /\ created = {} /\ saved = NoRules /\ clean = TRUE

Working(h) == at[h] # "idle"
Quiet == swap = "idle" /\ \A h \in Handlers : ~Working(h)

\* A step of h, or of the reload, is no longer one of a single actor.
Meets(h) == clean' = (clean /\ swap = "idle" /\ \A g \in Handlers \ {h} : ~Working(g))
ReloadMeets == clean' = (clean /\ \A h \in Handlers : ~Working(h))

-----------------------------------------------------------------------------
(* reloadRuntimeConfig                                                      *)

\* LoadConfig. A sync repairs what earlier interference has left behind.
LoadFile ==
    /\ swap = "idle"
    /\ swap' = "build"
    /\ next' = file
    /\ built' = NoRules
    /\ todo' = file.webhooks
    /\ clean' = (\A h \in Handlers : ~Working(h))
    /\ UNCHANGED <<diskVars, appVars, checkerVars, requestVars, edits, latest, created, saved>>

\* LoadRules and NewEngine of one webhook after the other.
BuildEngine(k) ==
    /\ swap = "build"
    /\ k \in todo
    /\ built' = [built EXCEPT ![k] = EngineOf(k, next.rest)]
    /\ todo' = todo \ {k}
    /\ ReloadMeets
    /\ UNCHANGED <<diskVars, appVars, checkerVars, swap, next, requestVars, edits, latest, created, saved>>

\* *a.Config = *nextCfg: from here on the new webhooks are routed.
SwapConfig ==
    /\ swap = "build"
    /\ todo = {}
    /\ swap' = "engines"
    /\ mem' = next
    /\ ReloadMeets
    /\ UNCHANGED <<diskVars, engines, shown, checkerVars, next, built, todo, requestVars,
                   edits, latest, created, saved>>

\* a.Engines and a.RulesPaths become new maps; the Checker keeps the old one.
SwapEngines ==
    /\ swap = "engines"
    /\ swap' = "shown"
    /\ engines' = built
    /\ ReloadMeets
    /\ UNCHANGED <<diskVars, mem, shown, checkerVars, next, built, todo, requestVars,
                   edits, latest, created, saved>>

\* Mutant of SwapShown: old entries are not deleted.
SwapShownAdds ==
    /\ swap = "shown"
    /\ swap' = "checker"
    /\ shown' = [k \in Keys |-> IF built[k] = None THEN shown[k] ELSE built[k].rules]
    /\ ReloadMeets
    /\ UNCHANGED <<diskVars, mem, engines, checkerVars, next, built, todo, requestVars,
                   edits, latest, created, saved>>

\* replaceRulesCfgs empties the map the web page holds and fills it again.
SwapShown ==
    /\ swap = "shown"
    /\ swap' = "checker"
    /\ shown' = RulesOf(built)
    /\ ReloadMeets
    /\ UNCHANGED <<diskVars, mem, engines, checkerVars, next, built, todo, requestVars,
                   edits, latest, created, saved>>

\* Mutant of SwapChecker: the sign keys are only added to.
SwapCheckerAdds ==
    /\ swap = "checker"
    /\ swap' = "idle" /\ next' = Blank /\ built' = NoRules
    /\ enforced' = engines
    /\ signs' = [k \in Keys |-> IF SignsOf(next)[k] # None THEN next.rest ELSE signs[k]]
    /\ client' = next.rest
    /\ paired' = FALSE
    /\ ReloadMeets
    /\ UNCHANGED <<diskVars, appVars, todo, requestVars, callback, edits, latest, created, saved>>

\* Mutant of SwapChecker: the client stays the one of the old account.
SwapCheckerKeepsClient ==
    /\ swap = "checker"
    /\ swap' = "idle" /\ next' = Blank /\ built' = NoRules
    /\ enforced' = engines
    /\ signs' = SignsOf(next)
    /\ paired' = FALSE
    /\ ReloadMeets
    /\ UNCHANGED <<diskVars, appVars, client, todo, requestVars, callback,
                   edits, latest, created, saved>>

\* ReplaceRuntime: App's client, the sign keys as loaded, and App's map of engines
\* with whatever has been written to it since, under one lock.
SwapChecker ==
    /\ swap = "checker"
    /\ swap' = "idle" /\ next' = Blank /\ built' = NoRules
    /\ enforced' = engines
    /\ signs' = SignsOf(next)
    /\ client' = next.rest
    /\ paired' = FALSE
    /\ ReloadMeets
    /\ UNCHANGED <<diskVars, appVars, todo, requestVars, callback, edits, latest, created, saved>>

-----------------------------------------------------------------------------
(* Requests of the web page                                                 *)

Goto(h, there) == at' = [at EXCEPT ![h] = there]

\* The request has been answered; nothing is left of what it held.
Done(h) ==
    /\ Goto(h, "idle")
    /\ key' = [key EXCEPT ![h] = None]
    /\ rules' = [rules EXCEPT ![h] = None]
    /\ data' = [data EXCEPT ![h] = Blank]

\* a.Engines[k] = r, in a map that the Checker holds too unless it is swapped.
SetEngine(k, r) ==
    /\ engines' = [engines EXCEPT ![k] = r]
    /\ enforced' = IF swap \in {"shown", "checker"} THEN enforced
                   ELSE [enforced EXCEPT ![k] = r]

\* CreateWebhook: the key is not in use.
BeginCreate(h, k) ==
    /\ at[h] = "idle"
    /\ k \notin mem.webhooks
    /\ Goto(h, "newFile")
    /\ key' = [key EXCEPT ![h] = k]
    /\ rules' = [rules EXCEPT ![h] = NoTargets]
    /\ Meets(h)
    /\ UNCHANGED <<diskVars, appVars, checkerVars, reloadVars, data, edits, latest, created, saved>>

\* WriteFile truncates the rule file, or creates an empty one, which LoadRules
\* refuses.
TruncateRules(h) ==
    /\ at[h] \in {"newFile", "saveFile"}
    /\ Goto(h, IF at[h] = "newFile" THEN "newRules" ELSE "saveRules")
    /\ ruleFile' = [ruleFile EXCEPT ![key[h]] = None]
    /\ saved' = [saved EXCEPT ![key[h]] = None]
    /\ Meets(h)
    /\ UNCHANGED <<file, appVars, checkerVars, reloadVars, key, rules, data, edits, latest, created>>

\* The rules are written, and compiled with App's client of this moment.
WriteRules(h) ==
    /\ at[h] \in {"newRules", "saveRules"}
    /\ Goto(h, IF at[h] = "newRules" THEN "newConfig" ELSE "engine")
    /\ ruleFile' = [ruleFile EXCEPT ![key[h]] = rules[h]]
    /\ rules' = [rules EXCEPT ![h] = Engine(rules[h], AppClient)]
    /\ Meets(h)
    /\ UNCHANGED <<file, appVars, checkerVars, reloadVars, key, data, edits, latest, created, saved>>

\* a.Config.Webhooks[key] = ..., with a sign key (handler.go:235); a panic if a blank file was loaded (a nil map).
CreateInConfig(h) ==
    /\ at[h] = "newConfig"
    /\ IF mem = Blank
       THEN Done(h) /\ UNCHANGED mem
       ELSE /\ Goto(h, "newMaps")
            /\ mem' = [mem EXCEPT !.webhooks = @ \cup {key[h]}, !.keyless = @ \ {key[h]}]
            /\ data' = [data EXCEPT ![h] = mem']
            /\ UNCHANGED <<key, rules>>
    /\ Meets(h)
    /\ UNCHANGED <<diskVars, engines, shown, checkerVars, reloadVars,
                   edits, latest, created, saved>>

CreateInMaps(h) ==
    /\ at[h] = "newMaps"
    /\ Goto(h, "newChecker")
    /\ SetEngine(key[h], rules[h])
    /\ shown' = [shown EXCEPT ![key[h]] = NoTargets]
    /\ Meets(h)
    /\ UNCHANGED <<diskVars, mem, signs, client, reloadVars, key, rules, data, edits, latest, created, saved>>

\* AddSignKey, of the sign key that was put into the configuration, and UpdateEngine.
CreateInChecker(h) ==
    /\ at[h] = "newChecker"
    /\ Goto(h, "marshal")
    /\ signs' = [signs EXCEPT ![key[h]] = data[h].rest]
    /\ enforced' = [enforced EXCEPT ![key[h]] = rules[h]]
    /\ Meets(h)
    /\ UNCHANGED <<diskVars, appVars, client, reloadVars, key, rules, data, edits, latest, created, saved>>

\* SaveConfig marshals what App.Config is now; WriteFile truncates the file.
MarshalConfig(h) ==
    /\ at[h] = "marshal"
    /\ Goto(h, "persist")
    /\ data' = [data EXCEPT ![h] = mem]
    /\ file' = Blank
    /\ Meets(h)
    /\ UNCHANGED <<ruleFile, appVars, checkerVars, reloadVars, key, rules, edits, latest, created, saved>>

\* The file is written, and the request is answered with ok.
PersistConfig(h) ==
    /\ at[h] = "persist"
    /\ Done(h)
    /\ file' = data[h]
    /\ created' = created \cup {key[h]}
    /\ Meets(h)
    /\ UNCHANGED <<ruleFile, appVars, checkerVars, reloadVars, edits, latest, saved>>

\* handleSaveRules, SaveRules: the page knows the key, and so does RulesPaths.
BeginSave(h, k, r) ==
    /\ at[h] = "idle"
    /\ shown[k] # None
    /\ engines[k] # None
    /\ Goto(h, "saveFile")
    /\ key' = [key EXCEPT ![h] = k]
    /\ rules' = [rules EXCEPT ![h] = r]
    /\ Meets(h)
    /\ UNCHANGED <<diskVars, appVars, checkerVars, reloadVars, data, edits, latest, created, saved>>

SaveEngine(h) ==
    /\ at[h] = "engine"
    /\ Goto(h, "update")
    /\ SetEngine(key[h], rules[h])
    /\ Meets(h)
    /\ UNCHANGED <<diskVars, mem, shown, signs, client, reloadVars, key, rules, data, edits, latest, created, saved>>

SaveInChecker(h) ==
    /\ at[h] = "update"
    /\ Goto(h, "show")
    /\ enforced' = [enforced EXCEPT ![key[h]] = rules[h]]
    /\ Meets(h)
    /\ UNCHANGED <<diskVars, appVars, signs, client, reloadVars, key, rules, data, edits, latest, created, saved>>

\* handleSaveRules updates what the page shows, and answers ok.
SaveShown(h) ==
    /\ at[h] = "show"
    /\ Done(h)
    /\ shown' = [shown EXCEPT ![key[h]] = rules[h].rules]
    /\ saved' = [saved EXCEPT ![key[h]] = rules[h].rules]
    /\ Meets(h)
    /\ UNCHANGED <<diskVars, mem, engines, checkerVars, reloadVars, edits, latest, created>>

-----------------------------------------------------------------------------
(* The operator and the process                                             *)

EditConfig(W, N) ==
    /\ edits < MaxEdits
    /\ edits' = edits + 1
    /\ file' = [webhooks |-> W, keyless |-> N, rest |-> edits']
    /\ latest' = edits'
    /\ created' = created \cap W
    /\ UNCHANGED <<ruleFile, appVars, checkerVars, reloadVars, requestVars, saved, clean>>

EditRules(k, r) ==
    /\ edits < MaxEdits
    /\ edits' = edits + 1
    /\ ruleFile' = [ruleFile EXCEPT ![k] = r]
    /\ saved' = [saved EXCEPT ![k] = None]
    /\ UNCHANGED <<file, appVars, checkerVars, reloadVars, requestVars, latest, created, clean>>

\* The process stops, wherever it is, and starts again.
Restart ==
    /\ Loaded(file)
    /\ swap' = "idle" /\ next' = Blank /\ built' = NoRules /\ todo' = {}
    /\ at' = [h \in Handlers |-> "idle"]
    /\ key' = [h \in Handlers |-> None]
    /\ rules' = [h \in Handlers |-> None]
    /\ data' = [h \in Handlers |-> Blank]
    /\ callback' = None /\ paired' = FALSE
    /\ clean' = TRUE
    /\ UNCHANGED <<diskVars, edits, latest, created, saved>>

-----------------------------------------------------------------------------
(* CallbackApproval, of the consumer or of the retry goroutine              *)

\* The sign key, under a read lock.
ReadSignKey(k) ==
    /\ callback = None
    /\ signs[k] # None
    /\ callback' = signs[k]
    /\ paired' = (clean /\ Quiet)
    /\ UNCHANGED <<diskVars, appVars, checkerVars, reloadVars, requestVars, historyVars>>

\* The client, under another: the sign key is sent to the account of client.
PostApproval ==
    /\ callback # None
    /\ callback' = None
    /\ paired' = FALSE
    /\ UNCHANGED <<diskVars, appVars, checkerVars, reloadVars, requestVars, historyVars>>

-----------------------------------------------------------------------------
ReloadStep ==
    \/ SwapChecker
    \/ /\ LoadFile \/ (\E k \in Keys : BuildEngine(k)) \/ SwapConfig \/ SwapEngines \/ SwapShown
       /\ UNCHANGED callbackVars
RequestStep(h) ==
    /\ \/ TruncateRules(h) \/ WriteRules(h)
       \/ CreateInConfig(h) \/ CreateInMaps(h) \/ CreateInChecker(h)
       \/ MarshalConfig(h) \/ PersistConfig(h)
       \/ SaveEngine(h) \/ SaveInChecker(h) \/ SaveShown(h)
    /\ UNCHANGED callbackVars
NewRequest ==
    \E h \in Handlers, k \in Keys :
        BeginCreate(h, k) \/ \E r \in RuleSets : BeginSave(h, k, r)
Operator ==
    \/ \E W \in SUBSET Keys : \E N \in SUBSET W : EditConfig(W, N)
    \/ \E k \in Keys, r \in RulesOrNone : EditRules(k, r)

RuntimeNext ==
    \/ ReloadStep
    \/ NewRequest /\ UNCHANGED callbackVars
    \/ \E h \in Handlers : RequestStep(h)
    \/ Operator /\ UNCHANGED callbackVars
    \/ (\E k \in Keys : ReadSignKey(k)) \/ PostApproval
    \/ Restart

RuntimeSpec == RuntimeInit /\ [][RuntimeNext]_runtimeVars

\* Syncs come again and again (Converges of BudgetSync), and requests end.
RuntimeFairSpec ==
    /\ RuntimeSpec
    /\ WF_runtimeVars(ReloadStep)
    /\ \A h \in Handlers : WF_runtimeVars(RequestStep(h))

-----------------------------------------------------------------------------
\* The facts that are kept several times agree: what is routed can be called back if
\* it has a sign key, what the page shows is what is enforced, and it is enforced
\* with the account that approvals are sent to. Requests, reloads and restarts keep
\* it so, as long as no two of them overlap.
AgreesUnlessOverlapped ==
    clean /\ Quiet =>
        /\ signs = SignsOf(mem) /\ client = mem.rest
        /\ shown = RulesOf(enforced)
        /\ \A k \in Keys : enforced[k] # None => enforced[k].client = client

\* An approval is signed for the account that it is sent to, unless the
\* configuration was being changed when the sign key was read, or ReplaceRuntime
\* came between the locks of CallbackApproval.
PairedUnlessSwapped == callback # None /\ paired => callback = client

\* However requests, edits and reloads have overlapped: when they have stopped, one
\* more reload brings memory in line with the files, and what the page shows in
\* line with what is enforced. Nothing stale survives the next sync, neither rules
\* nor an engine with the client of an account that is no longer used.
ReloadRepairs ==
    <>[][~NewRequest /\ ~Operator /\ ~Restart]_runtimeVars =>
        <>[](/\ mem = file
             /\ signs = SignsOf(file) /\ client = file.rest
             /\ enforced = EnginesOf(file)
             /\ shown = RulesOf(enforced))

\* app.go:253: creating a webhook writes it to memory and persists it. Broken by a
\* reload that has read the file before: it takes the webhook out of memory, and
\* SaveConfig then persists a configuration without it.
CreatedWebhookSurvives == Quiet => created \subseteq mem.webhooks \cap file.webhooks

\* app.go:360: the service recovers when the operator repairs the configuration
\* file. Broken by a webhook created before the next sync: SaveConfig writes back
\* what was loaded before the repair.
EditsSurvive == Quiet /\ file # Blank => file.rest = latest

\* app.go:331: the rules are updated and recompiled when a save is answered.
\* Broken by a reload that has read the rule file before the save.
SavedRulesAreEnforced ==
    Quiet => \A k \in mem.webhooks : saved[k] # None => RulesOf(enforced)[k] = saved[k]

\* static/app.js:350: saved rules take effect after a restart. Broken by every save.
SavesWaitForRestart ==
    [][\A h \in Handlers : SaveEngine(h) => UNCHANGED enforced]_runtimeVars
=============================================================================
