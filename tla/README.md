# Verification of budget-check

budget-check answers approval requests of the expense platform EKB. EKB sends a
webhook for every document that reaches an approval step; the service queues it,
fetches the document, checks it with the rules of that webhook and with a cached
copy of the budget trees, and calls EKB back with "accept" or "refuse". This
directory holds TLA+ models of that service, the TLC runs that check them, and
proofs that TLAPS checks. Paths below are relative to the Go module, `src/`;
`app.go` is `src/src/app/app.go`, and so on.

    tlasany M.tla                          # parse
    tlc -config X.cfg MCM.tla              # run X of the table in section 4
    tlapm MProofs.tla                      # check the proofs of section 5

## 1. Inventory

### 1.1 Components

| component | code | state | operations | what makes it correct |
|---|---|---|---|---|
| webhook intake and queue | `web/webhook.go`, `queue/queue.go` | a bounded channel | accept (200), reject when full (503), requeue | an accepted request is in one place; a rejected one in none |
| consumer | `app.go` `Run`, `processTask`; `consumer/budget-check.go` | the task in hand, its verdict, the history | two checks for missing budgets, evaluate, call back, hand over to the retry bucket, recover from a panic | a pause loses or lets through at most one task; one verdict per task |
| retry bucket | `consumer/retry.go` | tasks with attempts and a time; the batch of a scan | add, scan, retry, give up | no retry before its time; no task twice; four calls at most |
| budget sync | `app.go` `Sync`, `Run`; `budget/sync.go`; `web/server.go` `/api/sync` | the flag `Syncing`, the count `SyncFails`, a private store | enter, reload, fetch, build, install, fail, back off, manual request | one sync at a time; the store is always one whole sync's |
| sync backoff | `app.go` `nextSyncBackoff` | none | compute the next wait | the table of its comment |
| budget store and tree | `budget/store.go`, `budget/sync.go` `buildTree`, `fetchNodes` | trees, an index, missing targets | fetch pages and nodes in parallel, merge, index | the tree has all that EKB has told of, in whatever order pages arrive |
| client token | `ekb/client.go` `GetTokenContext` | token, expiry, `refreshing`, waiters | get, refresh, wait, wake | one fetch per expiry; no waiter is forgotten |
| client requests and caches | `ekb/client.go` | dimensions and departments with their age, fee types, failure count | any request, look up an id and its parent, walk up the fee types, replace them | a lookup that fails only refuses; an entry is no older than its life; a walk stays in one sync |
| rules engine | `rules/engine.go` | the records of a document | split, pass, commit, refuse, match with the budget | every part of a document is decided; map order decides nothing |
| runtime configuration | `app.go` `reloadRuntimeConfig`, `CreateWebhook`, `SaveRules`; `config/loader.go` | two kinds of files and five maps in memory | reload, create, save, operator edits, restart | the copies agree; nothing saved is lost |
| configuration loading | `config/loader.go` | none | parse, validate, write | invalid rules never run |
| log rotation | `log/logger.go` | the open file, a mutex | write, rotate, fall back | a goroutine that logs goes on |
| sessions and login | `web/auth.go`, `auth_handler.go`, `middleware.go`, `server.go` | tokens, the password, the one that routes have captured | log in, log out, expire, clean up, check | a token is good for as long as it was given for |
| Windows service and tools | `service_windows.go`, `main.go` | the status that the SCM keeps, the process, the goroutine of the application | Execute, install, start, stop, uninstall, the menu | a stop ends the process, unless its log is blocked; what is uninstalled goes away |
| metrics; status, history and rules pages | `metrics/`, `web/handler.go` | counters | | not modelled, see section 6 |

### 1.2 How they interact

* Goroutines: one per web request; the background goroutine of `App.Run` (sync
  loop); the consumer; the scan of the retry bucket; one for each `/api/sync`;
  during a sync, workers for nodes and pages.
* The queue links web requests to the consumer, `RetryBucket.Add` links the
  consumer to the scan. Nothing is persisted: a stop loses all of it.
* The first success of the background goroutine starts consumer and scan.
* A sync installs a whole new store (`Store.Replace`); the consumer reads the
  store's missing targets before and after it takes a task and stops while there
  are any. The rules engine reads the trees when it evaluates.
* Every sync starts with a reload of the configuration, which swaps engines, sign
  keys and targets before the store changes; web requests write the same maps.
* Consumer, retries and syncs share the client, whose token, caches and fee types
  have a lock each.
* The SCM talks to `Execute`, which runs the application in a goroutine and never
  hears of its end; the tools of an operator talk to the SCM.
* Everything logs, through the standard logger's mutex and the rotating logger's.

### 1.3 What is hard

Interleavings of consumer, syncs and web requests on maps without a common lock;
the pause between two checks and the steps after it; callbacks that arrived
though their answer did not; retries that delay one another; a restart at any
step; parallel fetching whose answers come in any order; waiting on a condition
variable; the order in which one lock is taken under another; bounds and
off-by-ones of pages, levels, delays and backoff; tools that act on a status they have
shown before. `PROJECT.json` lists each at
its line under "hazards", with the properties that cover it, or the reason why
none does yet.

## 2. Plan

Written, in this order: `RetryBucket`, `Pipeline` and its contract; `BudgetSync`
with `SyncBackoff`; `RetrySchedule`; `Service`, which composes; then
`LogRotation`, `TokenRefresh`, `RuntimeConfig`, `BudgetTree`, `RuleWorkflow`,
`BudgetMatch`; `EKBClient`, which puts the requests and caches on the token;
`Sessions` and `WindowsService`, which `Host` composes. Proofs of `Pipeline` (types,
pauses, accounts, contract), `BudgetSync`, `TokenRefresh`, `EKBClient`, `Service`,
`Host`, `RuntimeConfig`, of `RetrySchedule`, `BudgetTree` and `RuleWorkflow` with their
loops, and of `BudgetMatch` with its search.

Next, most important first:

1. Proofs. `LogRotation`: who owns which mutex, and that only a rotation closes the
   circle.
2. Models. Several callers of `GetTokenContext` under the clock of `RetrySchedule`, so
  that the wait for a token is one that `TokenRefresh` makes. `Host` around `Service`, with the configuration of `RuntimeConfig` under
   both. The matches of `RuleWorkflow` with the lookups of `EKBClient` in them.
3. `RuleWorkflow` with the match of `BudgetMatch` as its oracle, so that the stores a
   record was decided in are trees.

## 3. The modules

`PROJECT.json` maps every definition to its lines. What a module's variables
stand for is said where they are declared.

| module | models | notes |
|---|---|---|
| `RetryBucket` | `RetryBucket.Add`, `scan`, `retry` | time is abstract: an item becomes ripe, then due. A constant limits the attempts. |
| `Pipeline` | webhook, queue, consumer, retries, crash | extends `RetryBucket`. The consumer goes gate, receive, recheck, evaluate, callback: one step for each place where another goroutine may come between. A callback that fails may have arrived. Missing targets come and go. |
| `ApprovalContract` | what EKB is promised | a task is unseen, pending or has ended, and hears one verdict. `Pipeline` instantiates it with a mapping (`Contract`). |
| `RetrySchedule` | the same bucket with its clock | ticker, delays, callbacks that take time, one after the other; a callback first waits for a token, for a time that the code does not bound, and the requests it then sends have their timeouts. Maps to `RetryBucket`. |
| `Selection` | the loops that append some items of a slice to another | a recursive function, so that it can be proved about; `RetrySchedule`, `BudgetTree` and `RuleWorkflow` extend it. |
| `SyncBackoff` | `nextSyncBackoff` | the doubling loop as a recursive function, and the clamps; `BudgetSync` extends it. |
| `BudgetSync` | `App.Sync`, its callers, `budget.Sync` | the callers of `Sync` stand at the stages of the code; each stage may fail. The platform and the file change at any time. `Named` are the targets that are configured without an ID: the sync builds them if they are listed, and otherwise forgets them, for only an ID can be missing. |
| `Service` | `App` | composes `BudgetSync` and `Pipeline`: `missing` of the pipeline is the store's missing targets, the consumer starts with `StartConsumer`, a restart ends both. Each step is a step of one of the two, or of both, by the way it is written; what is checked of it is what neither can say alone. |
| `LogRotation` | `RotatingLogger` under `log` | two mutexes and their owners. |
| `TokenRefresh` | `GetTokenContext`, `doRefreshToken` | what happens under `tokenMu` is one step; waiting, waking and fetching are others. |
| `EKBClient` | `Get`, `Post`, `SyncFeeTypes`, `GetDimension...`, `FindFeeTypeAncestorInTree` | extends `TokenRefresh`: a caller takes a token before it sends. A cached entry has an age and the kind of lookup that stored it; which departments EKB also answers as projects is a constant; EKB changes parents meanwhile; a walk takes one step per fee type. |
| `RuntimeConfig` | reload, `CreateWebhook`, `SaveRules`, `CallbackApproval`'s two reads, files | each assignment to a shared map is a step, each write of a file two, for `os.WriteFile` truncates first. An edit may change the account at EKB, so that engines and sign keys belong to a client, and may leave a webhook without a sign key, which is routed and cannot be called back. A file that cannot be parsed, after which a reload changes nothing, is in `BudgetSync`. |
| `BudgetTree` | `buildTree`, `fetchNodes`, `indexNode` | workers, pages and failures; pages of `PageSize` rows. An answer may be an error in JSON: the client looks at no status (`client.go:181`), and `fetchNodes` takes an answer without nodes for an empty page. It may have no count, and it may count the queried node as a row. `misled` remembers of which nodes EKB has answered less than it has (`Told` is the contrary). |
| `RuleWorkflow` | `Evaluate`, `runTargetWorkflow` | steps run over all records in turn, and a sync may replace the store between two records; the reference says which records each step looks at (`RecordsAt`), which of them an earlier step has ended (`Ended`), and decides each alone, in a store that there was (`Accepts`). A commit ends a record's checks, as in the code and unlike its documents (`CommittedAreMatched`, section 4.2). |
| `BudgetMatch` | `matchToBudget`, `Find...AncestorInTree` | which node of a layer comes first is a choice, as the iteration over a Go map is, and the nodes of a layer may be about several fields. A tree is its first layer, and `Branches` are the ways down; the reference looks at one branch at a time and does not search. It says which branches a record may be led down, by the field of some node of each layer (`MayLeadDown`), and which it must be, by those of all (`MustLeadDown`); where each layer is about one field, both are the same. A lookup that fails, and the empty table of a client that has not fetched the fee types yet, are `LookupFails`. |
| `Sessions` | `TokenStore`, login, logout, `authMiddleware` | time passes in units of ten minutes, the interval of the cleanup. Some routes read the password when called, others when registered. |
| `WindowsService` | `Execute`, `installService`, `startService`, `stopService`, `uninstallService`, the menu, `main` | the SCM is external: it starts what is stopped and has no process, stops what runs, and removes what is marked once it has stopped. A menu acts on the status that it has shown. A process that has stopped as a service has yet to close the log, for which it needs the lock of the log. |
| `Host` | `App.Run` under `Execute` | composes the two: the tokens come with the application and end with it. |
| `MC...` | | symmetry, and the definitions a `.cfg` cannot write. |
| `...Proofs` | | section 5. |

The definitions whose comment calls them mutants change one definition the way a
bug in the code would. `PROJECT.json` names, for each property of each passing
run, one that breaks it.

## 4. The runs

`CHECK_DEADLOCK FALSE` stands only where the program may really be done: no
request is left to come (`Pipeline`, `ServiceLiveness`), a build or an
evaluation has ended (`BudgetTree`, `RuleWorkflow`, `BudgetMatch`), or every
goroutine is blocked (`LogDeadlock`, where that is what is shown).

### 4.1 Runs that pass

| cfg | shows | bounds, and why they are enough |
|---|---|---|
| `Pipeline` | no request is duplicated, lost without account, or told two verdicts; four calls at most; the history tells what EKB heard; a pause costs one task; nothing follows an end; every accepted request ends; `Pipeline` implements `ApprovalContract` | the code's three retries, two tasks for a queue of one: one fills the queue while the other is in hand or in the bucket. Two pauses and a crash meet at every step. The proofs lift the bounds of all but `Settles`. |
| `RetrySchedule` | a task is not given up before an outage of 14 minutes is over; each attempt is over at most a wait for the tick and one callback of every held task after its own delay, waits for a token not counted; the schedule implements the bucket | the code's delays, ticker and timeouts in units of 15 s; two tasks, the one delaying the other; a callback waits for a token for up to two units (`MaxTokenWait`), where the code has no limit. `TimeProofs` lifts the bounds. |
| `BudgetSync` | one sync at a time; the store is whole; rules, fee types and store agree unless a sync has failed; the backoff is the table of its comment | two packages, so that a store can be half built, one of them configured by its name only; one request beside the background goroutine. `MaxFails` only caps a counter. The table is the assumption `WaitAsCommented` of `MCBudgetSync`, for up to 12 failures and every interval up to 70 minutes: beyond them the value is constant. |
| `Service` | nothing is consumed before this process has synced; a document that is checked while no sync runs, the last one not having failed, is checked by the rules, the trees, the missing targets and the fee types of one sync | one task, one package, one manual request, a restart, an edit; `MaxEpisodes` is chosen so that it never stops a sync (`ServiceAssumption`). `ServiceProofs` lifts the bounds. |
| `ServiceLiveness` | the sync flag is always reset; a repaired configuration reaches the store; in a calm world every accepted request ends | two changes of file or platform: targets go missing and come back. Syncs fail at any stage until the world is calm. There is no manual request, and one task for a queue of one: a sync that is turned away and a queue that is full belong to `BudgetSync`, `Service` and `Pipeline`. |
| `RuntimeConfig` | if reload, requests, edits and restarts have not overlapped, all copies agree; a callback that no reload overtakes goes to the account of its sign key; whatever has overlapped, the next reload brings memory in line with the files | one webhook, with or without a sign key, one request at a time, one edit, with every interleaving of their single assignments. |
| `EKBClient` | one fetch per expiry, no lost wake-up, no unexplained error; every request returns once no new ones begin; an entry that is used is no older than its life behind EKB, and was made by an answer of EKB to a lookup of its kind; a walk up the fee types stays in one sync | the consumer, the retries and a sync, which is a refresher and two waiters; one department, which is looked up as a project as well, and which EKB does not find as one (`AnsweredAsProject`; the proof does without that bound); two units of life; two hierarchies in which the same fee type has other parents. The proofs lift the bounds of all but `RequestsReturn`. |
| `BudgetTree` | a build that succeeds has left out nothing that EKB has told of, and has put nothing in another place; it counts each leaf once; every build ends without the sync's timeout | pages of two rows, which count the queried node or do not; errors read as empty pages, missing counts and failures of any page; budgets with two pages, three pages with a last short one, nodes with two contents, an empty budget; every number of workers that four configured values and the client's failures lead to. `TreeProofs` lifts the bounds of all but `BuildEnds`. |
| `RuleWorkflow` | the steps over all records decide as each record alone, a commit being the end of a record's checks; every part stays covered by one record | all files of one target with up to three of eight steps, some of two targets, 64 documents with up to two details, two stores that syncs exchange. Three steps suffice for a record that is passed or committed before a split and checked after it. `RulesProofs` lifts the bounds. |
| `BudgetMatch` | a record matches only down a branch that fields of its layers lead it to the bottom of; a record that the fields of all nodes lead to the bottom of some branch is refused only if a lookup failed or the client had no fee types | every dimension type, up to two layers, layers about two fields, values along a line of six ancestors, one more than the search follows, and a second line that joins it. `RulesProofs` lifts the bounds. |
| `Host` | a token is good exactly from its login to its logout or its two hours, in one process; a stop ends the process, whether the application serves, has failed or hangs, unless the log is blocked, and the SCM is told of the stop even then; what is marked for deletion and has been stopped is removed | two tools, so that one acts on a status that the other has changed; one browser and two tokens, of which one outlives the other; a life of two units, with the expiry between two cleanups. `TimeProofs` lifts the bounds of the first. |

The type invariants of the modules that have proofs are proved (`TypeOK`, `TreeTypeOK`,
`WorkflowTypeOK`, `MatchTypeOK`) or part of an inductive invariant (`SyncTyped`,
`TokenTypeOK`, `CacheTypeOK`, `SessionInv`). Those of the others hold in the runs (add
`INVARIANT XTypeOK` to the cfg), and say what the variables range over.

### 4.2 Where the code disagrees with what is said of it

`LogDeadlock` is a run that TLC finds violated: `rotate` calls `log.SetOutput` under
the standard logger's mutex, so that the first rotation while the service runs
blocks every goroutine that logs, whatever the scheduler does (`LoggingEnds`). It holds
`RotatingLogger.mu` for good, which `main` needs to close the log (`main.go:39`,
`logger.go:148`): a service that is then stopped reports that it has stopped, and its
process stays. `StopEnds` makes that exception, and no other.

The other disagreements met while modelling are stated in the modules, each with
the line it quotes. They are not runs of their own; adding the definition to the
cfg named here, and leaving out the passing properties, gives the behaviour.

| definition | add to | what happens |
|---|---|---|
| `PausedTasksAreKept` | `Pipeline` | During a pause the consumer has taken a task and a webhook fills the queue: the requeue fails, and the task is dropped with a log line (`app.go:368`), though its request was answered "已入队等待处理". `PauseBound` says how many. |
| `ConsumesAfterFirstSync` | `BudgetSync`, without `SYMMETRY` | A manual sync turns the background goroutine away; that sync succeeds, but consuming starts a whole interval later, after the loop's own next sync (`app.go:340`, `docs/API.md:82`). |
| `FailedSyncKeepsCache` | `BudgetSync` | A sync that fails after the reload leaves new rules with old trees (`app.go:182`, `app.go:388`). `AgreeUnlessFailing` says when they agree. |
| `WrongTargetIsAnswered` | `ServiceLiveness` | A package ID the platform does not list stops consumption for all webhooks, where `docs/Webhook配置指南.md:190` promises an answer. |
| `CreatedWebhookSurvives` | `RuntimeConfig` | A reload swaps the configuration while a webhook is created: it is answered with ok and not persisted (`app.go:253`, `app.go:294`). |
| `EditsSurvive` | `RuntimeConfig` | Creating a webhook overwrites an operator's edit that has not been loaded yet (`loader.go:98`). |
| `SavedRulesAreEnforced` | `RuntimeConfig` | Saved rules are replaced in memory by a reload that had read the old file (`app.go:328`). |
| `SavesWaitForRestart` | `RuntimeConfig`, as a property | Saved rules are in force at once, where the page says after a restart (`app.js:350`). |
| `BuildsWholeTree` | `BudgetTree` | A build succeeds with children missing, where `sync.go:29` says "同步必须完整成功，避免审批消费使用半成品预算树". An error of EKB that is JSON is an empty page without an error, for the first page and for later ones (`client.go:181`, `sync.go:355`, `sync.go:424`); a full first page without a count is taken for the only one (`sync.go:372`); and if EKB pages as `docs/ekuaibao-api-notes.md:46` says, the node itself being one of the rows, a full first page has 99 children and is taken for the only one, too (`sync.go:364`). `CompleteTree` says what holds nevertheless, and `ToldTreeIsWhole` (section 5) under which condition the tree is whole. |
| `BranchesGoDown` | `BudgetTree` | Of a node with two contents only the first has children in the tree (`sync.go:202`, `README.md:136`). |
| `VerdictIgnoresMapOrder`, `PassesByOwnFields` | `BudgetMatch` | In a layer about two fields the first node of the iteration over a map says which field is read (`engine.go:304`, `sync.go:516`): a record is refused that the matched nodes' own fields lead to the bottom, and one passes that only the field of another node of the layer leads there (`README.md:134`). |
| `CommittedAreMatched` | `RuleWorkflow` | A record that is committed is matched by no step after it (`engine.go:107`). `README.md:115` and `README.md:178` say of commit "跳过后续步骤，直接进入最终匹配", and `docs/工作流语法-人类版.md:12` that each record that remains has to match the budget; so a document is accepted whose committed record no budget has. `docs/工作流语法-人类版.md:163` describes what the code does. |
| `OneStoreAccepts` | `RuleWorkflow` | The store is read anew for each record: a document whose records are checked before and after a sync is accepted, though neither store accepts it (`engine.go:282`). `VerdictOfEachRecord` says what does hold. |
| `OutageIsCounted` | `EKBClient`, as a property | A request that gets no token is not counted, so that the workers are not reduced while EKB refuses tokens (`client.go`, `Get`). |
| `EmptyPasswordOpens` | `Host` | After a reload to an empty password the API keeps asking for a login, which `handleLogin` now refuses (`config.example.yaml:44`, `server.go:61`). |
| `RunningMeansServing` | `Host` | `Init` or `Run` has failed, and the service stays running (`service_windows.go:87`). |
| `ReinstallReplaces` | `Host`, as a property | The menu offers to install where the status is one that it does not know; `installService` refuses, as the service exists. |
| `FifthAncestorIsFound` | `BudgetMatch` | Of "five levels" the first is the value itself: four ancestors are searched (`client.go:283`, `docs/ekuaibao-api-notes.md:79`). |

More are seen in the models, or in the code beside them, without a property. A
configuration that cannot be loaded fails a sync before `SyncFails` is counted (`ReloadFails` leaves `fails` as it
is, `app.go:212`), so there is no backoff, though `app.go:46` calls it the number of
consecutive failures. Of the list of budgets only the first 100 are read
(`sync.go:300`): a configured budget beyond them counts as missing. A configuration
without webhooks loads with a nil map (`app.go:294`): creating the first webhook then
panics after its rule file is written.
A document whose details are all malformed has no record left after `split_detail`, which
leaves out what is no object (`engine.go:195`), and is accepted; `NothingSlipsThrough`
speaks of the well-formed parts. A webhook without a sign key is routed
(`server.go:108`), and each of its tasks is retried until it is given up.
A service that has ended abnormally stays stopped (`Crash`), as `installService` sets no
recovery actions, where `docs/Windows部署指南.md:13` has Windows restart it.

### 4.3 Fairness

* `Pipeline`: weak fairness of the consumer as a whole, of the retry goroutine,
  and of the time of each item. Goroutines that can run are run, HTTP calls end
  by their timeouts, delays run out. Webhooks, pauses, and what a call answers are
  not assumed to happen; `Settles` assumes that the pauses end.
* `BudgetSync`: weak fairness of each caller's step and of the loop, which
  sleeps and wakes. Success is never assumed; `Converges` assumes it.
* `Service`: both of these. `RequestsEnd` speaks of a calm world: no more changes,
  restarts or failing stages of a sync. Callbacks may fail for ever in it.
* `EKBClient`: weak fairness of each request that has begun: the HTTP client's
  timeout ends it, and a goroutine that is woken gets the lock. The code has a
  starvation that only new requests make possible (a woken waiter may find the token
  expired and somebody else refreshing), so that `RequestsReturn` assumes that
  requests end beginning.
* `Host`: weak fairness of `Execute`'s answer to a request, of the report that the
  service has stopped, of the end of a process that can close its log, of the SCM's removal, and of an uninstall that has
  begun. Nothing is assumed of the operator, of logins, crashes and boots.
  `UninstallRemoves` assumes that no further uninstall begins, since each holds a
  handle for two seconds.
* `RuntimeConfig`: weak fairness of the reload and of each request. A reload
  comes with each periodic sync.
* `BudgetTree`: weak fairness of each node's requests and of merging.
* `LogRotation`: strong fairness of each goroutine, since Go's mutex hands itself
  to a waiter after a millisecond of starvation. That makes the deadlock worth
  something: no scheduling helps.

## 5. What is proved

TLAPS checks these for every value of the constants that meets the modules'
`ASSUME`s: any sets of tasks, verdicts, packages, requests, callers, ids, webhooks, browsers and
tokens, any documents, rules and trees, any queue size, retry limit, delays and life, any number of pauses and crashes.

**`PipelineProofs`**: `TypeCorrect` (`TypeOK`) and `PauseIsBounded`. `TypeOK` is not
inductive: that the hand holds a task between receive and callback, and a verdict
in the callback, is `HandInv`. A pause is bounded because there is one consumer:
`PauseInv` counts the tasks that strayed or were lost against the episodes, with
room for the one that has just passed the first check.

`TasksAreAccountedFor` is inductive with the types: each task
that was answered 200 is in exactly one of queue, hand, bucket and batch, or has
ended in exactly one way. One step per action says where its task goes. The other
theorems need `ToldInv`, which says of each place what its task implies: how
many calls were made, that what EKB has received is the verdict in hand or in the
item, and what the history may hold. `FullInv` is the conjunction; from it follow
`CallsAreBudgeted`, `PlatformHearsOneVerdict`, `HistoryIsTruthful` and the action
property `EndsAreFinal`.

`PipelineMeetsContract` is the refinement. The stage of a task
follows from its end and its acceptance. Each step maps to a step of the contract
for one task or changes nothing there; the lemmas separate the two cases.

**`ServiceProofs`**. Of `BudgetSync`: `SyncsExclude` needs that the flag is set exactly while some
caller is inside, that there is one, and that the background goroutine is inside
exactly when its loop says so (`EntryInv`). On it rests `StoreInv`: the draft of the
caller inside splits the configured targets into built, missing and still to do;
the store accounts for the targets of the sync that wrote it; rules, fee types and
store agree while nobody is inside and nothing has failed. From it follow
`StoreIsNeverPartial`, `ConsumerHasData` and `RulesAgreeWithStore`. These proofs do
not look into `NextSyncBackoff`, whose type they do not need (`SyncTyped`).

Of `Service`: what is proved of `BudgetSync` is true of it in the service, since a step of
the service is one of `BudgetSync` or leaves it alone (the lemma `ServiceSyncs`, which
holds by the way the service is composed). `ServiceConsumesOnlyData` takes `ConsumerHasData`
from there and adds that the pipeline stands still while the consumer is off
(`StandsStill`). `ServiceChecksItsTargets` joins it with `StoreIsNeverPartial` and
`RulesAgreeWithStore`: whoever evaluates is consuming, so there has been a sync, and if
it was the last and none runs, its store accounts for the targets of the rules in force.

**`EKBProofs`**: `FetchedOnce`, `WaitersAreWoken`, `NoErrorWithoutFailure`. The flag
alone does not say that there is one refresher: `TokenInv` ties it to a call that is
asking or answered, and says why a call that is about to report an error may.

`ClientKeepsTokenProtocol` says that each step of the client is one of
`TokenRefresh` or leaves the token alone; so `FetchedOnce` and its lemmas hold of the
client (`ClientFetchesOnce`). `CacheIsFresh` needs that an entry is behind EKB for no
longer than it is old; `CacheHoldsAnswers`, that what a lookup did not find is not stored.
It holds also if EKB answers departments as projects; what the entry is then worth for
the next half hour is not known to the code. `WalkSeesOneSync` needs that a walk's last step is in the fee types
that are there now, which the lock sees to.

**`RuntimeProofs`**: `CopiesAgree` and `ApprovalsArePaired`. Each reload and request goes
over the maps one assignment at a time, so that `AgreementInv` says, of a reload that
has been alone so far, which copies it has already replaced and by what it read
(`ReloadSoFar`); of what is not yet replaced, that it agrees with what was there
before (`AgreesSoFar`); and that nothing else moves while `clean` holds (`Alone`).
`PairedUnlessSwapped` speaks of overlapping as well and so needs less.

**`SelectionProofs`**: what the loop `Picked` computes, for a slice of any length: the
items that are wanted, all of them, once, in their order, and none further back
than it was (`PickedPlaces`). The library's induction theorems take a predicate as a
parameter, which the provers cannot instantiate; `SetInduction` takes a set instead,
and follows from the least element that a set of naturals has. `LoopHasValues` says
that a loop of N rounds has values, without which a recursive function is a `CHOOSE`.
`PickedItems`, `Joining` and `Flattening` say the same of nested loops: which items
`FlattenSeq` and a selection from it have, and that distinct items stay so.

**`TimeProofs`**. Of `RetrySchedule`: `OutageIsRiddenOut`, `NoRetryIsLate` and `ScheduleImplementsBucket`,
for any delays, period of the ticker, duration of the callbacks and number of tasks.
An item is due no earlier than its delays allow if its age and what remains of its delay
add up to them (`NotEarly`). `NoRetryIsLate` is about each attempt: the time since an
item was put into the bucket, callbacks' waits for a token left out (`waited`), against the delay
of its attempt. That it is late by a bounded time only needs the list
of what comes before it: the callbacks of the batch, the wait for the ticker, the
callbacks of the items in front of it in the slice (`NotLate`). As a scan takes items out
in their order, nobody overtakes; as each task is one item (`Placed`), the list is no longer
than the number of tasks (`TasksSuffice`); a unit of time shortens it by one. The
refinement needs the distinct tasks too: what `RetryBucket` sees has no times, and two
items that differ in them only would be one there.

Of `Host`: `SessionsLastAsGiven`. What the store says of a token is not always its
age, since the cleanup forgets it; `SessionInv` says that it does so only after the
token has expired.

**`TreeProofs`**: `TreeIsComplete`, `LeavesCountOnce`, `IndexFindsEveryCode`, `ToldTreeIsWhole`
and the types (`TreeTypesCorrect`), whatever EKB answers. What `fetchNodes` has of a node are rows of
children, of each child all or none (`WholeRows`), and, if EKB has told of all, those of the
pages that it no longer waits for (`FetchInv`); the pages are then all children (`AllPages`), which is where
the count of pages and the size of a page meet. A node is settled once its task has been
merged: below it are then children of its own only, and, if EKB has told of them, all of them, which
are leaves or have a task of their own (`ShapeInv`). When no task is left, every drilled
node is settled (`AllSettled`). `ToldTreeIsWhole` adds that, if EKB has told of all it was
asked for, the children of settled nodes are closed under being below, and so are all that is
below the top: `TreeAssumption` says that a budget has nothing else. Whether EKB has told of
everything is not the code's to know; section 4.2 says when it has not.
The loops are `Picked` and `FlattenSeq`, by the lemmas of
`SelectionProofs`, for slices of any length.

**`RulesProofs`**. Of `RuleWorkflow`: `EachRecordAlone`, `NoPartSlipsThrough` and
`WorkflowTypesCorrect`, for every document, valid file of rules, and sequence of stores.
The code keeps a slice of units, which splits lengthen and passes shorten; the
reference has no slice. `WorkflowInv` ties the two (`UnitsRight`): a unit that is not
committed is a record that the step looks at and that no earlier step has ended; a
record that no step has ended is a unit, unless this step has just dropped it; and what
the steps have looked at so far is not refused with all that was budgeted in one store
or another (`NotRefused`). That needs no store to be the current one, so a sync between
two records keeps it. As long as no target has refused, those that are done accept every
record in this sense; once one has, some target refuses with what was budgeted in all
of the stores (`TargetsSaid`).
That parts stay covered is an invariant of labels: none of two units' labels
begins with the other's (`Apart`), and every part's label begins with that of some
unit, or of one that has passed (`Covered`). A split replaces a label by its
continuations, all of them, and so keeps both.

Of `BudgetMatch`: `MatchesAreInBudget`, `RefusedAreNotInBudget` and `MatchTypesCorrect`,
for every tree, hierarchy of codes, number of levels and record. `MatchInv` says that the
path is a branch as far as it has come, each of whose nodes the field of some node of its
layer leads to (`Led`), and that every branch which the fields of all nodes lead to the
bottom begins with it. That is where those branches have no choice: the field of the node
that comes first is one of all, it leads to at most one node of a layer (`LeadsOnce`), since of two nodes
above a value one comes into sight first; and where the search finds none, no node
leads on (`NothingLeads`). Layers may be about several fields; nothing is assumed of them. `AncestorRounds` says that the search's recursion has a
solution, which goes up one parent a round.

Only model-checked: liveness (`Settles`, `SyncingEnds`, `Converges`, `RequestsEnd`,
`RequestsReturn`, `BuildEnds`, `ReloadRepairs`, `StopEnds`, `UninstallRemoves`), which the
prover cannot do, as it knows no `ENABLED`; the table of `SyncBackoff`, whose numbers are
the code's; the safety of `LogRotation`, whose run looks for a deadlock.

## 6. What is not modelled

* Metrics: counters that nothing reads. The status and history pages: they read.
* Parsing and validation of YAML and JSON, and where files are found. Reading the
  budget store from the page, and the operations of the store that nothing calls
  (`AddTree`, `Clear`, `FindTree`).
* The console mode and `-sync` of `main`: they run the same `App`, without the SCM.
* That the process is killed is `Crash`, in `Pipeline`, `Service` and
  `WindowsService` alike; the three are not composed further.
* A callback's request, its arrival at EKB, its answer and the entry in the history are one
  step of `Pipeline`: an approval that is under way when the process ends, or that arrives
  after its timeout, is one that has arrived, or has not, at that step.
* EKB itself: it may answer anything, late, or not at all, and may have acted on
  a call whose answer was lost. That a document is sent twice makes two tasks;
  nothing in the code relates them.
* The text of messages, logs, expressions and JSON. An expression is given by the
  values for which it holds or fails.
* A token that EKB has revoked: EKB's answers to other requests are data that the
  client does not look at. The limit of 50 history entries: the model's history is
  unbounded, so that `TruthfulHistory` can speak of all entries. An operator's edit
  that `SaveConfig` overwrites is stated (`EditsSurvive`), and broken by the code.
