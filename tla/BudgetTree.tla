----------------------------- MODULE BudgetTree -----------------------------
(***************************************************************************)
(* Building one budget's tree during a sync (src/src/budget/sync.go,       *)
(* buildTree and fetchNodes; Store.indexNode of store.go): layer after     *)
(* layer, several nodes of a layer at a time, each node's children page by *)
(* page, several pages at a time. Pages and nodes are answered in any      *)
(* order. What EKB answers may be an error in JSON: the client looks at no *)
(* status (client.go:181), and fetchNodes takes an answer without nodes    *)
(* for a page without children.                                            *)
(*                                                                         *)
(* The budget at EKB is given by kids, the children of every node in the   *)
(* order in which the query returns them, and codes, the dimension codes   *)
(* of a node's content. A row of the program (rawNode), and the *Node made *)
(* of it, is <<n, i>>: the i-th content of node n.                         *)
(***************************************************************************)
EXTENDS Integers, FiniteSets, SequencesExt, Selection

CONSTANTS
    Nodes,       \* node ids
    Top,         \* the budget itself: the query without a node id
    Codes,       \* dimension codes
    Budgets,     \* the budgets that EKB may hold
    PageSize,    \* pageSize, 100 in the code
    SelfInPages, \* whether EKB may count the queried node itself in a page
    Configured,  \* what config.yaml may say of sync.workers
    Fails,       \* how often EKB may have failed in a row when the sync begins
    None         \* no node

Parents == Nodes \cup {Top}

ASSUME TreeAssumption ==
    /\ Top \notin Nodes
    /\ PageSize \in Nat \ {0}
    /\ SelfInPages \subseteq BOOLEAN
    /\ IsFiniteSet(Nodes)
    /\ Configured \subseteq Int
    /\ Fails \subseteq Nat
    /\ \A b \in Budgets :
        /\ b.kids \in [Parents -> Seq(Nodes)]
        /\ b.codes \in [Nodes -> Seq(Codes) \ {<<>>}]
        \* Whatever is below some node is below the top.
        /\ \A S \in SUBSET Nodes :
            (\A n \in S \cup {Top} : ToSet(b.kids[n]) \subseteq S) =>
                \A n \in Parents : ToSet(b.kids[n]) \subseteq S

VARIABLES
    budget,     \* the budget at EKB
    selfInPage, \* does a page of PageSize rows count the queried node itself?
    misled,     \* history: nodes that EKB has answered about without saying so much
    workers,    \* cfg.Workers
    result,     \* of buildTree: "none" until it returns
    \* buildTree: the layer's drillTasks, those it has read the result of, and
    \* the tasks for the next layer. A task is the row whose node is drilled.
    tasks, merged, nextDrills,
    drilled,    \* drilled
    \* fetchNodes, for each node: where it is, what it has, pages it waits for.
    fetch, rows, wanted,
    \* The tree and the Store under construction.
    children, index, leavesSeen

loopVars == <<result, tasks, merged, nextDrills, drilled>>
fetchVars == <<fetch, rows, wanted>>
storeVars == <<children, index, leavesSeen>>
ekbVars == <<budget, selfInPage, misled>>
treeVars == <<ekbVars, workers, loopVars, fetchVars, storeVars>>

Contents(n) == {<<n, i>> : i \in DOMAIN budget.codes[n]}
InBudget == UNION {ToSet(budget.kids[n]) : n \in Parents}
Objects == UNION {Contents(n) : n \in InBudget}
TopRow == <<Top, 1>>
Code(o) == budget.codes[o[1]][o[2]]
IsLeaf(n) == budget.kids[n] = <<>>

TreeTypeOK ==
    /\ selfInPage \in BOOLEAN
    /\ misled \subseteq Parents
    /\ result \in {"none", "ok", "error"}
    /\ ToSet(tasks) \cup ToSet(nextDrills) \subseteq Objects \cup {TopRow}
    /\ merged \subseteq ToSet(tasks)
    /\ drilled \subseteq Nodes
    /\ fetch \in [Parents -> {"idle", "first", "later", "done", "failed"}]
    /\ \A n \in Parents : ToSet(rows[n]) \subseteq Objects /\ wanted[n] \subseteq Nat
    /\ children \in [Objects \cup {TopRow} -> [Codes -> Objects \cup {None}]]
    /\ index \in [Codes -> Objects \cup {None}]
    /\ leavesSeen \subseteq Nodes

-----------------------------------------------------------------------------
\* Mutant of Parallelism: half of one worker.
ParallelismHalved(configured, fails) ==
    LET given == IF configured <= 0 THEN 10 ELSE configured
    IN  IF fails > 5 THEN 1 ELSE IF fails > 2 THEN given \div 2 ELSE given

\* Sync: how many requests run at a time when EKB has failed so often in a row.
Parallelism(configured, fails) ==
    LET given == IF configured <= 0 THEN 10 ELSE configured
    IN  IF fails > 5 THEN 1
        ELSE IF fails > 2 THEN IF given \div 2 < 1 THEN 1 ELSE given \div 2
        ELSE given

\* The children that EKB returns with one page, after the queried node itself.
Page(n, start) ==
    LET end == start + (IF selfInPage THEN PageSize - 1 ELSE PageSize)
    IN  SubSeq(budget.kids[n], start + 1, Min({end, Len(budget.kids[n])}))

\* parseRawNodes: a row for every content of every node.
ParseRawNodes(ns) ==
    FlattenSeq([k \in DOMAIN ns |-> [i \in DOMAIN budget.codes[ns[k]] |-> <<ns[k], i>>]])

TreeInit ==
    /\ budget \in Budgets
    /\ selfInPage \in SelfInPages
    /\ misled = {}
    /\ \E configured \in Configured, fails \in Fails :
        workers = Parallelism(configured, fails)
    /\ result = "none"
    /\ tasks = <<TopRow>> /\ merged = {} /\ nextDrills = <<>>
    /\ drilled = {}
    /\ fetch = [n \in Parents |-> IF n = Top THEN "first" ELSE "idle"]
    /\ rows = [n \in Parents |-> <<>>]
    /\ wanted = [n \in Parents |-> {}]
    /\ children = [o \in Objects \cup {TopRow} |-> [c \in Codes |-> None]]
    /\ index = [c \in Codes |-> None]
    /\ leavesSeen = {}

-----------------------------------------------------------------------------
(* fetchNodes                                                               *)

Answered(n) == fetch[n] \in {"done", "failed"}
Unanswered == {t \in ToSet(tasks) : ~Answered(t[1])}

\* The goroutine of the k-th task has got its place in the semaphore: fewer than
\* workers of those before it are running. The top is queried without one.
Launched(k) ==
    tasks[k] = TopRow \/ Cardinality({j \in 1 .. k - 1 : tasks[j] \in Unanswered}) < workers
Runs(n) == result = "none" /\ \E k \in DOMAIN tasks : tasks[k][1] = n /\ Launched(k)

\* Mutant of LaterPages: a last page that is not full is left out.
LaterPagesFloor(n) == 1 .. (Len(budget.kids[n]) \div PageSize) - 1

\* The pages after the first, from the count of the answer, which counts n too.
LaterPages(n) == 1 .. ((Len(budget.kids[n]) + PageSize - 1) \div PageSize) - 1

\* A first page that is not full is the only one, and so is one without a count.
PagesAfter(n, page, counted) ==
    IF Len(page) < PageSize \/ ~counted THEN {} ELSE LaterPages(n)

\* What EKB may answer instead of a page: an error is read as no children.
Answers(page) == {page, <<>>}

FirstPage(n) ==
    /\ Runs(n)
    /\ fetch[n] = "first"
    /\ \E page \in Answers(Page(n, 0)), counted \in BOOLEAN :
        LET more == PagesAfter(n, page, counted)
        IN  /\ rows' = [rows EXCEPT ![n] = ParseRawNodes(page)]
            /\ wanted' = [wanted EXCEPT ![n] = more]
            /\ fetch' = [fetch EXCEPT ![n] = IF more = {} THEN "done" ELSE "later"]
            /\ misled' = IF page = Page(n, 0) /\ more = PagesAfter(n, page, TRUE)
                         THEN misled ELSE misled \cup {n}
    /\ UNCHANGED <<budget, selfInPage, workers, loopVars, storeVars>>

\* Page p is read, after those that were answered before it.
LaterPage(n, p) ==
    /\ Runs(n)
    /\ fetch[n] = "later"
    /\ p \in wanted[n]
    /\ Cardinality({q \in wanted[n] : q < p}) < workers
    /\ \E page \in Answers(Page(n, p * PageSize)) :
        /\ rows' = [rows EXCEPT ![n] = @ \o ParseRawNodes(page)]
        /\ misled' = IF page = Page(n, p * PageSize) THEN misled ELSE misled \cup {n}
    /\ wanted' = [wanted EXCEPT ![n] = @ \ {p}]
    /\ fetch' = [fetch EXCEPT ![n] = IF wanted[n] = {p} THEN "done" ELSE "later"]
    /\ UNCHANGED <<budget, selfInPage, workers, loopVars, storeVars>>

\* A request gets no answer or one that is no JSON, or a row lacks a field: so
\* does fetchNodes fail.
PageFails(n) ==
    /\ Runs(n)
    /\ fetch[n] \in {"first", "later"}
    /\ fetch' = [fetch EXCEPT ![n] = "failed"]
    /\ wanted' = [wanted EXCEPT ![n] = {}]
    /\ UNCHANGED <<ekbVars, workers, loopVars, rows, storeVars>>

-----------------------------------------------------------------------------
(* buildTree                                                                *)

\* A map written row by row: the last row with a code stays.
WrittenTo(map, rs) ==
    [c \in Codes |->
        LET written == {i \in DOMAIN rs : Code(rs[i]) = c}
        IN  IF written = {} THEN map[c] ELSE rs[Max(written)]]

\* The rows that get a task of their own: a node is drilled once, for the
\* first of its rows.
ToDrill(rs) ==
    Picked(rs, {o \in Objects :
                  /\ ~IsLeaf(o[1])
                  /\ o[1] \notin drilled
                  /\ \A i \in DOMAIN budget.codes[o[1]] : <<o[1], i>> \in ToSet(rs) => o[2] <= i})

\* Mutant of CountLeaves: a leaf is counted for each of its contents.
CountLeavesByCode(rs) == leavesSeen \cup {o \in ToSet(rs) : IsLeaf(o[1])}

\* treeNodeSeen and treeCount of indexNode.
CountLeaves(rs) == leavesSeen \cup {o[1] : o \in {r \in ToSet(rs) : IsLeaf(r[1])}}

\* The rows of a task become nodes, below the row the task was made for. The
\* last result of a layer begins the next one, or ends the build.
Merge(t) ==
    /\ result = "none"
    /\ Cardinality(Unanswered) <= workers
    /\ t \in ToSet(tasks) \ merged
    /\ fetch[t[1]] = "done"
    /\ LET rs == rows[t[1]]
           drills == nextDrills \o ToDrill(rs)
       IN  /\ children' = [children EXCEPT ![t] = WrittenTo(@, rs)]
           /\ index' = WrittenTo(index, rs)
           /\ leavesSeen' = CountLeaves(rs)
           /\ drilled' = drilled \cup {o[1] : o \in ToSet(ToDrill(rs))}
           /\ IF merged \cup {t} # ToSet(tasks)
              THEN /\ merged' = merged \cup {t}
                   /\ nextDrills' = drills
                   /\ UNCHANGED <<tasks, fetch, result>>
              ELSE /\ tasks' = drills
                   /\ merged' = {}
                   /\ nextDrills' = <<>>
                   /\ fetch' = [n \in Parents |->
                        IF \E o \in ToSet(drills) : o[1] = n THEN "first" ELSE fetch[n]]
                   /\ result' = IF t = TopRow /\ rs = <<>> THEN "error"
                                ELSE IF drills = <<>> THEN "ok" ELSE "none"
    /\ UNCHANGED <<ekbVars, workers, rows, wanted>>

\* One failed task fails the build.
MergeFails(t) ==
    /\ result = "none"
    /\ Cardinality(Unanswered) <= workers
    /\ t \in ToSet(tasks) \ merged
    /\ fetch[t[1]] = "failed"
    /\ result' = "error"
    /\ UNCHANGED <<ekbVars, workers, tasks, merged, nextDrills, drilled, fetchVars, storeVars>>

\* The sync's context ends, wherever the build is.
ContextEnds ==
    /\ result = "none"
    /\ result' = "error"
    /\ UNCHANGED <<ekbVars, workers, tasks, merged, nextDrills, drilled, fetchVars, storeVars>>

-----------------------------------------------------------------------------
Request(n) ==
    \/ FirstPage(n)
    \/ \E p \in wanted[n] : LaterPage(n, p)
    \/ PageFails(n)
MergeAny == \E t \in ToSet(tasks) : Merge(t) \/ MergeFails(t)

TreeNext ==
    \/ \E n \in Parents : Request(n)
    \/ MergeAny
    \/ ContextEnds

TreeSpec == TreeInit /\ [][TreeNext]_treeVars

\* Every request ends, at the latest by the HTTP client's timeout; the context
\* need not.
TreeFairSpec ==
    /\ TreeSpec
    /\ \A n \in Parents : WF_treeVars(Request(n))
    /\ WF_treeVars(MergeAny)

-----------------------------------------------------------------------------
\* What the tree of the budget should be, row by row.
ExpectedChildren(o) ==
    LET n == o[1]
        below == UNION {Contents(k) : k \in ToSet(budget.kids[n])}
    IN  [c \in Codes |->
            IF \E r \in below : Code(r) = c THEN {r \in below : Code(r) = c} ELSE {None}]

\* EKB has told of all children of n: with every page it has answered, and, if it
\* counts n itself, with the one page that the code then asks for.
Told(n) == n \notin misled /\ (selfInPage => Len(budget.kids[n]) < PageSize)

\* A build that succeeds has left out nothing that EKB has told of, whatever was
\* answered in which order and whatever failed: below the row that a node was
\* drilled for are its children, one of each code, and all those that have
\* children are drilled in turn. Of a node that EKB has not told all about, some may
\* be missing, and none are in another's place.
CompleteTree ==
    result = "ok" =>
        \A n \in drilled \cup {Top} :
            /\ \A c \in Codes :
                children[<<n, 1>>][c] \in ExpectedChildren(<<n, 1>>)[c] \cup {None}
            /\ Told(n) =>
                /\ \A c \in Codes : children[<<n, 1>>][c] \in ExpectedChildren(<<n, 1>>)[c]
                /\ \A k \in ToSet(budget.kids[n]) : IsLeaf(k) \/ k \in drilled

\* The global index knows a node for every code that EKB has told of, and one that
\* has that code, whichever branch was merged last (store.go:42).
IndexCoversTree ==
    result = "ok" =>
        \A c \in Codes :
            /\ index[c] \in {o \in Objects : Code(o) = c} \cup {None}
            /\ \A n \in drilled \cup {Top} :
                Told(n) /\ ExpectedChildren(<<n, 1>>)[c] # {None}
                    => index[c] \in {o \in Objects : Code(o) = c}

Leaves == {n \in InBudget : IsLeaf(n)}

\* treeCount counts leaves of the budget, each once, however many contents it has
\* and in whatever order it came, and all that EKB has told of (store.go:84).
CountsEachLeafOnce ==
    result = "ok" =>
        LET told == UNION {ToSet(budget.kids[n]) : n \in {m \in drilled \cup {Top} : Told(m)}}
        IN  /\ Cardinality(told \cap Leaves) <= Cardinality(leavesSeen)
            /\ Cardinality(leavesSeen) <= Cardinality(Leaves)

\* Every build ends, with any number of workers the configuration leads to, and
\* does not need the sync's timeout to: no task is left without a worker.
BuildEnds == <>(result # "none")

\* sync.go:29: a sync succeeds completely, so that no approval uses a half-finished
\* tree. Broken by an answer that is an error in JSON (client.go:181, sync.go:355 and
\* sync.go:424), by a full page without a count (sync.go:372), and by pages that
\* count the queried node (docs/ekuaibao-api-notes.md:46).
BuildsWholeTree ==
    result = "ok" =>
        \A n \in InBudget \cup {Top}, c \in Codes :
            children[<<n, 1>>][c] \in ExpectedChildren(<<n, 1>>)[c]

\* README.md:136 and store.go:23: matching goes from layer to layer, down one
\* branch. Broken by a node with two contents: the second one has no children in
\* the tree, and a match that takes it ends there, without the layers below.
BranchesGoDown ==
    result = "ok" =>
        \A o \in Objects : ~IsLeaf(o[1]) => \E c \in Codes : children[o][c] # None
=============================================================================
