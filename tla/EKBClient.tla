------------------------------ MODULE EKBClient ------------------------------
(***************************************************************************)
(* The client of EKB (src/src/ekb/client.go) above the token of            *)
(* TokenRefresh: requests and the count of their failures, dimensions and  *)
(* departments with a cache of 30 minutes, and the fee types, which a sync *)
(* replaces as a whole while the consumer walks up in them.                *)
(*                                                                         *)
(* Only the consumer looks dimensions up. It asks for every value of a     *)
(* message as a project, whatever its type (rules/engine.go,               *)
(* getNodeDisplayName), and for a department as a department too. Both     *)
(* kinds share one cache, whose key is the id alone.                       *)
(*                                                                         *)
(* Time passes in units of ten minutes, while no request is under way: the *)
(* HTTP client gives up after 15 seconds.                                  *)
(***************************************************************************)
EXTENDS TokenRefresh, Sequences

CONSTANTS
    Consumer, Syncer,       \* the callers that look ids up, that sync fee types
    Projects, Departments,  \* the ids of both kinds
    AnsweredAsProject,      \* departments that EKB answers to a project lookup
    Parents,                \* what the parent of an id may be, "" included
    Life,                   \* how long a cached entry is used
    FeeHierarchies,         \* what the fee types may be: of some ids, the parent
    MaxLevels,              \* how many ids a walk looks at
    MaxFails,               \* bound: the failures that are told apart
    Nothing                 \* no call, no entry

Ids == Projects \cup Departments

ASSUME ClientAssumption ==
    /\ {Consumer, Syncer} \subseteq Callers /\ Consumer # Syncer
    /\ Projects \cap Departments = {}
    /\ AnsweredAsProject \subseteq Departments
    /\ \A kind \in {"project", "department"}, p \in Parents, n \in 0..Life + 1 :
          Nothing # [parent |-> p, age |-> n, kind |-> kind]
    /\ Life \in Nat \ {0} /\ MaxLevels \in Nat \ {0} /\ MaxFails \in Nat

VARIABLES
    call,     \* of each caller: what it asks of EKB, and whether it is sent
    fails,    \* consecutiveFails
    dims,     \* dimCache: parent, age, and the kind of lookup that stored it
    fees,     \* feeTypes
    walk,     \* ids that FindFeeTypeAncestorInTree has looked at, under feeTypesMu
    parent,   \* EKB: the parent of each id
    behind    \* history: for how long EKB has not said what the entry says

clientVars == <<call, fails, dims, fees, walk, parent, behind>>
ekbVars == <<tokenVars, clientVars>>

Purpose(kind, id) == [kind |-> kind, id |-> id, sent |-> FALSE]
Lookups ==
    {Purpose("project", i) : i \in Ids} \cup {Purpose("department", i) : i \in Departments}
FeeTypes == Purpose("fees", Nothing)
Other == Purpose("other", Nothing)  \* a callback, the budgets of the sync

EKBInit ==
    /\ TokenInit
    /\ call = [c \in Callers |-> Nothing]
    /\ fails = 0
    /\ dims = [i \in Ids |-> Nothing]
    /\ fees = <<>>
    /\ walk = <<>>
    /\ parent \in [Ids -> Parents]
    /\ behind = [i \in Ids |-> 0]

Calls(c, p) == call' = [call EXCEPT ![c] = p]
Ends(c) == Calls(c, Nothing)
Idle(c) == call[c] = Nothing
Sent(c) == call[c] # Nothing /\ call[c].sent
LookingUp(c) == c = Consumer /\ call[c] # Nothing /\ call[c].kind \in {"project", "department"}

-----------------------------------------------------------------------------
(* Get and Post: a token, a request with it, and the count of failures.      *)

\* A caller that needs EKB begins with GetToken.
Ask(c, p) ==
    /\ Idle(c)
    /\ c = Consumer => walk = <<>>
    /\ Calls(c, p)
    /\ BeginCall(c)

\* GetToken has returned a token.
Send(c) ==
    /\ call[c] # Nothing /\ ~call[c].sent
    /\ outcome[c] = "token" /\ Take(c)
    /\ call' = [call EXCEPT ![c].sent = TRUE]
    /\ UNCHANGED <<fails, dims, fees, walk, parent, behind>>

\* GetToken has returned an error, which nothing counts.
NoToken(c) ==
    /\ call[c] # Nothing /\ ~call[c].sent
    /\ outcome[c] = "error" /\ Take(c)
    /\ Ends(c)
    /\ UNCHANGED <<fails, dims, fees, walk, parent, behind>>

Counted == IF fails < MaxFails THEN fails + 1 ELSE fails

\* client.Do fails: recordFailure, and the call fails with it.
Unanswered(c) ==
    /\ Sent(c)
    /\ Ends(c)
    /\ fails' = Counted
    /\ UNCHANGED <<tokenVars, dims, fees, walk, parent, behind>>

\* An answer that changes nothing here: of another request, or one without the
\* value or the items that the call needs, which is an error and is not cached.
AnsweredOther(c) ==
    /\ Sent(c)
    /\ Ends(c)
    /\ fails' = 0
    /\ UNCHANGED <<tokenVars, dims, fees, walk, parent, behind>>

-----------------------------------------------------------------------------
(* GetProjectDimension and GetDepartment.                                    *)

\* Mutant of Usable: whatever is cached is used.
UsableForever(i) == dims[i] # Nothing

Usable(i) == dims[i] # Nothing /\ dims[i].age < Life

\* Mutant of LookupHit: a use renews the entry.
LookupHitRenews(p) ==
    /\ Idle(Consumer) /\ walk = <<>>
    /\ Usable(p.id)
    /\ dims' = [dims EXCEPT ![p.id].age = 0]
    /\ UNCHANGED <<tokenVars, call, fails, fees, walk, parent, behind>>

\* The cached entry is returned, and no request is made.
LookupHit(p) ==
    /\ Idle(Consumer) /\ walk = <<>>
    /\ Usable(p.id)
    /\ UNCHANGED ekbVars

\* cleanExpiredCache, and then the token.
LookupMiss(p) ==
    /\ ~Usable(p.id)
    /\ Ask(Consumer, p)
    /\ dims' = [i \in Ids |-> IF dims[i] # Nothing /\ dims[i].age > Life THEN Nothing
                              ELSE dims[i]]
    /\ UNCHANGED <<fails, fees, walk, parent, behind>>

\* EKB knows the id as one of that kind.
Known(kind, i) ==
    IF kind = "project" THEN i \in Projects \cup AnsweredAsProject ELSE i \in Departments

\* Mutant of LookupAnswered: "not found" is cached too, without a parent.
LookupAnsweredAnyway ==
    /\ LookingUp(Consumer) /\ Sent(Consumer)
    /\ Ends(Consumer)
    /\ fails' = 0
    /\ LET i == call[Consumer].id IN
       /\ dims' = [dims EXCEPT ![i] =
                      [parent |-> parent[i], age |-> 0, kind |-> call[Consumer].kind]]
       /\ behind' = [behind EXCEPT ![i] = 0]
    /\ UNCHANGED <<tokenVars, fees, walk, parent>>

\* What EKB says now is stored, for Life from now on.
LookupAnswered ==
    /\ LookingUp(Consumer) /\ Sent(Consumer)
    /\ Known(call[Consumer].kind, call[Consumer].id)
    /\ Ends(Consumer)
    /\ fails' = 0
    /\ LET i == call[Consumer].id IN
       /\ dims' = [dims EXCEPT ![i] =
                      [parent |-> parent[i], age |-> 0, kind |-> call[Consumer].kind]]
       /\ behind' = [behind EXCEPT ![i] = 0]
    /\ UNCHANGED <<tokenVars, fees, walk, parent>>

-----------------------------------------------------------------------------
(* SyncFeeTypesContext and FindFeeTypeAncestorInTree.                        *)

\* Mutant of FeesAnswered: the map is replaced without the lock.
FeesAnsweredAnytime ==
    /\ Sent(Syncer) /\ call[Syncer].kind = "fees"
    /\ Ends(Syncer)
    /\ fails' = 0
    /\ fees' \in FeeHierarchies
    /\ UNCHANGED <<tokenVars, dims, walk, parent, behind>>

\* The answer becomes a new map, which replaces the old one under the lock for
\* writing, when no walk reads.
FeesAnswered ==
    /\ Sent(Syncer) /\ call[Syncer].kind = "fees"
    /\ walk = <<>>
    /\ Ends(Syncer)
    /\ fails' = 0
    /\ fees' \in FeeHierarchies
    /\ UNCHANGED <<tokenVars, dims, walk, parent, behind>>

WalkBegins(i) ==
    /\ Idle(Consumer) /\ walk = <<>>
    /\ walk' = <<i>>
    /\ UNCHANGED <<tokenVars, call, fails, dims, fees, parent, behind>>

\* The id is not in the tree, and its parent is known.
WalkUp ==
    /\ walk # <<>> /\ Len(walk) < MaxLevels
    /\ LET i == walk[Len(walk)] IN
       /\ i \in DOMAIN fees
       /\ fees[i] # Nothing
       /\ walk' = Append(walk, fees[i])
    /\ UNCHANGED <<tokenVars, call, fails, dims, fees, parent, behind>>

\* Found, without a parent, or at the last level.
WalkEnds ==
    /\ walk # <<>>
    /\ walk' = <<>>
    /\ UNCHANGED <<tokenVars, call, fails, dims, fees, parent, behind>>

-----------------------------------------------------------------------------
(* EKB and the clock.                                                        *)

\* In EKB, an id gets another parent, or the one back that is cached.
Moves(i, p) ==
    /\ p # parent[i]
    /\ parent' = [parent EXCEPT ![i] = p]
    /\ behind' = [behind EXCEPT ![i] = IF dims[i] # Nothing /\ dims[i].parent = p THEN 0 ELSE @]
    /\ UNCHANGED <<tokenVars, call, fails, dims, fees, walk>>

Older(age, limit) == IF age < limit THEN age + 1 ELSE limit

\* Ten minutes pass.
Tick ==
    /\ \A c \in Callers : Idle(c)
    /\ walk = <<>>
    /\ dims' = [i \in Ids |-> IF dims[i] = Nothing THEN Nothing
                              ELSE [dims[i] EXCEPT !.age = Older(@, Life + 1)]]
    /\ behind' = [i \in Ids |-> IF dims[i] = Nothing \/ dims[i].parent = parent[i] THEN 0
                                ELSE Older(behind[i], Life)]
    /\ UNCHANGED <<tokenVars, call, fails, fees, walk, parent>>

-----------------------------------------------------------------------------
AsksOther(c) ==
    Ask(c, Other) /\ UNCHANGED <<fails, dims, fees, walk, parent, behind>>
SyncsFees ==
    Ask(Syncer, FeeTypes) /\ UNCHANGED <<fails, dims, fees, walk, parent, behind>>

Asks ==
    \/ \E c \in Callers : AsksOther(c)
    \/ SyncsFees
    \/ \E p \in Lookups : LookupMiss(p)

\* What a call does once it has begun.
Proceeds(c) ==
    \/ Continue(c) /\ UNCHANGED clientVars
    \/ Send(c) \/ NoToken(c) \/ Unanswered(c) \/ AnsweredOther(c)

EKBNext ==
    \/ Asks
    \/ \E c \in Callers : Proceeds(c)
    \/ \E p \in Lookups : LookupHit(p)
    \/ LookupAnswered
    \/ FeesAnswered
    \/ \E i \in DOMAIN fees : WalkBegins(i)
    \/ WalkUp \/ WalkEnds
    \/ \E i \in Ids, p \in Parents : Moves(i, p)
    \/ Tick
    \/ Expire /\ UNCHANGED clientVars

EKBSpec == EKBInit /\ [][EKBNext]_ekbVars

\* The timeout of the HTTP client ends every request, and a goroutine that is
\* woken gets the lock.
EKBFairSpec == EKBSpec /\ \A c \in Callers : WF_ekbVars(Proceeds(c))

-----------------------------------------------------------------------------
\* However lookups, moves in EKB and the clock interleave, an entry that a lookup
\* would use says what EKB has said within the cache's life: no document is
\* checked against a parent that EKB gave up longer ago.
FreshLinks == \A i \in Ids : Usable(i) => behind[i] < Life

\* The consumer asks for the same id as a project first and as a department then, and
\* both lookups share one entry. However they, errors and other callers' requests
\* interleave, an entry that a lookup would use was stored by a lookup that EKB
\* answered: a department that is no project is never cached as one.
CachedAsAnswered == \A i \in Ids : Usable(i) => Known(dims[i].kind, i)

\* A walk up the fee types is a chain of the fee types of one sync, however many
\* syncs replace them while documents are checked.
WalkInOneSync ==
    walk # <<>> => \E h \in FeeHierarchies :
        \A n \in 1..Len(walk) - 1 : walk[n] \in DOMAIN h /\ h[walk[n]] = walk[n + 1]

\* Once nobody asks EKB for anything more, every request ends, those that wait for
\* another caller's refresh among them.
RequestsReturn == <>[][~Asks]_ekbVars => <>[](\A c \in Callers : Idle(c))

\* Every failure of EKB counts against the health that the sync adapts to. Not
\* so: a token that cannot be had ends a request without being counted.
OutageIsCounted == [][\A c \in Callers : NoToken(c) => fails' = Counted]_ekbVars
=============================================================================
