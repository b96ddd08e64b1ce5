------------------------------ MODULE EKBProofs ------------------------------
(***************************************************************************)
(* Safety of TokenRefresh and of EKBClient, for every set of callers, ids  *)
(* and fee types.                                                          *)
(*                                                                         *)
(* The token: the flag refreshing alone does not say that there is one     *)
(* refresher. The invariant ties it to a call that is asking or has been   *)
(* answered, says that there is only one, and that a token is there        *)
(* exactly when one has been fetched since the last one expired.           *)
(* The cache: EKB has contradicted an entry for no longer than the entry   *)
(* is old. The walk: it follows the fee types that are cached now, because *)
(* nobody replaces them while it lasts. And every step of the client is a  *)
(* step of TokenRefresh or leaves it alone, so what is proved of the token *)
(* holds in the client.                                                    *)
(***************************************************************************)
EXTENDS EKBClient, TLAPS

-----------------------------------------------------------------------------
(* The token: TokenRefresh                                                  *)

\* A refresh is under way exactly when some call is the refresher.
FlagIsHeld == refreshing <=> \E c \in Callers : c \in Refreshers

OneRefresher == \A c, d \in Refreshers : c = d

\* A call asks only when there is no token.
AsksWithoutToken == \A c \in Callers : at[c] = "asking" => ~valid

WaitersAreHeld == \A c \in Callers : at[c] = "waiting" => refreshing

FetchedIsValid == fetched = IF valid THEN 1 ELSE 0

\* Why a call may be about to report an error: a woken waiter without a token,
\* or one whose token came and went, has seen a refresh fail.
WokenHaveReason ==
    \A c \in Callers : at[c] = "woken" => valid \/ c \in failedFor

\* What the refresher is about to return.
AnswerIsKnown ==
    \A c \in Callers : at[c] = "answered" =>
        \/ outcome[c] = "token" /\ valid
        \/ outcome[c] = "error"

TokenInv ==
    /\ TokenTypeOK
    /\ FlagIsHeld
    /\ OneRefresher
    /\ AsksWithoutToken
    /\ WaitersAreHeld
    /\ FetchedIsValid
    /\ WokenHaveReason
    /\ AnswerIsKnown
    /\ ErrorsAreExplained

-----------------------------------------------------------------------------
LEMMA InitToken == TokenInit => TokenInv
  <1> SUFFICES ASSUME TokenInit PROVE TokenInv
    OBVIOUS
  <1>1. TokenTypeOK
    BY DEF TokenInit, TokenTypeOK, Outcomes, Places
  <1>2. FlagIsHeld /\ OneRefresher
    BY DEF TokenInit, FlagIsHeld, OneRefresher, Refreshers
  <1>3. AsksWithoutToken /\ WaitersAreHeld /\ FetchedIsValid /\ WokenHaveReason /\ AnswerIsKnown
    BY DEF TokenInit, AsksWithoutToken, WaitersAreHeld, FetchedIsValid, WokenHaveReason,
           AnswerIsKnown
  <1>4. ErrorsAreExplained
    BY TokenAssumption DEF TokenInit, ErrorsAreExplained
  <1> QED
    BY <1>1, <1>2, <1>3, <1>4 DEF TokenInv

LEMMA StepToken == TokenInv /\ [TokenNext]_tokenVars => TokenInv'
  <1> SUFFICES ASSUME TokenInv, [TokenNext]_tokenVars PROVE TokenInv'
    OBVIOUS
  <1> USE TokenAssumption
  <1> USE DEF TokenInv, TokenTypeOK, Outcomes, Places, FlagIsHeld, OneRefresher, Refreshers,
              AsksWithoutToken, WaitersAreHeld, FetchedIsValid, WokenHaveReason,
              AnswerIsKnown, ErrorsAreExplained
  <1>1. ASSUME NEW c \in Callers, CallCached(c) PROVE TokenInv'
    BY <1>1 DEF CallCached, Outcome
  <1>2. ASSUME NEW c \in Callers, CallWaits(c) PROVE TokenInv'
    BY <1>2 DEF CallWaits, Goto, Outcome
  <1>3. ASSUME NEW c \in Callers, CallRefreshes(c) PROVE TokenInv'
    BY <1>3 DEF CallRefreshes, Goto, Outcome
  <1>4. ASSUME NEW c \in Callers, RefreshAnswered(c) PROVE TokenInv'
    BY <1>4 DEF RefreshAnswered, Goto, Outcome
  <1>5. ASSUME NEW c \in Callers, RefreshFails(c) PROVE TokenInv'
    BY <1>5 DEF RefreshFails, Goto, Outcome
  <1>6. ASSUME NEW c \in Callers, FinishRefresh(c) PROVE TokenInv'
    <2> USE <1>6 DEF FinishRefresh, WokenBy, Waiters
    <2>1. TokenTypeOK'
      OBVIOUS
    <2>2. \A d \in Callers : d \notin Refreshers'
      OBVIOUS
    <2>3. (FlagIsHeld /\ OneRefresher /\ AsksWithoutToken)'
      BY <2>2
    <2>4. (WaitersAreHeld /\ FetchedIsValid /\ AnswerIsKnown)'
      BY <2>2
    <2>5. WokenHaveReason'
      OBVIOUS
    <2>6. ErrorsAreExplained'
      OBVIOUS
    <2> QED
      BY <2>1, <2>3, <2>4, <2>5, <2>6
  <1>7. ASSUME NEW c \in Callers, WaitAgain(c) PROVE TokenInv'
    BY <1>7 DEF WaitAgain, Goto
  <1>8. ASSUME NEW c \in Callers, WaitEnds(c) PROVE TokenInv'
    BY <1>8 DEF WaitEnds, Goto, Outcome
  <1>9. ASSUME Expire PROVE TokenInv'
    BY <1>9 DEF Expire
  <1>10. ASSUME NEW c \in Callers, Take(c) PROVE TokenInv'
    BY <1>10 DEF Take, Outcome
  <1>11. ASSUME UNCHANGED tokenVars PROVE TokenInv'
    BY <1>11 DEF tokenVars
  <1> QED
    BY <1>1, <1>2, <1>3, <1>4, <1>5, <1>6, <1>7, <1>8, <1>9, <1>10, <1>11
       DEF TokenNext, BeginCall, Continue

LEMMA TokenInvHolds == TokenSpec => []TokenInv
  <1>1. TokenInit => TokenInv
    BY InitToken
  <1>2. TokenInv /\ [TokenNext]_tokenVars => TokenInv'
    BY StepToken
  <1> QED
    BY <1>1, <1>2, PTL DEF TokenSpec

-----------------------------------------------------------------------------
\* As long as a token lives, at most one has been fetched, whatever the number of
\* goroutines that asked for it (GetTokenContext's refreshing flag).
THEOREM FetchedOnce == TokenSpec => []OneFetchPerExpiry
  <1>1. TokenInv => OneFetchPerExpiry
    BY DEF TokenInv, FetchedIsValid, OneFetchPerExpiry
  <1> QED
    BY <1>1, TokenInvHolds, PTL

\* Whoever waits on tokenCond waits for a refresher that has yet to broadcast.
THEOREM WaitersAreWoken == TokenSpec => []NoLostWakeup
  <1>1. TokenInv => NoLostWakeup
    BY DEF TokenInv, FlagIsHeld, WaitersAreHeld, NoLostWakeup
  <1> QED
    BY <1>1, TokenInvHolds, PTL

\* A call that returns an error has seen a refresh fail while it lasted.
THEOREM NoErrorWithoutFailure == TokenSpec => []ErrorsAreExplained
  <1>1. TokenInv => ErrorsAreExplained
    BY DEF TokenInv
  <1> QED
    BY <1>1, TokenInvHolds, PTL

-----------------------------------------------------------------------------
(* The client: EKBClient                                                    *)

Entries == [parent : Parents, age : 0..Life + 1, kind : {"project", "department"}]
Requests ==
    [kind : {"project", "department", "fees", "other"}, id : Ids \cup {Nothing}, sent : BOOLEAN]

CacheTypeOK ==
    /\ call \in [Callers -> Requests \cup {Nothing}]
    /\ dims \in [Ids -> Entries \cup {Nothing}]
    /\ parent \in [Ids -> Parents]
    /\ behind \in [Ids -> 0..Life]

BehindIsYounger == \A i \in Ids : dims[i] # Nothing => behind[i] <= dims[i].age

AnswersHold == \A i \in Ids : dims[i] # Nothing => Known(dims[i].kind, i)

FeeIds == UNION {DOMAIN h \cup {h[i] : i \in DOMAIN h} : h \in FeeHierarchies}

WalkFollowsFees ==
    /\ fees \in FeeHierarchies \/ DOMAIN fees = {}
    /\ walk \in Seq(FeeIds)
    /\ walk # <<>> =>
          /\ fees \in FeeHierarchies
          /\ \A n \in 1..Len(walk) - 1 : walk[n] \in DOMAIN fees /\ fees[walk[n]] = walk[n + 1]

-----------------------------------------------------------------------------
\* Every step of the client is a step of the token's protocol, or none.
LEMMA StepIsTokenStep == [EKBNext]_ekbVars => [TokenNext]_tokenVars
  <1> SUFFICES ASSUME [EKBNext]_ekbVars PROVE [TokenNext]_tokenVars
    OBVIOUS
  <1> USE DEF TokenNext
  <1>1. ASSUME NEW c \in Callers, NEW p, Ask(c, p) PROVE TokenNext
    BY <1>1 DEF Ask
  <1>2. CASE Asks
    <2>1. Consumer \in Callers /\ Syncer \in Callers
      BY ClientAssumption
    <2> QED
      BY <1>1, <1>2, <2>1 DEF Asks, AsksOther, SyncsFees, LookupMiss
  <1>3. ASSUME NEW c \in Callers, Proceeds(c) PROVE [TokenNext]_tokenVars
    BY <1>3 DEF Proceeds, Send, NoToken, Unanswered, AnsweredOther
  <1>4. CASE Expire /\ UNCHANGED clientVars
    BY <1>4
  <1>5. CASE \E p \in Lookups : LookupHit(p)
    BY <1>5 DEF LookupHit, ekbVars
  <1>6. CASE LookupAnswered \/ FeesAnswered
    BY <1>6 DEF LookupAnswered, FeesAnswered
  <1>7. CASE (\E i \in DOMAIN fees : WalkBegins(i)) \/ WalkUp \/ WalkEnds
    BY <1>7 DEF WalkBegins, WalkUp, WalkEnds
  <1>8. CASE (\E i \in Ids, p \in Parents : Moves(i, p)) \/ Tick
    BY <1>8 DEF Moves, Tick
  <1>9. CASE UNCHANGED ekbVars
    BY <1>9 DEF ekbVars
  <1> QED
    BY <1>2, <1>3, <1>4, <1>5, <1>6, <1>7, <1>8, <1>9 DEF EKBNext

\* The client (Get, Post and the lookups of client.go) uses the token as
\* TokenRefresh says.
THEOREM ClientKeepsTokenProtocol == EKBSpec => TokenSpec
  <1>1. EKBInit => TokenInit
    BY DEF EKBInit
  <1> QED
    BY <1>1, StepIsTokenStep, PTL DEF EKBSpec, TokenSpec

\* One token per expiry, in every use that the client makes of it.
THEOREM ClientFetchesOnce == EKBSpec => []OneFetchPerExpiry
  BY ClientKeepsTokenProtocol, FetchedOnce, PTL

-----------------------------------------------------------------------------
LEMMA InitCache == EKBInit => CacheTypeOK /\ BehindIsYounger /\ WalkFollowsFees
  <1> SUFFICES ASSUME EKBInit PROVE CacheTypeOK /\ BehindIsYounger /\ WalkFollowsFees
    OBVIOUS
  <1> USE ClientAssumption DEF EKBInit
  <1>1. CacheTypeOK /\ BehindIsYounger
    BY DEF CacheTypeOK, BehindIsYounger
  <1>2. WalkFollowsFees
    BY DEF WalkFollowsFees
  <1> QED
    BY <1>1, <1>2

LEMMA CallsTyped ==
    ASSUME CacheTypeOK, [EKBNext]_ekbVars
    PROVE call' \in [Callers -> Requests \cup {Nothing}]
  <1> USE ClientAssumption DEF CacheTypeOK, Calls, Ends
  <1>1. Consumer \in Callers /\ Syncer \in Callers
    OBVIOUS
  <1>2. (\A p \in Lookups : p \in Requests) /\ FeeTypes \in Requests /\ Other \in Requests
    <2>1. ASSUME NEW i \in Ids PROVE Purpose("project", i) \in Requests
      BY DEF Requests, Purpose
    <2>2. ASSUME NEW i \in Departments PROVE Purpose("department", i) \in Requests
      BY DEF Requests, Purpose, Ids
    <2>3. FeeTypes \in Requests /\ Other \in Requests
      BY DEF Requests, FeeTypes, Other, Purpose
    <2> QED
      BY <2>1, <2>2, <2>3 DEF Lookups
  <1>3. ASSUME NEW c \in Callers, NEW p \in Requests, Ask(c, p)
        PROVE call' \in [Callers -> Requests \cup {Nothing}]
    BY <1>3 DEF Ask
  <1>4. ASSUME NEW c \in Callers, Ends(c) PROVE call' \in [Callers -> Requests \cup {Nothing}]
    BY <1>4
  <1>5. CASE Asks
    BY <1>1, <1>2, <1>3, <1>5 DEF Asks, AsksOther, SyncsFees, LookupMiss
  <1>6. ASSUME NEW c \in Callers, Send(c) PROVE call' \in [Callers -> Requests \cup {Nothing}]
    <2>1. call[c] \in Requests
      BY <1>6 DEF Send
    <2>2. [call[c] EXCEPT !.sent = TRUE] \in Requests
      BY <2>1 DEF Requests
    <2> QED
      BY <1>6, <2>2 DEF Send
  <1>7. ASSUME NEW c \in Callers, Proceeds(c)
        PROVE call' \in [Callers -> Requests \cup {Nothing}]
    BY <1>4, <1>6, <1>7 DEF Proceeds, NoToken, Unanswered, AnsweredOther, clientVars
  <1>8. CASE LookupAnswered \/ FeesAnswered
    BY <1>1, <1>4, <1>8 DEF LookupAnswered, FeesAnswered
  <1>9. CASE call' = call
    BY <1>9
  <1> QED
    BY <1>5, <1>7, <1>8, <1>9 DEF EKBNext, LookupHit, WalkBegins, WalkUp, WalkEnds, Moves, Tick,
       clientVars, ekbVars

LEMMA StepCache ==
    ASSUME CacheTypeOK, BehindIsYounger, [EKBNext]_ekbVars
    PROVE CacheTypeOK' /\ BehindIsYounger'
  <1> USE ClientAssumption
  <1>1. call' \in [Callers -> Requests \cup {Nothing}]
    BY CallsTyped
  <1> DEFINE Rest == dims' \in [Ids -> Entries \cup {Nothing}] /\ parent' \in [Ids -> Parents]
                     /\ behind' \in [Ids -> 0..Life] /\ BehindIsYounger'
  <1>2. SUFFICES Rest
    BY <1>1 DEF CacheTypeOK
  <1>3. \A e \in Entries : e # Nothing
    BY DEF Entries
  <1>4. CASE UNCHANGED <<dims, parent, behind>>
    BY <1>4 DEF CacheTypeOK, BehindIsYounger
  <1>5. CASE \E p \in Lookups : LookupMiss(p)
    BY <1>5 DEF LookupMiss, CacheTypeOK, BehindIsYounger
  <1>6. CASE LookupAnswered
    <2> DEFINE i == call[Consumer].id
               e == [parent |-> parent[i], age |-> 0, kind |-> call[Consumer].kind]
    <2>1. dims' = [dims EXCEPT ![i] = e] /\ behind' = [behind EXCEPT ![i] = 0]
          /\ parent' = parent
      BY <1>6 DEF LookupAnswered
    <2>2. ASSUME i \in Ids PROVE e \in Entries
      BY <1>6, <2>2 DEF LookupAnswered, LookingUp, CacheTypeOK, Entries
    <2>3. ASSUME i \in Ids PROVE e.age = 0
      OBVIOUS
    <2> HIDE DEF e, i
    <2>4. dims' \in [Ids -> Entries \cup {Nothing}] /\ behind' \in [Ids -> 0..Life]
          /\ parent' \in [Ids -> Parents]
      <3>1. dims' \in [Ids -> Entries \cup {Nothing}]
        <4>1. dims' = [j \in Ids |-> IF j = i THEN e ELSE dims[j]]
          BY <2>1 DEF CacheTypeOK
        <4>2. ASSUME NEW j \in Ids PROVE (IF j = i THEN e ELSE dims[j]) \in Entries \cup {Nothing}
          BY <2>2 DEF CacheTypeOK
        <4> QED
          BY <4>1, <4>2
      <3>2. behind' \in [Ids -> 0..Life]
        <4>1. behind \in [Ids -> 0..Life] /\ 0 \in 0..Life
          BY DEF CacheTypeOK
        <4> QED
          BY <2>1, <4>1
      <3> QED
        BY <2>1, <3>1, <3>2 DEF CacheTypeOK
    <2>5. ASSUME NEW j \in Ids, dims'[j] # Nothing PROVE behind'[j] <= dims'[j].age
      <3>1. CASE j = i
        BY <2>1, <2>3, <2>5, <3>1 DEF CacheTypeOK
      <3>2. CASE j # i
        BY <2>1, <2>5, <3>2 DEF CacheTypeOK, BehindIsYounger
      <3> QED
        BY <3>1, <3>2
    <2> QED
      BY <2>4, <2>5 DEF BehindIsYounger
  <1>7. ASSUME NEW i \in Ids, NEW p \in Parents, Moves(i, p) PROVE Rest
    <2>1. dims' = dims /\ parent' \in [Ids -> Parents] /\ behind' \in [Ids -> 0..Life]
      BY <1>7 DEF Moves, CacheTypeOK
    <2>2. ASSUME NEW j \in Ids, dims[j] # Nothing PROVE behind'[j] <= dims[j].age
      <3>1. dims[j].age \in 0..Life + 1 /\ behind[j] <= dims[j].age
        BY <2>2 DEF CacheTypeOK, Entries, BehindIsYounger
      <3>2. behind'[j] = 0 \/ behind'[j] = behind[j]
        BY <1>7 DEF Moves, CacheTypeOK
      <3> QED
        BY <3>1, <3>2
    <2> QED
      BY <2>1, <2>2 DEF CacheTypeOK, BehindIsYounger
  <1>8. CASE Tick
    <2>1. ASSUME NEW i \in Ids, dims[i] # Nothing
          PROVE /\ dims'[i] \in Entries
                /\ dims'[i].age = Older(dims[i].age, Life + 1)
      <3>1. dims[i] \in Entries
        BY <2>1 DEF CacheTypeOK
      <3>2. dims'[i] = [dims[i] EXCEPT !.age = Older(dims[i].age, Life + 1)]
        BY <1>8, <2>1 DEF Tick
      <3>3. Older(dims[i].age, Life + 1) \in 0..Life + 1
        BY <3>1 DEF Entries, Older
      <3> QED
        BY <3>1, <3>2, <3>3 DEF Entries
    <2>2. ASSUME NEW i \in Ids, dims[i] = Nothing PROVE dims'[i] = Nothing
      BY <1>8, <2>2 DEF Tick
    <2>3. dims' \in [Ids -> Entries \cup {Nothing}]
      BY <1>8, <2>1, <2>2 DEF Tick
    <2>4. behind' \in [Ids -> 0..Life] /\ parent' \in [Ids -> Parents]
      BY <1>8 DEF Tick, Older, CacheTypeOK
    <2>5. ASSUME NEW i \in Ids, dims[i] # Nothing PROVE behind'[i] <= dims'[i].age
      <3>1. dims[i].age \in 0..Life + 1 /\ behind[i] \in 0..Life /\ behind[i] <= dims[i].age
        BY <2>5 DEF CacheTypeOK, Entries, BehindIsYounger
      <3>2. behind'[i] = 0 \/ behind'[i] = Older(behind[i], Life)
        BY <1>8 DEF Tick
      <3> QED
        BY <2>1, <2>5, <3>1, <3>2 DEF Older
    <2> QED
      BY <2>2, <2>3, <2>4, <2>5 DEF BehindIsYounger
  <1> QED
    BY <1>4, <1>5, <1>6, <1>7, <1>8 DEF EKBNext, Asks, AsksOther, SyncsFees, Proceeds, Send,
       NoToken, Unanswered, AnsweredOther, LookupHit, FeesAnswered, WalkBegins, WalkUp, WalkEnds,
       clientVars, ekbVars

\* What the cache answers is never further behind EKB than an entry may be old
\* (the 30 minutes of dimCacheEntry.expires, counted from the answer).
THEOREM CacheIsFresh == EKBSpec => []FreshLinks
  <1>1. CacheTypeOK /\ BehindIsYounger => FreshLinks
    BY ClientAssumption DEF CacheTypeOK, BehindIsYounger, FreshLinks, Usable, Entries
  <1> QED
    BY <1>1, InitCache, StepCache, PTL DEF EKBSpec

-----------------------------------------------------------------------------
\* Whatever ids there are of both kinds, and whichever departments EKB also answers as
\* projects, no lookup uses an entry that EKB's answer to its kind of lookup did not make:
\* the cache that both kinds share holds answers only.
THEOREM CacheHoldsAnswers == EKBSpec => []CachedAsAnswered
  <1>1. EKBInit => AnswersHold
    BY ClientAssumption DEF EKBInit, AnswersHold, Ids
  <1>2. ASSUME CacheTypeOK, AnswersHold, [EKBNext]_ekbVars PROVE AnswersHold'
    <2> USE ClientAssumption DEF AnswersHold, CacheTypeOK, Ids
    <2>1. CASE UNCHANGED dims
      BY <1>2, <2>1
    <2>2. CASE \E p \in Lookups : LookupMiss(p)
      BY <1>2, <2>2 DEF LookupMiss
    <2>3. CASE LookupAnswered
      BY <1>2, <2>3 DEF LookupAnswered
    <2>4. CASE Tick
      <3> SUFFICES ASSUME NEW i \in Ids, dims'[i] # Nothing
                   PROVE Known(dims'[i].kind, i)
        OBVIOUS
      <3>1. dims[i] # Nothing /\ dims[i] \in Entries
        BY <1>2, <2>4 DEF Tick
      <3>2. dims'[i] = [dims[i] EXCEPT !.age = Older(dims[i].age, Life + 1)]
        BY <2>4, <3>1 DEF Tick
      <3> QED
        BY <1>2, <3>1, <3>2 DEF Entries
    <2> QED
      BY <1>2, <2>1, <2>2, <2>3, <2>4 DEF EKBNext, Asks, AsksOther, SyncsFees, Proceeds, Send,
         NoToken, Unanswered, AnsweredOther, LookupHit, FeesAnswered, WalkBegins, WalkUp,
         WalkEnds, Moves, clientVars, ekbVars
  <1>3. AnswersHold => CachedAsAnswered
    BY DEF AnswersHold, CachedAsAnswered, Usable
  <1> QED
    BY <1>1, <1>2, <1>3, InitCache, StepCache, PTL DEF EKBSpec

-----------------------------------------------------------------------------
LEMMA StepWalk ==
    ASSUME WalkFollowsFees, [EKBNext]_ekbVars
    PROVE WalkFollowsFees'
  <1> USE DEF WalkFollowsFees
  <1>1. CASE UNCHANGED <<fees, walk>>
    BY <1>1
  <1>2. CASE FeesAnswered
    BY <1>2 DEF FeesAnswered
  <1>3. ASSUME NEW i \in DOMAIN fees, WalkBegins(i) PROVE WalkFollowsFees'
    <2>1. fees \in FeeHierarchies /\ i \in FeeIds
      BY <1>3 DEF FeeIds
    <2> QED
      BY <1>3, <2>1 DEF WalkBegins
  <1>4. CASE WalkUp
    <2> DEFINE i == walk[Len(walk)]
    <2>1. fees \in FeeHierarchies /\ i \in DOMAIN fees /\ walk' = Append(walk, fees[i])
          /\ fees' = fees /\ walk # <<>>
      BY <1>4 DEF WalkUp
    <2>2. fees[i] \in FeeIds
      BY <2>1 DEF FeeIds
    <2>3. walk' \in Seq(FeeIds) /\ Len(walk') = Len(walk) + 1
      BY <2>1, <2>2
    <2>4. ASSUME NEW n \in 1..Len(walk') - 1
          PROVE walk'[n] \in DOMAIN fees /\ fees[walk'[n]] = walk'[n + 1]
      <3>1. CASE n = Len(walk)
        BY <2>1, <2>2, <3>1
      <3>2. CASE n < Len(walk)
        BY <2>1, <2>2, <2>3, <3>2
      <3> QED
        BY <2>3, <2>4, <3>1, <3>2
    <2> QED
      BY <2>1, <2>3, <2>4
  <1>5. CASE WalkEnds
    BY <1>5 DEF WalkEnds
  <1> QED
    BY <1>1, <1>2, <1>3, <1>4, <1>5 DEF EKBNext, Asks, AsksOther, SyncsFees, LookupMiss, Proceeds,
       Send, NoToken, Unanswered, AnsweredOther, LookupHit, LookupAnswered, Moves, Tick,
       clientVars, ekbVars

\* A document is matched against the fee types of one sync, never a mixture of two
\* (feeTypesMu, read-locked for the whole walk).
THEOREM WalkSeesOneSync == EKBSpec => []WalkInOneSync
  <1>1. EKBInit => WalkFollowsFees
    BY InitCache
  <1>2. WalkFollowsFees => WalkInOneSync
    BY DEF WalkFollowsFees, WalkInOneSync
  <1> QED
    BY <1>1, <1>2, StepWalk, PTL DEF EKBSpec
=============================================================================
