---------------------------- MODULE TokenRefresh ----------------------------
(***************************************************************************)
(* The access token of the EKB client (src/src/ekb/client.go,              *)
(* GetTokenContext): the consumer, the retry goroutine, the sync and the   *)
(* status page ask for it at the same time, and one of them refreshes it   *)
(* while the others wait on a condition variable.                          *)
(*                                                                         *)
(* What happens while tokenMu is held is one step. The token expires by    *)
(* the clock, 110 minutes after it was fetched, and no call lasts that     *)
(* long: it expires while no call is in the middle.                        *)
(***************************************************************************)
EXTENDS Naturals, FiniteSets

CONSTANTS
    Callers,     \* goroutines that need the token
    NoOutcome    \* the outcome of a call that has not returned

ASSUME TokenAssumption == NoOutcome \notin {"token", "error"}

VARIABLES
    valid,       \* token # "" and the clock is before expiry
    refreshing,  \* refreshing
    at,          \* where each call is
    outcome,     \* what its last call returned, or what the refresher is about to
    \* History variables.
    fetched,     \* how many tokens have been fetched since the last one expired
    failedFor    \* the calls during which a refresh has failed

tokenVars == <<valid, refreshing, at, outcome, fetched, failedFor>>

Outcomes == {"token", "error", NoOutcome}
Places == {"outside", "waiting", "woken", "asking", "answered"}

TokenTypeOK ==
    /\ valid \in BOOLEAN
    /\ refreshing \in BOOLEAN
    /\ at \in [Callers -> Places]
    /\ outcome \in [Callers -> Outcomes]
    /\ fetched \in Nat
    /\ failedFor \subseteq Callers

TokenInit ==
    /\ valid = FALSE
    /\ refreshing = FALSE
    /\ at = [c \in Callers |-> "outside"]
    /\ outcome = [c \in Callers |-> NoOutcome]
    /\ fetched = 0
    /\ failedFor = {}

Goto(c, there) == at' = [at EXCEPT ![c] = there]
Outcome(c, o) == outcome' = [outcome EXCEPT ![c] = o]

-----------------------------------------------------------------------------
\* The fast path: the cached token is still valid.
CallCached(c) ==
    /\ at[c] = "outside"
    /\ valid
    /\ Outcome(c, "token")
    /\ failedFor' = failedFor \ {c}
    /\ UNCHANGED <<valid, refreshing, at, fetched>>

\* Somebody refreshes the token: wait.
CallWaits(c) ==
    /\ at[c] = "outside"
    /\ ~valid
    /\ refreshing
    /\ Goto(c, "waiting")
    /\ Outcome(c, NoOutcome)
    /\ failedFor' = failedFor \ {c}
    /\ UNCHANGED <<valid, refreshing, fetched>>

\* Mutant of CallRefreshes: every caller refreshes for itself.
CallRefreshesAnyway(c) ==
    /\ at[c] = "outside"
    /\ ~valid
    /\ refreshing' = TRUE
    /\ Goto(c, "asking")
    /\ Outcome(c, NoOutcome)
    /\ failedFor' = failedFor \ {c}
    /\ UNCHANGED <<valid, fetched>>

\* Become the only refresher, and ask without the lock.
CallRefreshes(c) ==
    /\ at[c] = "outside"
    /\ ~valid
    /\ ~refreshing
    /\ refreshing' = TRUE
    /\ Goto(c, "asking")
    /\ Outcome(c, NoOutcome)
    /\ failedFor' = failedFor \ {c}
    /\ UNCHANGED <<valid, fetched>>

\* doRefreshToken stores the token under the lock and returns it.
RefreshAnswered(c) ==
    /\ at[c] = "asking"
    /\ valid' = TRUE
    /\ fetched' = fetched + 1
    /\ Goto(c, "answered")
    /\ Outcome(c, "token")
    /\ UNCHANGED <<refreshing, failedFor>>

\* The request fails, is cancelled, or is answered without a token.
RefreshFails(c) ==
    /\ at[c] = "asking"
    /\ Goto(c, "answered")
    /\ Outcome(c, "error")
    /\ UNCHANGED <<valid, refreshing, fetched, failedFor>>

Waiters == {d \in Callers : at[d] \in {"waiting", "woken"}}

\* Mutant of WokenBy: Signal in the place of Broadcast.
WokenByOne(c) == IF \E d \in Callers : at[d] = "waiting"
                 THEN {CHOOSE d \in Callers : at[d] = "waiting"} ELSE {}

\* Whom c's Broadcast wakes.
WokenBy(c) == {d \in Callers : at[d] = "waiting"}

\* The flag is cleared, all waiters are woken, and the call returns what
\* doRefreshToken returned.
FinishRefresh(c) ==
    /\ at[c] = "answered"
    /\ refreshing' = FALSE
    /\ at' = [d \in Callers |-> IF d = c THEN "outside"
                                ELSE IF d \in WokenBy(c) THEN "woken" ELSE at[d]]
    /\ failedFor' = IF outcome[c] = "error" THEN failedFor \cup Waiters \cup {c} ELSE failedFor
    /\ UNCHANGED <<valid, outcome, fetched>>

\* The for loop around Wait: somebody else refreshes again.
WaitAgain(c) ==
    /\ at[c] = "woken"
    /\ refreshing
    /\ Goto(c, "waiting")
    /\ UNCHANGED <<valid, refreshing, outcome, fetched, failedFor>>

\* Mutant of WaitEnds: the waiter returns without looking for the new token.
WaitEndsInError(c) ==
    /\ at[c] = "woken"
    /\ ~refreshing
    /\ Goto(c, "outside")
    /\ Outcome(c, "error")
    /\ UNCHANGED <<valid, refreshing, fetched, failedFor>>

\* The waiter checks again, and refreshes nothing itself.
WaitEnds(c) ==
    /\ at[c] = "woken"
    /\ ~refreshing
    /\ Goto(c, "outside")
    /\ Outcome(c, IF valid THEN "token" ELSE "error")
    /\ UNCHANGED <<valid, refreshing, fetched, failedFor>>

\* The caller takes what its call returned.
Take(c) ==
    /\ at[c] = "outside"
    /\ outcome[c] # NoOutcome
    /\ Outcome(c, NoOutcome)
    /\ failedFor' = failedFor \ {c}
    /\ UNCHANGED <<valid, refreshing, at, fetched>>

\* 110 minutes have passed.
Expire ==
    /\ valid
    /\ \A c \in Callers : at[c] = "outside"
    /\ valid' = FALSE
    /\ fetched' = 0
    /\ UNCHANGED <<refreshing, at, outcome, failedFor>>

-----------------------------------------------------------------------------
BeginCall(c) == CallCached(c) \/ CallWaits(c) \/ CallRefreshes(c)
Continue(c) ==
    \/ RefreshAnswered(c) \/ RefreshFails(c) \/ FinishRefresh(c)
    \/ WaitAgain(c) \/ WaitEnds(c)

TokenNext ==
    \/ \E c \in Callers : BeginCall(c) \/ Continue(c) \/ Take(c)
    \/ Expire

TokenSpec == TokenInit /\ [][TokenNext]_tokenVars

\* The HTTP client's timeout ends every request, and a woken goroutine gets
\* the lock.
TokenFairSpec == TokenSpec /\ \A c \in Callers : WF_tokenVars(Continue(c))

-----------------------------------------------------------------------------
Refreshers == {c \in Callers : at[c] \in {"asking", "answered"}}

\* However calls interleave with a refresh, its answer and the wake-ups: as long
\* as a token lives, at most one token has been fetched for all callers.
OneFetchPerExpiry == fetched <= 1

\* Nobody waits for a broadcast that nobody will make: while a call waits, some
\* call is refreshing and has yet to finish.
NoLostWakeup == (\E c \in Callers : at[c] = "waiting") => Refreshers # {}

\* A call reports an error only if a refresh failed between its beginning and its
\* end: a waiter never misses the token that was fetched for it.
ErrorsAreExplained ==
    \A c \in Callers : at[c] = "outside" /\ outcome[c] = "error" => c \in failedFor
=============================================================================
