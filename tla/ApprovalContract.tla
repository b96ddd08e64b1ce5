-------------------------- MODULE ApprovalContract --------------------------
(***************************************************************************)
(* What the service promises for one approval request, whatever happens    *)
(* inside: the abstract specification the Pipeline implements.             *)
(*                                                                         *)
(* An accepted request is pending until it ends, once and for good. While  *)
(* it is pending one verdict may reach the platform, any number of times.  *)
(* It is answered only if the platform has that verdict. Requests may be   *)
(* lost, several at a time (the process stops), but not silently changed.  *)
(***************************************************************************)
CONSTANTS Tasks, Verdicts

VARIABLES
    stage,    \* the life of each request
    received  \* the verdicts the platform has

cvars == <<stage, received>>

Stages == {"unknown", "pending", "answered", "abandoned", "lost"}

ContractTypeOK ==
    /\ stage \in [Tasks -> Stages]
    /\ received \in [Tasks -> SUBSET Verdicts]

ContractInit ==
    /\ stage = [t \in Tasks |-> "unknown"]
    /\ received = [t \in Tasks |-> {}]

\* The webhook was answered with 200.
Take(t) ==
    /\ stage[t] = "unknown"
    /\ stage' = [stage EXCEPT ![t] = "pending"]
    /\ UNCHANGED received

\* A verdict arrives, the first or the same again; the service may know
\* (answered), may not know and try again, or may give up not knowing.
Arrive(t, v) ==
    /\ stage[t] = "pending"
    /\ received[t] \subseteq {v}
    /\ received' = [received EXCEPT ![t] = {v}]
    /\ \E s \in {"pending", "answered", "abandoned"} : stage' = [stage EXCEPT ![t] = s]

\* The service gives up: a panic, or the last callback failed.
Abandon(t) ==
    /\ stage[t] = "pending"
    /\ stage' = [stage EXCEPT ![t] = "abandoned"]
    /\ UNCHANGED received

\* Pending requests disappear without a word.
Lose(S) ==
    /\ \A t \in S : stage[t] = "pending"
    /\ stage' = [t \in Tasks |-> IF t \in S THEN "lost" ELSE stage[t]]
    /\ UNCHANGED received

ContractNext ==
    \/ \E t \in Tasks : Take(t) \/ Abandon(t) \/ \E v \in Verdicts : Arrive(t, v)
    \/ \E S \in SUBSET Tasks : Lose(S)

ContractSpec == ContractInit /\ [][ContractNext]_cvars
=============================================================================
