---------------------------- MODULE RuleWorkflow ----------------------------
(***************************************************************************)
(* The rules engine (src/src/rules/engine.go, Evaluate and                 *)
(* runTargetWorkflow): a document is one record, which the steps of a      *)
(* target split into details and apportions, pass, commit or refuse, one   *)
(* step after the other, for all records.                                  *)
(*                                                                         *)
(* Of the fields of a record the model keeps one, kind, which when         *)
(* expressions and the match with the budget look at. A store is the set   *)
(* of kinds that are in its budget; BudgetMatch models the match. A sync   *)
(* replaces the store while a document is checked: every match reads it    *)
(* anew.                                                                   *)
(***************************************************************************)
EXTENDS Integers, FiniteSets, SequencesExt, Selection

CONSTANTS
    Kinds,      \* values of the field
    Absent,     \* a detail or apportion that does not have the field
    Malformed,  \* an element of details or apportions that is no JSON object
    Stores,     \* what a sync may store: the kinds that match_info_to_budget finds
    Documents,  \* [kind, details]; a detail is [kind, apportions] or Malformed
    RuleFiles   \* sequences of targets; a target is a sequence of steps

DetailRecords == [kind : Kinds \cup {Absent}, apportions : Seq(Kinds \cup {Absent, Malformed})]
\* A record, and what splits can still make of it.
UnitSet == [label : Seq(Nat), kind : Kinds, details : Seq(DetailRecords \cup {Malformed}),
            apportions : Seq(Kinds \cup {Absent, Malformed}), committed : BOOLEAN]
StepSet == [action : STRING, when : SUBSET Kinds, then : STRING, fails : SUBSET Kinds]

ASSUME WorkflowAssumption ==
    /\ Absent \notin Kinds
    /\ Stores \subseteq SUBSET Kinds
    /\ \A d \in Documents : d.kind \in Kinds /\ d.details \in Seq(DetailRecords \cup {Malformed})
    /\ RuleFiles \subseteq Seq(Seq(StepSet))

VARIABLES
    form,      \* the document
    rules,     \* the targets, compiled
    target,    \* the number of the target that runs
    step,      \* the number of its step that runs next
    next,      \* the number of the unit that it looks at next
    units,     \* units: those it has kept (remaining), then those to come
    store,     \* the store, which the syncs replace
    refusals,  \* the targets that have refused, each with the record it named
    verdict,   \* Evaluate's action, "none" while it runs
    \* History variables.
    passed,    \* the records that this target has passed
    seen       \* the stores that there have been since Evaluate began

workflowVars ==
    <<form, rules, target, step, next, units, store, refusals, verdict, passed, seen>>

Splits == {"split_detail", "split_apportion"}

WorkflowTypeOK ==
    /\ form \in Documents /\ rules \in RuleFiles
    /\ target \in 1 .. Len(rules) + 1
    /\ step \in Nat \ {0} /\ next \in Nat \ {0}
    /\ units \in Seq(UnitSet)
    /\ store \in seen /\ seen \subseteq Stores
    /\ refusals \in Seq([target : DOMAIN rules, label : Seq(Nat)])
    /\ verdict \in {"none", "accept", "refuse"}
    /\ passed \subseteq Seq(Nat)

\* validateTarget: a split into apportions comes after one into details.
ValidateTarget(steps) ==
    \A k \in DOMAIN steps :
        /\ steps[k].action = "split_apportion" =>
               \E j \in 1 .. k - 1 : steps[j].action = "split_detail"
        /\ steps[k].then \in {"", "pass", "refuse", "commit"}
        /\ steps[k].action \in Splits \cup {"", "match_info_to_budget"}

Whole == [label |-> <<>>, kind |-> form.kind, details |-> form.details,
          apportions |-> <<>>, committed |-> FALSE]

WorkflowInit ==
    /\ form \in Documents
    /\ rules \in {r \in RuleFiles : \A t \in DOMAIN r : ValidateTarget(r[t])}
    /\ target = 1
    /\ step = 1
    /\ next = 1
    /\ units = <<Whole>>
    /\ store \in Stores
    /\ refusals = <<>>
    /\ verdict = "none"
    /\ passed = {}
    /\ seen = {store}

-----------------------------------------------------------------------------
(* Splitting                                                                *)

\* The part's field wins over that of what it is a part of.
Merged(kind, part) == IF part = Absent THEN kind ELSE part

WellFormed(parts) ==
    Picked([j \in DOMAIN parts |-> j], {j \in DOMAIN parts : parts[j] # Malformed})

DetailsOf(u) ==
    IF u.committed \/ u.details = <<>> THEN <<u>>
    ELSE LET js == WellFormed(u.details)
         IN  [i \in DOMAIN js |->
                [u EXCEPT !.label = <<js[i]>>,
                          !.kind = Merged(@, u.details[js[i]].kind),
                          !.details = <<>>,
                          !.apportions = u.details[js[i]].apportions]]

\* Mutant of ApportionsOf: a detail without apportions disappears.
ApportionsOfOnly(u) ==
    IF u.committed THEN <<u>>
    ELSE LET js == WellFormed(u.apportions)
         IN  [i \in DOMAIN js |->
                [u EXCEPT !.label = @ \o <<js[i]>>,
                          !.kind = Merged(@, u.apportions[js[i]]),
                          !.apportions = <<>>]]

ApportionsOf(u) ==
    IF u.committed \/ u.apportions = <<>> THEN <<u>>
    ELSE LET js == WellFormed(u.apportions)
         IN  [i \in DOMAIN js |->
                [u EXCEPT !.label = @ \o <<js[i]>>,
                          !.kind = Merged(@, u.apportions[js[i]]),
                          !.apportions = <<>>]]

Split(s, us) ==
    FlattenSeq([i \in DOMAIN us |->
        IF s.action = "split_detail" THEN DetailsOf(us[i]) ELSE ApportionsOf(us[i])])

-----------------------------------------------------------------------------
(* One step for one record                                                  *)

\* runStep: the expression is true of the kinds in s.when and cannot be evaluated
\* for those in s.fails; then comes before the match.
Outcome(s, u, budgeted) ==
    IF u.committed THEN "go_on"
    ELSE IF u.kind \in s.fails THEN "refuse"
    ELSE IF u.kind \notin s.when THEN "go_on"
    ELSE IF s.then # "" THEN s.then
    ELSE IF s.action = "match_info_to_budget" /\ u.kind \notin budgeted THEN "refuse"
    ELSE "go_on"

-----------------------------------------------------------------------------
Running == verdict = "none" /\ target <= Len(rules)
Steps == rules[target]

InStep == Running /\ step <= Len(Steps)

RunSplit ==
    /\ InStep
    /\ Steps[step].action \in Splits
    /\ units' = Split(Steps[step], units)
    /\ step' = step + 1
    /\ UNCHANGED <<form, rules, target, next, store, refusals, verdict, passed, seen>>

\* The other steps look at one unit after the other; each match reads the store.
Checks == InStep /\ Steps[step].action \notin Splits
ResultOfNext == Outcome(Steps[step], units[next], store)

\* The unit is kept, committed or not.
RunKeep ==
    /\ Checks /\ next <= Len(units)
    /\ ResultOfNext \in {"go_on", "commit"}
    /\ units' = [units EXCEPT ![next].committed = @ \/ ResultOfNext = "commit"]
    /\ next' = next + 1
    /\ UNCHANGED <<form, rules, target, step, store, refusals, verdict, passed, seen>>

\* Mutant of RunPass: the unit after the one that is removed is not looked at.
RunPassSkips ==
    /\ Checks /\ next <= Len(units)
    /\ ResultOfNext = "pass"
    /\ units' = RemoveAt(units, next)
    /\ next' = next + 1
    /\ passed' = passed \cup {units[next].label}
    /\ UNCHANGED <<form, rules, target, step, store, refusals, verdict, seen>>

\* The unit is not kept: no later step looks at it.
RunPass ==
    /\ Checks /\ next <= Len(units)
    /\ ResultOfNext = "pass"
    /\ units' = RemoveAt(units, next)
    /\ passed' = passed \cup {units[next].label}
    /\ UNCHANGED <<form, rules, target, step, next, store, refusals, verdict, seen>>

NextStep ==
    /\ Checks /\ next > Len(units)
    /\ step' = step + 1
    /\ next' = 1
    /\ UNCHANGED <<form, rules, target, units, store, refusals, verdict, passed, seen>>

NextTarget ==
    /\ target' = target + 1
    /\ step' = 1
    /\ next' = 1
    /\ units' = <<Whole>>
    /\ passed' = {}

\* The first record that is refused ends the target.
RunRefuse ==
    /\ Checks /\ next <= Len(units)
    /\ ResultOfNext = "refuse"
    /\ refusals' = Append(refusals, [target |-> target, label |-> units[next].label])
    /\ NextTarget
    /\ UNCHANGED <<form, rules, store, verdict, seen>>

TargetAccepts ==
    /\ Running /\ step > Len(Steps)
    /\ NextTarget
    /\ UNCHANGED <<form, rules, store, refusals, verdict, seen>>

\* Without any target the document is refused.
Decide ==
    /\ verdict = "none" /\ target > Len(rules)
    /\ verdict' = IF rules = <<>> \/ refusals # <<>> THEN "refuse" ELSE "accept"
    /\ UNCHANGED <<form, rules, target, step, next, units, store, refusals, passed, seen>>

\* A sync of another goroutine stores what it has read.
StoreReplaced ==
    /\ verdict = "none"
    /\ store' \in Stores \ {store}
    /\ seen' = seen \cup {store'}
    /\ UNCHANGED <<form, rules, target, step, next, units, refusals, verdict, passed>>

WorkflowNext ==
    \/ RunSplit \/ RunKeep \/ RunPass \/ RunRefuse \/ NextStep
    \/ TargetAccepts \/ Decide
    \/ StoreReplaced
WorkflowSpec == WorkflowInit /\ [][WorkflowNext]_workflowVars

-----------------------------------------------------------------------------
\* The records that step k looks at, if none was passed or committed before.
RecordsAt(steps, k) ==
    LET before == {steps[j].action : j \in 1 .. k - 1}
        details == IF "split_detail" \in before THEN ToSet(DetailsOf(Whole)) ELSE {Whole}
    IN  IF "split_apportion" \in before
        THEN UNION {ToSet(ApportionsOf(d)) : d \in details} ELSE details

\* A record and all that splits make of it.
PartsOf(u) ==
    LET details == ToSet(DetailsOf(u))
    IN  {u} \cup details \cup UNION {ToSet(ApportionsOf(d)) : d \in details}

\* A step before k has passed or committed u, or the record that u is a part of. Either
\* ends its checks: a committed record stays, but no later step looks at it (engine.go:107,
\* docs/工作流语法-人类版.md:163).
Ended(steps, k, u) ==
    \E j \in 1 .. k - 1 :
        /\ steps[j].action \notin Splits
        /\ \E v \in RecordsAt(steps, j) :
            u \in PartsOf(v) /\ Outcome(steps[j], v, {}) \in {"pass", "commit"}

\* What the steps say of each record on its own, with one store: the first step
\* that decides, by a pass, a commit or a refusal, does not refuse it.
Accepts(steps, budgeted) ==
    \A k \in DOMAIN steps : steps[k].action \notin Splits =>
        \A u \in RecordsAt(steps, k) :
            Outcome(steps[k], u, budgeted) = "refuse" => Ended(steps, k, u)

AllAccept(budgeted) == rules # <<>> /\ \A t \in DOMAIN rules : Accepts(rules[t], budgeted)

\* The engine runs each step for all records, while syncs replace the store. What
\* it decides is what it would decide for each record alone: no record's verdict
\* depends on another's. A document is accepted only if each record is, by some
\* store there was meanwhile, and refused only if some record is, by one of them:
\* exactly what the one store says, if none was replaced. A commit counts as the code
\* has it, as the end of a record's checks; see CommittedAreMatched.
VerdictOfEachRecord ==
    /\ verdict = "accept" => AllAccept(UNION seen)
    /\ verdict = "refuse" => ~AllAccept({k \in Kinds : \A b \in seen : k \in b})

\* The smallest parts of the document that a split can produce.
Parts ==
    IF form.details = <<>> THEN {<<>>}
    ELSE UNION {LET as == form.details[j].apportions
                IN  IF as = <<>> THEN {<<j>>} ELSE {<<j, k>> : k \in ToSet(WellFormed(as))}
                : j \in ToSet(WellFormed(form.details))}

\* However passes, commits and splits alternate, every part of the document is
\* covered by exactly one record that is still checked, committed or passed:
\* none escapes the steps that follow, none is checked twice.
NothingSlipsThrough ==
    verdict = "none" /\ target <= Len(rules) =>
        \A p \in Parts :
            Cardinality({l \in {u.label : u \in ToSet(units)} \cup passed : IsPrefix(l, p)}) = 1

\* README.md:115, README.md:178: a record that is committed goes straight to the final
\* match; docs/工作流语法-人类版.md:12: each record that remains has to match. Broken by
\* engine.go:107: no later step looks at a committed record, the match neither.
CommittedAreMatched ==
    verdict = "accept" =>
        \A t \in DOMAIN rules : \A j, k \in DOMAIN rules[t] :
            j < k /\ rules[t][j].action \notin Splits /\ rules[t][k].action = "match_info_to_budget" =>
                \A u \in RecordsAt(rules[t], j) :
                    Outcome(rules[t][j], u, {}) = "commit" /\ ~Ended(rules[t], j, u)
                        => Outcome(rules[t][k], u, UNION seen) # "refuse"

\* A document that is accepted is one that some store accepts. Not so: a sync
\* between two records has each of them found in another store.
OneStoreAccepts == verdict = "accept" => \E b \in seen : AllAccept(b)
=============================================================================
