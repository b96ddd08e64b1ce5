--------------------------- MODULE MCBudgetSync ---------------------------
(* BudgetSync on a small instance: one package with an ID, one with a name   *)
(* only; requests are interchangeable.                                       *)
EXTENDS BudgetSync, Sequences, TLC

Symmetry == Permutations(Requests)

\* app.go:59: 1m, 2m, 4m, 8m, 10m, and then 10m for ever.
Commented == <<1, 2, 4, 8, 10>>

\* The loop and the two clamps of nextSyncBackoff compute the table of its
\* comment, never above the normal interval: for up to 12 failures and every
\* interval up to 70 minutes, 0 and those between two entries among them.
ASSUME WaitAsCommented ==
    \A n \in 0 .. 12, normal \in 0 .. 70 :
        NextSyncBackoff(n, normal) =
            IF n = 0 THEN normal
            ELSE AtMost(Commented[AtMost(n, Len(Commented))], normal)
===========================================================================
