---------------------------- MODULE MCBudgetTree ----------------------------
(* BudgetTree on small budgets, with pages of two rows.        *)
EXTENDS BudgetTree

\* A budget without nodes: the sync refuses it.
Empty == [kids  |-> [n \in Parents |-> <<>>],
          codes |-> [n \in Nodes |-> <<"p">>]]

\* Codes of one content each, some of which occur in two branches.
OneContent == [a |-> <<"p">>, b |-> <<"q">>, c |-> <<"r">>, d |-> <<"p">>, e |-> <<"s">>,
               f |-> <<"t">>, g |-> <<"s">>, h |-> <<"r">>, i |-> <<"t">>]

\* Two pages at the top and below a; three nodes are drilled at a time.
Wide == [kids  |-> [Empty.kids EXCEPT !["top"] = <<"a", "b", "c">>, !["a"] = <<"d", "e", "f">>,
                                      !["b"] = <<"g", "h">>, !["c"] = <<"i">>],
         codes |-> OneContent]

\* Three pages, the last one not full, and a second layer with pages below.
Flat == [kids  |-> [Empty.kids EXCEPT !["top"] = <<"a", "b", "c", "e", "f">>,
                                      !["c"] = <<"g", "h", "i">>, !["g"] = <<"d">>],
         codes |-> OneContent]

\* Nodes with two contents, above other nodes and as leaves.
Multi == [kids  |-> [Empty.kids EXCEPT !["top"] = <<"a", "b">>, !["a"] = <<"c", "d">>,
                                       !["b"] = <<"e", "f">>, !["e"] = <<"g", "h">>],
          codes |-> [OneContent EXCEPT !["a"] = <<"p", "q">>, !["b"] = <<"r">>,
                                       !["c"] = <<"s", "t">>, !["e"] = <<"t", "s">>]]

SmallBudgets == {Empty, Wide, Flat, Multi}
=============================================================================
