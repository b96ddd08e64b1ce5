--------------------------- MODULE MCRuleWorkflow ---------------------------
(* RuleWorkflow for all rule files of one target with up to three steps out *)
(* of eight, for some files of two targets, and for documents with up to    *)
(* two details.                                                             *)
EXTENDS RuleWorkflow

Step(action, when, then, fails) ==
    [action |-> action, when |-> when, then |-> then, fails |-> fails]

SomeSteps ==
    {Step("split_detail", Kinds, "", {}), Step("split_apportion", Kinds, "", {}),
     Step("match_info_to_budget", Kinds, "", {}),
     Step("", {"travel"}, "pass", {}), Step("", {"travel"}, "commit", {}),
     Step("", {"meal"}, "refuse", {}), Step("", {"meal"}, "pass", {"gift"}),
     Step("match_info_to_budget", {"meal"}, "", {})}

Targets == UNION {[1 .. n -> SomeSteps] : n \in 0 .. 3}
Usual == <<Step("", {"travel"}, "pass", {}), Step("split_detail", Kinds, "", {}),
           Step("", {"travel"}, "commit", {}), Step("split_apportion", Kinds, "", {}),
           Step("split_apportion", Kinds, "", {}), Step("match_info_to_budget", Kinds, "", {})>>
SomeRuleFiles ==
    {<<>>} \cup {<<t>> : t \in Targets} \cup
    {<<Usual, t>> : t \in UNION {[1 .. n -> SomeSteps] : n \in 0 .. 1}}

Detail(kind, apportions) == [kind |-> kind, apportions |-> apportions]
SomeDetails ==
    {Detail(Absent, <<>>), Detail("travel", <<>>), Detail("meal", <<"meal", "gift">>),
     Detail("gift", <<Malformed, "travel">>), Detail(Absent, <<Absent>>)}
SomeDocuments ==
    {[kind |-> k, details |-> ds] : k \in {"travel", "meal"},
        ds \in {<<>>} \cup {<<d>> : d \in SomeDetails \cup {Malformed}}
                      \cup {<<d, e>> : d, e \in SomeDetails}}
=============================================================================
