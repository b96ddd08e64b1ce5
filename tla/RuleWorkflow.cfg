CONSTANTS
    Kinds = {"travel", "meal", "gift"}
    Absent = Absent
    Malformed = Malformed
    Stores = {{"meal"}, {"travel"}}
    Documents <- SomeDocuments
    RuleFiles <- SomeRuleFiles
SPECIFICATION WorkflowSpec
INVARIANTS
    VerdictOfEachRecord
    NothingSlipsThrough
CHECK_DEADLOCK FALSE
