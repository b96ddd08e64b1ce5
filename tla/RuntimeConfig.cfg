CONSTANTS
    Keys = {k1}
    Handlers = {h1}
    RuleSets = {NoTargets, edited}
    NoTargets = NoTargets
    None = None
    MaxEdits = 1
SPECIFICATION RuntimeFairSpec
INVARIANTS
    AgreesUnlessOverlapped
    PairedUnlessSwapped
PROPERTIES
    ReloadRepairs
