CONSTANTS
    Packages = {p1, p2}
    Named = {p2}
    Requests = {r1}
    Background = bg
    Interval = 60
    MaxFails = 2
    MinBackoff = 1
    MaxBackoff = 10
SYMMETRY Symmetry
SPECIFICATION SyncSpec
INVARIANTS
    OneSyncAtATime
    StoreIsWhole
    AgreeUnlessFailing
