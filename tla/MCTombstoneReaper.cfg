\* Two devices, three ticks of each within a tombstone's lifetime, one PDF for two papers, and a fault.
CONSTANTS
    Device = {1, 2}
    p1 = p1
    p2 = p2
    h1 = h1
    h2 = h2
    Paper = {p1, p2}
    Value = {h1}
    NoValue = NoValue
    NoRow = NoRow
    Missing = Missing
    PathOf <- OwnPaths
    Additions <- OnePdf
    TTL = 3
    Interval = 1
    MaxAway = 1
    MaxTime = 9
    LastAdd = 1
    LastDelete = 1
    MaxFaults = 1
    OncePerUnit = TRUE
SPECIFICATION FairSpec
CHECK_DEADLOCK FALSE
INVARIANTS TypeOK NoBlobForgotten
PROPERTIES ReapedWasSeen PdfsArrive
