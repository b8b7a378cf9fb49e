\* Two devices add the same paper, each with a PDF of its own.
CONSTANTS
    Device = {1, 2}
    p1 = p1
    p2 = p2
    h1 = h1
    h2 = h2
    Paper = {p1, p2}
    Value = {h1, h2}
    NoValue = NoValue
    NoRow = NoRow
    Missing = Missing
    PathOf <- OnePath
    Additions <- TwoPdfs
    TTL = 2
    Interval = 1
    MaxAway = 1
    MaxTime = 2
    LastAdd = 1
    LastDelete = 2
    MaxFaults = 0
    OncePerUnit = TRUE
SPECIFICATION Spec
CHECK_DEADLOCK FALSE
PROPERTY KeepsItsPdf
