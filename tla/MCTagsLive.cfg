SPECIFICATION FairSpec
CONSTANTS
    Device = {1, 2}
    Tag = {1, 2}
    Before = {}
    Value = {a}
    NoValue = NoValue
    NoRow = NoRow
    Ops <- AllOps
    MaxTime = 1
    MaxWrites = 3
    MaxCopies = 1
PROPERTIES
    TagsConverge
CHECK_DEADLOCK FALSE
