SPECIFICATION FairSpec
CONSTANTS
    Device = {1, 2}
    Col = {c, e}
    Flag = Flag
    Older = {}
    Value = {a, b}
    NoValue = NoValue
    NoRow = NoRow
    Before <- NewOrSynced
    MaxTime = 1
    MaxWrites = 2
    MaxCopies = 1
    MaxFaults = 1
INVARIANTS
    TypeOK
    SameClockSameVersion
PROPERTIES
    PlaceholdersNeverWin
    ImplementsRegisters
    Converges
