SPECIFICATION Spec
CONSTANTS
    Device = {1, 2}
    Key = {1}
    Junction = {}
    Bare = {}
    Value = {a, b}
    NoValue = NoValue
    NoRow = NoRow
    NoFile = NoFile
    Torn = Torn
    MaxTime = 1
    MaxHeader = 1
    MaxWrites = 2
    MaxFaults = 1
INVARIANTS
    ClockDecidesIdentically
SYMMETRY ValueSymmetry
