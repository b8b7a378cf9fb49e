SPECIFICATION Spec
CONSTANTS
    Device = {1, 2}
    Key = {1, 2}
    Junction = {1}
    Bare = {2}
    Value = {a, b}
    NoValue = NoValue
    NoRow = NoRow
    NoFile = NoFile
    Torn = Torn
    MaxTime = 1
    MaxHeader = 1
    MaxWrites = 2
    MaxFaults = 0
INVARIANTS
    TypeOK
    SameClockSameVersion
    AuthorLeads
    FileTrailsPublisher
PROPERTIES
    RowsOnlyAdvance
    MergeLandsWhole
    ImplementsRegisters
SYMMETRY ValueSymmetry
