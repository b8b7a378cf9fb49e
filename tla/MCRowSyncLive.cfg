SPECIFICATION FairSpec
CONSTANTS
    Device = {1, 2}
    Key = {1}
    Junction = {}
    Bare = {}
    Value = {a}
    NoValue = NoValue
    NoRow = NoRow
    NoFile = NoFile
    Torn = Torn
    MaxTime = 1
    MaxHeader = 1
    MaxWrites = 2
    MaxFaults = 1
PROPERTIES
    Converges
