SPECIFICATION Spec
CONSTANTS
    Device = {1, 2}
    Col = {c, e}
    Flag = Flag
    Older = {2}
    Value = {a, b}
    NoValue = NoValue
    NoRow = NoRow
    Before <- NewPaper
    MaxTime = 1
    MaxWrites = 3
    MaxCopies = 1
    MaxFaults = 0
PROPERTIES
    OlderIsHeard
SYMMETRY Symmetry
