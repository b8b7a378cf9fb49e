SPECIFICATION Spec
CONSTANTS
    Device = {1, 2}
    Tag = {1, 2}
    Before = {1}
    Value = {a, b}
    NoValue = NoValue
    NoRow = NoRow
    Ops <- CreateRenameAndTag
    MaxTime = 1
    MaxWrites = 3
    MaxCopies = 1
SYMMETRY Symmetry
INVARIANTS
    TypeOK
    MergeNeverBlocked
PROPERTIES
    MembersAdvance
    MembershipMoves
CHECK_DEADLOCK FALSE
