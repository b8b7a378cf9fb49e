\* Two tabs in all, two tasks at a time; only the image of the page shown is kept.
CONSTANTS
    Doc <- Docs
    PageCount <- Pages
    Batch = 1
    Radius = 0
    MaxPages = 1
    MaxResident = 1
    MaxTabs = 2
    Replaceable = {"b"}
    MaxVersions = 2
    Tasks = {s1, s2}
SPECIFICATION Spec
SYMMETRY TaskSymmetry
CHECK_DEADLOCK FALSE
INVARIANTS TypeOK PagesBelongToTab ResidentPagesBounded
PROPERTIES SwitchKeepsLimit
