SPECIFICATION Spec
CONSTANTS
    Request = {r1, r2, r3}
    Process = {p1}
    Key = {"login", "api"}
    Deployments <- FullDictionary
    Limit <- SmallLimits
    KeepWindows = 2
    MaxTime = 5
    MaxStall = 0
SYMMETRY RequestSymmetry
PROPERTIES OnlyDeadRowsDropped
