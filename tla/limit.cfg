SPECIFICATION Spec
CONSTANTS
    Request = {r1, r2, r3, r4}
    Process = {p1, p2}
    Key = {"login", "api"}
    Deployments <- AllDeployments
    Limit <- SmallLimits
    KeepWindows = 2
    MaxTime = 7
    MaxStall = 4
SYMMETRY RequestSymmetry
INVARIANTS LimitRespected
PROPERTIES RefusalsAreJust LossNeedsUnequalWindows
