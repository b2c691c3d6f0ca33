SPECIFICATION FairSpec
CONSTANTS
    Request = {r1, r2, r3}
    Capacities = {1, 2}
    Kinds <- MCKinds
INVARIANTS PoolConsistent HandlersAreIsolated
PROPERTIES EveryRequestEnds
