SPECIFICATION FairSpec
CONSTANTS
    Endpoint = {e1, e2, e3}
    MaxAttempts = 2
    MaxEdits = 1
    PrivateAllowed = FALSE
    Nobody = Nobody
INVARIANTS DeliveriesConsistent CommittedIsComplete EveryTargetTried FinalAnswerIsLast OnlyCheckedAddress
PROPERTIES DispatchEnds
