SPECIFICATION FairSpec
CONSTANTS
    Request = {r1, r2}
    DeliveryId = {d1}
    Faults = FALSE
    NoOne = NoOne
    NoId = NoId
INVARIANTS DuplicateIsAcknowledged
