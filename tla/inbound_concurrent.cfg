SPECIFICATION FairSpec
CONSTANTS
    Request = {r1, r2, r3}
    DeliveryId = {d1, d2}
    Faults = TRUE
    NoOne = NoOne
    NoId = NoId
INVARIANTS ReceiptConsistent
PROPERTIES ImplementsAtMostOnce EveryDeliveryEnds
