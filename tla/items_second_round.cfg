SPECIFICATION FairSpec
CONSTANTS
    Request = {r1, r2}
    ItemId = {i1}
    User = {ann}
    Admin = {}
    Text = {t1, t2}
    Calls <- StatusCalls
    NoRow = NoRow
    NoOne = NoOne
    NoCall = NoCall
    i1 = i1
    ann = ann
    bob = bob
    root = root
    t1 = t1
    t2 = t2
PROPERTIES NoSecondRound
