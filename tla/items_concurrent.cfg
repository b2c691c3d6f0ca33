SPECIFICATION Spec
CONSTANTS
    Request = {r1, r2, r3}
    ItemId = {i1}
    User = {ann, bob, root}
    Admin = {root}
    Text = {t1, t2}
    Calls <- CallsOnOneItem
    NoRow = NoRow
    NoOne = NoOne
    NoCall = NoCall
    i1 = i1
    ann = ann
    bob = bob
    root = root
    t1 = t1
    t2 = t2
SYMMETRY RequestSymmetry
INVARIANTS TypeOK NothingFromRolledBack AckedIsDurable ArchivedIsStamped
PROPERTIES EditKeepsStatus OnlyCreateRevives CreateNeverOverwrites NoStepBack OwnerScoped
    ImplementsAtomicItems
