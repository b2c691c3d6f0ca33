SPECIFICATION Spec
CONSTANTS
    Process = {p1, p2}
    User = {u1, u2}
    Owner = u1
    Generations = 2
    Request = {r1, r2, r3}
    TokenTtl = 1
    SessionAge = 1
    KeyExpiry = {0, 1}
    MaxTime = 2
SYMMETRY Interchangeable
INVARIANTS StoredIsReadable CredentialsUsable LatecomersStayOut
PROPERTIES RevocationStands
