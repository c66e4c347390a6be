SPECIFICATION SmallSpec
CONSTANTS
    Users = {a1, a2, e1}
    Supers = {a1, a2}
    Names = {n1, n2}
    Sessions = {s1, s2}
    Requests = {r1, r2}
    None = None
SYMMETRY Symmetry
INVARIANTS SessionsHaveAccounts SignedOut
PROPERTIES SupersRemain
CHECK_DEADLOCK FALSE
