SPECIFICATION MCSpec
CONSTANTS
    Users = {u1, u2}
    Sessions = {s1, s2}
    Clicks = {click}
    Bell = bell
    None = None
    Picks = {p1, p2}
    Slots = {r1}
INVARIANT WorkspaceIsOwners
PROPERTIES EndedIsNoticed DialogSettles
CHECK_DEADLOCK FALSE
