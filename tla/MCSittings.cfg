SPECIFICATION PartsSpec
CONSTANTS
    Requests = {r1, r2}
    Members = {m1, m2}
    Sessions = {s1, s2}
    Terms = {t1, t2}
    Committees = {c1}
    Accounts = {a1}
    Days = {1, 2, 3, 4}
    Leaving = {2}
    MaxFills = 3
    MaxNumber = 2
    MaxEntries = 2
    Recovery = {c1}
    MaxFailures = 2
    Window = 1
    Given = 1
    MaxNow = 3
SYMMETRY Symmetry
INVARIANTS VotesAreCounted SessionsAreRecorded SeatsAreApart LoginsAreGuarded
PROPERTIES HeldStays ChairsAreInOffice
CHECK_DEADLOCK FALSE
