SPECIFICATION PartsSpec
CONSTANTS
    Docs = {e1, e2}
    Types = {t1, t2}
    OneType = {t1}
    Numbers = {n1}
    Contents = {c1, c2}
    OneContent = {c0}
    Uploads = {u1}
    Requests = {r1, r2}
    OneRequest = {r0}
    None = None
    MaxName = 3
    Scans = {"scan", "resolution"}
    ScanTypes = {"Resolution", "Ordinance"}
    MaxTmp = 2
    MaxDocs = 2
    MaxNumber = 3
SYMMETRY Symmetry
INVARIANTS RegisteredOnce FilesMatchRows BackupsHaveFiles RegisteredAsAsked RowsTellTruth
PROPERTIES Found
CHECK_DEADLOCK FALSE
