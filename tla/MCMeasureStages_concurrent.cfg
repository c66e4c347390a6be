SPECIFICATION Spec
CONSTANTS
    Requests = {r1, r2}
    Types = {"Resolution", "Letter Request"}
    Asked = {"In Committee", "Committee Report"}
    MaxChanges = 3
    Today = 1
SYMMETRY Symmetry
INVARIANTS EntriesAreLegal StageIsRecorded
