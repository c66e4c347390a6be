SPECIFICATION PartsSpec
CONSTANTS
    Measures = {m1}
    Ordinances = {m1}
    Sessions = {s1, s2}
    Numbers = {1}
    OfYear = {m1}
    Outcomes = {"Referred to committee", "Approved on third reading", "Deferred"}
    FewOutcomes = {"Referred to committee", "Deferred"}
    Outside = {"Second Reading", "Adopted"}
    SessionDays = {1, 2}
    OneDay = {1}
    MaxMoves = 4
    MaxOutcomes = 2
    Requests = {r1}
    Types = {"Ordinance", "Resolution", "Letter Request"}
    Asked = {"In Committee", "Approved", "Sent to the Mayor"}
    MaxChanges = 3
    Today = 2
SYMMETRY Symmetry
INVARIANTS HistoryIsRecord ViewsAgree OutcomesAreLegal SessionsFitHistory
PROPERTIES EntriesAreDue HeldIsRecord
