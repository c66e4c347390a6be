SPECIFICATION Spec
CONSTANTS
    Requests = {r1}
    Types = {"Ordinance", "Resolution", "Letter Request"}
    Asked = {"First Reading", "In Committee", "Approved", "Sent to the Mayor"}
    MaxChanges = 3
    Today = 2
INVARIANTS PendingIsNotEnacted
