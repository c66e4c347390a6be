SPECIFICATION Spec
CONSTANTS
    Measures = {m1, m2}
    Ordinances = {}
    Sessions = {s1}
    Requests = {r1}
    Numbers = {1}
    OfYear = {}
    Outcomes = {"Adopted"}
    Asked = {"In Committee"}
    Days = {1}
    MaxChanges = 2
    MaxOutcomes = 1
INVARIANTS NumbersAreUnique
