SPECIFICATION Spec
CONSTANTS
    Docs = {d1, d2}
    MaxMonth = 12
SYMMETRY Symmetry
INVARIANTS OverviewIsGiven
