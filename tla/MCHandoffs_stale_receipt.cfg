SPECIFICATION Spec
CONSTANTS
    Offices = {a, b}
    NoOffice = none
    Requests = {r1, r2}
    MaxHandoffs = 3
    Nowhere = nowhere
    PASSED_ON_LIMIT = 1
SYMMETRY Symmetry
PROPERTY ReceiptTransfersCustody
