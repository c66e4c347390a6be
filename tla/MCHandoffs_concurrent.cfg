SPECIFICATION FairSpec
CONSTANTS
    Offices = {a, b}
    NoOffice = none
    Requests = {r1, r2}
    MaxHandoffs = 2
    Nowhere = nowhere
    PASSED_ON_LIMIT = 1
INVARIANTS TypeOK AtMostOnePending SenderStillHolds ReceiptsMatch ScreensAgree
PROPERTIES EndsAreFinal CustodyMovesByReceipt SentByHolder RequestsEnd
