SPECIFICATION Spec
CONSTANTS
    e1 = e1
    e2 = e2
    e3 = e3
    acme = acme
    bolt = bolt
    Event <- MCEvent
    Company <- MCCompany
    CompanyOf <- MCCompanyOf
    Strategy = {v5a, v5b}
    NoStrategy = none
    MaxSession = 3
    MaxOpenPositions = 1
    MaxDisturbances = 2
SYMMETRY Interchangeable
INVARIANTS
    TypeOK
    NoEventLost
    OneOutcome
    ReceiptMatchesLedger
    NeverEvaluatedTwice
    EntryReservation
    CalibratedBeforeDecision
    HonestCompletion
