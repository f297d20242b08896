SPECIFICATION Spec
CONSTANTS
    acme = acme
    bolt = bolt
    Company <- MCCompany
    Horizon <- MCHorizon
    MaxSession = 3
    MaxCrashes = 2
    VendorInOrder = FALSE
INVARIANTS
    TypeOK
    LedgerAccepted
    NothingRejected
    CaughtUp
PROPERTY ImplementsContract
