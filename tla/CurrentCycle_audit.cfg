SPECIFICATION Spec
CONSTANTS
    e1 = e1
    e2 = e2
    e3 = e3
    acme = acme
    bolt = bolt
    Event <- TwoEvents
    Company <- MCCompany
    CompanyOf <- TwoCompanyOf
    Strategy = {v5a, v5b}
    NoStrategy = none
    MaxSession = 3
    MaxOpenPositions = 2
    MaxDisturbances = 1
INVARIANT AcknowledgedMeansAudited
