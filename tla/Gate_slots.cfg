SPECIFICATION FairSpec
CONSTANTS
    Conns = {c1, c2, c3}
    Addresses = {a1, a2}
    NoAddress = NoAddress
    MaxConnections = 1
    MaxPerIp = 1
    Rates <- TwoRates
    MaxHistory = 1
    MaxTime = 3
    Prompt = TRUE
INVARIANT SlotsConserved
INVARIANT RateHonoured
PROPERTY HistoryKept
PROPERTY SweepChangesNoVerdict
PROPERTY ImplementsAdmission
PROPERTY AttemptEnds
