CONSTANTS
    ann = ann
    bob = bob
    Characters = {ann, bob}
    Periods = {0, 1}
    MaxAttempts = 2
    MaxPending = 2
    Weekly = 2
    Cap = 3
    TaperNum = 1
    TaperDen = 2
    Trades = {4}
    MaxPurse = 4
SPECIFICATION FairSpec
INVARIANTS
    Inv
    PaidOnce
    NoneForgotten
    QueueInOrder
    GivenUpLate
PROPERTIES
    IncomeWithinCap
    QueueDrains
