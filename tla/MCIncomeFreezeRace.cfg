CONSTANTS
    ann = ann
    bob = bob
    Characters = {ann, bob}
    Periods = {0, 1}
    MaxAttempts = 2
    MaxPending = 2
    Weekly = 2
    Cap = 4
    TaperNum = 1
    TaperDen = 2
    Trades = {}
    MaxPurse = 4
SPECIFICATION ThreadsSpec
INVARIANTS
    NoneForgotten
