CONSTANTS
    ann = ann
    bob = bob
    cat = cat
    None = None
    Schedules <- Calendars
    Interest <- Interested
    Cap <- Caps
    Staff = {"trial", "final", "lottery", "matinee", "gala"}
    StaffHosted = {"trial", "final", "lottery", "matinee", "gala"}
    Members <- Festival
    Veterans <- Tokened
    MaxTokens = 2
    MaxCrashes = 1
SPECIFICATION Spec
INVARIANTS
    Inv
    LotteryWithinCap
    NoneWaitsByAFreeSeat
    OneSeatPerCluster
PROPERTIES
    TokensBuySeats
    NoBetterSeatFree
CHECK_DEADLOCK FALSE
