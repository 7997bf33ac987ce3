CONSTANTS
    ann = ann
    bob = bob
    cat = cat
    dan = dan
    None = None
    Order <- TwoAgainstTwo
    Side <- TwoSides
    Allowance <- TwoBosses
    TurnLimit = 1
    MaxHp = 1
    Damage = 1
    MaxHit = 1
    Reactions = {"resist"}
    StoryValues = {}
    Elsewhere = {}
    Poisoned = {}
    Gone = {}
    Restless = {}
    MaxExposure = 2
    MaxExchange = 2
    MaxEpoch = 1
    Depth = 1
    Retained = 1
SPECIFICATION Spec
INVARIANTS
    CanShelve
CHECK_DEADLOCK FALSE
