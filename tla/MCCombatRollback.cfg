CONSTANTS
    ann = ann
    bob = bob
    cat = cat
    dan = dan
    None = None
    Order <- OneAgainstTwo
    Side <- Sides
    Allowance <- Bosses
    TurnLimit = 1
    MaxHp = 1
    Damage = 1
    MaxHit = 1
    Reactions = {"resist"}
    StoryValues = {}
    Elsewhere = {bob}
    Poisoned = {}
    Gone = {}
    Restless = {bob}
    MaxExposure = 2
    MaxExchange = 2
    MaxEpoch = 2
    Depth = 1
    Retained = 1
SPECIFICATION TwoFightsSpec
INVARIANTS
    ActiveOnce
CHECK_DEADLOCK FALSE
