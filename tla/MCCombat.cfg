CONSTANTS
    ann = ann
    bob = bob
    cat = cat
    dan = dan
    None = None
    Order <- OneAgainstTwo
    Side <- Sides
    Allowance <- Bosses
    TurnLimit = 1
    MaxHp = 1
    Damage = 1
    MaxHit = 2
    Reactions = {"evade", "overpower"}
    StoryValues = {0, 1}
    Elsewhere = {}
    Poisoned = {bob}
    Gone = {{ann}, {bob, cat}}
    Restless = {bob}
    MaxExposure = 2
    MaxExchange = 2
    MaxEpoch = 2
    Depth = 1
    Retained = 1
SPECIFICATION FairSpec
INVARIANTS
    TypeOK
    QueuesAgree
    NoneCornered
PROPERTIES
    CommitmentsStand
    TokensFresh
    LossStands
    ExchangesEnd
CHECK_DEADLOCK FALSE
