CONSTANTS
    ann = ann
    bob = bob
    cat = cat
    acct1 = acct1
    acct2 = acct2
    plaza = plaza
    alley = alley
    hat = hat
    Characters = {ann, bob}
    Accounts = {acct1, acct2}
    Rooms = {plaza, alley}
    Holdings = {}
    Items = {hat}
    Home = plaza
    Nobody = Nobody
    MaxBalance = 3
    MintLimit = 4
    Fee <- TradeFee
    OfferIds = {1}
    MaxOpenOffers = 1
    Sides <- SmallSides
    Amounts = {1}
    Rosters <- ApartOnly
    NoOffer = NoOffer
    NoRoom = NoRoom
    NotCollected = NotCollected
SPECIFICATION ConcurrentSpec
INVARIANTS
    Reconciled
