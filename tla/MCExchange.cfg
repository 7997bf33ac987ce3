CONSTANTS
    ann = ann
    bob = bob
    cat = cat
    acct1 = acct1
    acct2 = acct2
    plaza = plaza
    alley = alley
    hat = hat
    Characters = {ann, bob}
    Accounts = {acct1, acct2}
    Rooms = {plaza, alley}
    Holdings = {}
    Items = {hat}
    Home = plaza
    Nobody = Nobody
    MaxBalance = 3
    MintLimit = 4
    Fee <- TradeFee
    OfferIds = {1}
    MaxOpenOffers = 1
    Sides <- SmallSides
    Amounts = {2}
    Rosters <- TwoRosters
    NoOffer = NoOffer
    NoRoom = NoRoom
    NotCollected = NotCollected
SPECIFICATION Spec
INVARIANTS
    Inv
    BooksAgree
    Reconciled
    OpenOffersTogether
    NoneAcceptedAfterLeaving
PROPERTIES
    NoSelfDealing
