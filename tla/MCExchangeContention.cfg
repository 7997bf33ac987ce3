CONSTANTS
    ann = ann
    bob = bob
    cat = cat
    acct1 = acct1
    acct2 = acct2
    plaza = plaza
    alley = alley
    hat = hat
    Characters = {ann, bob}
    Accounts = {acct1, acct2}
    Rooms = {plaza}
    Holdings = {}
    Items = {hat}
    Home = plaza
    Nobody = Nobody
    MaxBalance = 3
    MintLimit = 4
    Fee <- TradeFee
    OfferIds = {1, 2}
    MaxOpenOffers = 1
    Sides <- SmallSides
    Amounts = {2}
    Rosters <- ApartOnly
    NoOffer = NoOffer
    NoRoom = NoRoom
    NotCollected = NotCollected
SPECIFICATION FairSpec
PROPERTIES
    SettlesInFull
    ItemsPassByConsent
    AnsweredOnce
    OffersEnd
