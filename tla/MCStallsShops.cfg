CONSTANTS
    ann = ann
    bob = bob
    acct1 = acct1
    acct2 = acct2
    plaza = plaza
    alley = alley
    hat = hat
    box1 = box1
    box2 = box2
    shop = shop
    Characters = {ann, bob}
    Accounts = {acct1, acct2}
    Rooms = {plaza}
    Holdings = {box1, box2}
    Items = {hat}
    Home = plaza
    Nobody = Nobody
    NoRoom = NoRoom
    MaxBalance = 3
    MintLimit = 2
    Fee <- UpkeepFee
    Amounts = {2}
    Rosters <- TwoRosters
    StoreIds = {1, 2}
    ListingIds = {1}
    HoldingOf <- Boxes
    MarketRooms = {plaza}
    StallSlots = 2
    MaxStalls = 1
    Properties = {shop}
    ShopRoom <- ToPlaza
    LastPeriod = 1
    Prices = {2}
    Lot = Lot
    Goods <- NoGoods
    NoProperty = NoProperty
    NoStore = NoStore
    Nothing = Nothing
    NoMove = NoMove
    NotBuying = NotBuying
SPECIFICATION Spec
INVARIANTS
    Inv
    SlotsDistinct
    ShopFollowsProperty
PROPERTIES
    SaleSettles
    NoSelfDealing
