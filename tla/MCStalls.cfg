CONSTANTS
    ann = ann
    bob = bob
    acct1 = acct1
    acct2 = acct2
    plaza = plaza
    alley = alley
    hat = hat
    box1 = box1
    box2 = box2
    shop = shop
    Characters = {ann, bob}
    Accounts = {acct1, acct2}
    Rooms = {plaza, alley}
    Holdings = {box1}
    Items = {hat}
    Home = alley
    Nobody = Nobody
    NoRoom = NoRoom
    MaxBalance = 3
    MintLimit = 2
    Fee <- SaleFee
    Amounts = {2}
    Rosters <- TwoRosters
    StoreIds = {1}
    ListingIds = {1, 2}
    HoldingOf <- OneBox
    MarketRooms = {plaza}
    StallSlots = 1
    MaxStalls = 1
    Properties = {}
    ShopRoom <- NoShops
    LastPeriod = 0
    Prices = {2}
    Lot = Lot
    Goods <- AnnHasLot
    NoProperty = NoProperty
    NoStore = NoStore
    Nothing = Nothing
    NoMove = NoMove
    NotBuying = NotBuying
SPECIFICATION Spec
INVARIANTS
    StockBacked
    StaffCanClose
PROPERTIES
    ListingEndsOnce
    LotsConserved
    ImplementsEscrow
