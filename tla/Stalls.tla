------------------------------- MODULE Stalls -------------------------------
(***************************************************************************)
(* Storefronts (evennia_economy/stalls.py, shops.py, movement.py): market  *)
(* stalls that characters claim, shops that follow a property, stock that  *)
(* is reserved when it is listed, and the guard that keeps it so.  A buyer *)
(* reads a listing, and its owner, before anything is locked.              *)
(***************************************************************************)
EXTENDS Economy

CONSTANTS
    StoreIds,      \* bound: 1..n, the Storefront rows ever made
    ListingIds,    \* bound: 1..n, the Listing rows ever made
    HoldingOf,     \* each storefront's stock container
    MarketRooms,   \* rooms tagged "market"
    StallSlots,    \* RP_ECONOMY_STALL_SLOTS
    MaxStalls,     \* RP_ECONOMY_MAX_STALLS
    Properties,    \* Building properties whose purpose is "shop"
    ShopRoom,      \* where a property's entrance leads
    LastPeriod,    \* bound: income periods
    Prices,        \* bound: listing prices
    Lot,           \* one lot of a resource counter
    Goods,         \* bound: the counters characters start with
    NoProperty, NoStore, Nothing, NoMove, NotBuying

ASSUME StallsAssumption ==
    /\ StoreIds \subseteq Nat /\ IsFiniteSet(StoreIds)
    /\ ListingIds \subseteq Nat /\ IsFiniteSet(ListingIds)
    /\ HoldingOf \in [StoreIds -> Holdings]
    /\ \A s, t \in StoreIds : HoldingOf[s] = HoldingOf[t] => s = t
    /\ MarketRooms \subseteq Rooms
    /\ StallSlots \in Nat /\ MaxStalls \in Nat /\ LastPeriod \in Nat
    /\ ShopRoom \in [Properties -> Rooms]
    /\ Prices \subseteq Nat \ {0}
    /\ Goods \subseteq [Characters -> Nat]
    /\ NoProperty \notin Properties /\ NoStore \notin StoreIds
    /\ Lot \notin Items /\ Nothing \notin Items \cup {Lot}
    /\ NoMove \notin ItemPlaces

VARIABLES
    stores,      \* the Storefront table
    listings,    \* the Listing table
    goods,       \* lots of the resource each character holds
    catalogue,   \* the resource: "active", "archived", or its provider "missing"
    estate,      \* each shop property: its owner and state
    period,      \* the current income period
    buying,      \* the listing and owner a buyer has read but not locked
    saving       \* where an item is being moved to, past the guard, unsaved

stallVars == <<stores, listings, goods, catalogue, estate, period, buying, saving>>
vars == <<economyVars, stallVars>>

people == <<frozen, live, place, plays>>
setting == <<catalogue, estate, period, saving>>

Slots == 1..(StallSlots + Cardinality(StoreIds))

Store == [kind     : {"none", "stall", "shop"},
          status   : {"none", "open", "closed"},
          owner    : Characters \cup {Nobody},
          room     : Rooms \cup {NoRoom},
          slot     : Slots \cup {0},
          property : Properties \cup {NoProperty},
          paid     : 0..LastPeriod]     \* upkeep_period

Listing == [status : {"none", "active", "sold", "returned"},
            store  : StoreIds \cup {NoStore},
            asset  : Items \cup {Lot, Nothing},
            price  : Nat]

NoStorefront == [kind |-> "none", status |-> "none", owner |-> Nobody, room |-> NoRoom,
                 slot |-> 0, property |-> NoProperty, paid |-> 0]

Unlisted == [status |-> "none", store |-> NoStore, asset |-> Nothing, price |-> 0]

Open(s) == stores[s].status = "open"
Active(l) == listings[l].status = "active"
Stock(s) == {l \in ListingIds : Active(l) /\ listings[l].store = s}
Reserved == {i \in Items : \E l \in ListingIds : Active(l) /\ listings[l].asset = i}
Fresh(table, ids) == {n \in ids : /\ table[n].status = "none"
                                  /\ \A m \in ids : m < n => table[m].status # "none"}

(* next(n for n in 1.. if n not in occupied) *)
LowestFree(room) ==
    LET free == {n \in Slots : ~\E s \in StoreIds :
                    Open(s) /\ stores[s].room = room /\ stores[s].slot = n}
    IN  CHOOSE n \in free : \A m \in free : n <= m

(* shops.operational: a shop trades for the property's owner while it is live. *)
Operational(s) ==
    stores[s].kind = "shop" =>
        /\ stores[s].owner # Nobody
        /\ estate[stores[s].property] = [owner |-> stores[s].owner, state |-> "live"]

(* stalls._store, for the owner: here, and unless recovering, trading. *)
Manages(c, s, recovering) ==
    /\ Open(s)
    /\ stores[s].owner = c
    /\ place[c] = stores[s].room
    /\ recovering \/ Operational(s)

Charged(kind, c) ==
    LET paid == ChargeFee(bank, kind, c) IN Committable(paid) /\ bank' = paid

-----------------------------------------------------------------------------
(* Listing and returning stock.                                            *)

(* Mutant of Returnable: the refund is an ordinary grant. *)
ReturnableByGrant(s, rows) ==
    \A l \in rows : IF listings[l].asset = Lot THEN catalogue = "active"
                    ELSE carrier[listings[l].asset] = HoldingOf[s]

(* _return succeeds: the item is still there, or its provider installed. *)
Returnable(s, rows) ==
    \A l \in rows : IF listings[l].asset = Lot THEN catalogue # "missing"
                    ELSE carrier[listings[l].asset] = HoldingOf[s]

Return(s, rows) ==
    /\ Returnable(s, rows)
    /\ listings' = [l \in ListingIds |-> IF l \in rows THEN [listings[l] EXCEPT !.status = "returned"]
                                         ELSE listings[l]]
    /\ carrier' = [i \in Items |-> IF \E l \in rows : listings[l].asset = i
                                   THEN stores[s].owner ELSE carrier[i]]
    /\ goods' = [goods EXCEPT ![stores[s].owner] =
                    @ + Cardinality({l \in rows : listings[l].asset = Lot})]

(* list_stock, after assets.check: an item moves, a lot is debited. *)
ListStock(c, s, asset, price) ==
    /\ ~frozen
    /\ c \in live
    /\ Manages(c, s, FALSE)
    /\ IF asset = Lot THEN catalogue = "active" /\ goods[c] > 0 ELSE carrier[asset] = c
    /\ Charged("listing", c)
    /\ \E l \in Fresh(listings, ListingIds) :
          listings' = [listings EXCEPT ![l] =
              [status |-> "active", store |-> s, asset |-> asset, price |-> price]]
    /\ carrier' = [i \in Items |-> IF i = asset THEN HoldingOf[s] ELSE carrier[i]]
    /\ goods' = [goods EXCEPT ![c] = @ - IF asset = Lot THEN 1 ELSE 0]
    /\ UNCHANGED <<people, setting, stores, buying>>

(* Mutant of Unlistable: the listing's status is not read again. *)
UnlistableTwice(l) == listings[l].status # "none"

Unlistable(l) == Active(l)

Unlist(c, l) ==
    LET s == listings[l].store IN
    /\ ~frozen
    /\ c \in live
    /\ Unlistable(l)
    /\ Manages(c, s, TRUE)
    /\ Return(s, {l})
    /\ UNCHANGED <<people, setting, bank, stores, buying>>

-----------------------------------------------------------------------------
(* Buying.                                                                 *)

(* buy before its transaction. *)
BuyRead(c, l) ==
    /\ c \in live
    /\ buying[c] = NotBuying
    /\ listings[l].status # "none"
    /\ stores[listings[l].store].owner # Nobody
    /\ buying' = [buying EXCEPT ![c] = [listing |-> l, owner |-> stores[listings[l].store].owner]]
    /\ UNCHANGED <<economyVars, setting, stores, listings, goods>>

(* Mutant of Saleable: the owner read before the locks is trusted. *)
SaleableByFormerOwner(c) ==
    LET l == buying[c].listing  s == listings[l].store IN
    /\ Active(l) /\ Open(s)
    /\ Operational(s)
    /\ place[c] = stores[s].room
    /\ c # buying[c].owner /\ ~SameAccount(c, buying[c].owner)
    /\ IF listings[l].asset = Lot THEN catalogue = "active"
       ELSE carrier[listings[l].asset] = HoldingOf[s]

(* All that buy checks again under the locks. *)
Saleable(c) ==
    LET l == buying[c].listing  s == listings[l].store IN
    /\ Active(l) /\ Open(s) /\ stores[s].owner = buying[c].owner
    /\ Operational(s)
    /\ place[c] = stores[s].room
    /\ c # buying[c].owner /\ ~SameAccount(c, buying[c].owner)
    /\ IF listings[l].asset = Lot THEN catalogue = "active"
       ELSE carrier[listings[l].asset] = HoldingOf[s]

(* The seller's fee comes out of the proceeds. *)
Paid(c) ==
    LET row == listings[buying[c].listing]
        owner == buying[c].owner
        moved == Adjust(Adjust(bank, c, -row.price), owner, row.price)
    IN  Journal(ChargeFee(moved, "sale", owner), c, owner, row.price)

Deliver(c) ==
    LET l == buying[c].listing IN
    /\ Committable(Paid(c)) /\ bank' = Paid(c)
    /\ listings' = [listings EXCEPT ![l].status = "sold"]
    /\ carrier' = [i \in Items |-> IF i = listings[l].asset THEN c ELSE carrier[i]]
    /\ goods' = [goods EXCEPT ![c] = @ + IF listings[l].asset = Lot THEN 1 ELSE 0]
    /\ buying' = [buying EXCEPT ![c] = NotBuying]
    /\ UNCHANGED <<people, setting, stores>>

Buy(c) == ~frozen /\ buying[c] # NotBuying /\ Saleable(c) /\ Deliver(c)

(* The transaction raised: a check, a missing provider, a host's hook. *)
BuyRefused(c) ==
    /\ buying[c] # NotBuying
    /\ buying' = [buying EXCEPT ![c] = NotBuying]
    /\ UNCHANGED <<economyVars, setting, stores, listings, goods>>
-----------------------------------------------------------------------------
(* Storefronts.                                                            *)

OpenStore(s, row) == stores' = [stores EXCEPT ![s] = row]

StallsOf(c) == {s \in StoreIds : Open(s) /\ stores[s].kind = "stall" /\ stores[s].owner = c}

BelowStallCap(c) == Cardinality(StallsOf(c)) < MaxStalls

Claim(c) ==
    /\ ~frozen
    /\ c \in live
    /\ place[c] \in MarketRooms
    /\ BelowStallCap(c)
    /\ LowestFree(place[c]) <= StallSlots
    /\ Charged("stall_claim", c)
    /\ \E s \in Fresh(stores, StoreIds) : OpenStore(s,
          [kind |-> "stall", status |-> "open", owner |-> c, room |-> place[c],
           slot |-> LowestFree(place[c]), property |-> NoProperty, paid |-> period])
    /\ UNCHANGED <<people, setting, carrier, listings, goods, buying>>

(* Mutant of Recalled: a closing storefront keeps its stock. *)
RecalledNone(s) == {}

Recalled(s) == Stock(s)

(* _close: all active stock goes back, at no fee, or nothing closes. *)
Close(s) ==
    /\ Return(s, Recalled(s))
    /\ stores' = [stores EXCEPT ![s].status = "closed"]
    /\ UNCHANGED <<people, setting, bank, buying>>

CloseOwn(c, s) == ~frozen /\ c \in live /\ Manages(c, s, TRUE) /\ Close(s)

(* Staff, remotely and under a freeze; a host's recover does the same. *)
StaffClose(s) == Open(s) /\ stores[s].owner # Nobody /\ Close(s)

UpkeepDue(s) ==
    /\ ~frozen
    /\ Open(s) /\ stores[s].owner # Nobody
    /\ stores[s].paid # period
    /\ Operational(s)

(* run_upkeep for one store; a shortfall changes nothing but a review flag. *)
Upkeep(s) ==
    /\ UpkeepDue(s)
    /\ Charged(IF stores[s].kind = "shop" THEN "shop_upkeep" ELSE "stall_upkeep", stores[s].owner)
    /\ stores' = [stores EXCEPT ![s].paid = period]
    /\ UNCHANGED <<people, setting, carrier, listings, goods, buying>>

NewPeriod ==
    /\ period < LastPeriod
    /\ period' = period + 1
    /\ UNCHANGED <<economyVars, stores, listings, goods, catalogue, estate, buying, saving>>
-----------------------------------------------------------------------------
(* Shops.                                                                  *)

ShopsOf(p) == {s \in StoreIds : stores[s].property = p}

(* create_for_property, for a live property of owner c with no storefront. *)
CreateForProperty(p, c) ==
    /\ ShopsOf(p) = {}
    /\ c \in live
    /\ ~frozen
    /\ Charged("shop_approval", c)
    /\ \E s \in Fresh(stores, StoreIds) : OpenStore(s,
          [kind |-> "shop", status |-> "open", owner |-> c, room |-> ShopRoom[p],
           slot |-> LowestFree(ShopRoom[p]), property |-> p, paid |-> period])

(* Building promotes an approved property; on_promoted opens its shop. *)
Promote(p, c) ==
    /\ estate[p].state = "none"
    /\ estate' = [estate EXCEPT ![p] = [owner |-> c, state |-> "live"]]
    /\ CreateForProperty(p, c)
    /\ UNCHANGED <<people, carrier, listings, goods, catalogue, period, buying, saving>>

(* +shop/reconcile, for a property promoted before the economy was there. *)
Reconcile(p) ==
    /\ estate[p].state = "live"
    /\ CreateForProperty(p, estate[p].owner)
    /\ UNCHANGED <<people, setting, carrier, listings, goods, buying>>

(* Building archives or restores the property; no signal reaches the shop. *)
(* Its own conditions (agreements, passages) are left out: this is more    *)
(* than it allows.                                                         *)
Suspend(p) ==
    /\ estate[p].state # "none"
    /\ estate' = [estate EXCEPT ![p].state = IF @ = "live" THEN "suspended" ELSE "live"]
    /\ UNCHANGED <<economyVars, stores, listings, goods, catalogue, period, buying, saving>>

(* Mutant of PassShop: the store keeps its owner. *)
PassShopUnsaved(s, new) == UNCHANGED stores

PassShop(s, new) == stores' = [stores EXCEPT ![s].owner = new]

(* Mutant of PassStock: accounts are not compared. *)
PassStockToAnyAccount(s, new, disposition) ==
    \/ disposition = "return" /\ Return(s, Stock(s))
    \/ /\ disposition = "transfer"
       /\ \A l \in Stock(s) : listings[l].asset # Lot => carrier[listings[l].asset] = HoldingOf[s]
       /\ UNCHANGED <<listings, carrier, goods>>

(* on_transferring, for the property's shop, open or closed. *)
PassStock(s, new, disposition) ==
    \/ disposition = "return" /\ Return(s, Stock(s))
    \/ /\ disposition = "transfer"
       /\ Stock(s) # {} => ~SameAccount(stores[s].owner, new)
       /\ \A l \in Stock(s) : listings[l].asset # Lot => carrier[listings[l].asset] = HoldingOf[s]
       /\ UNCHANGED <<listings, carrier, goods>>

(* Building's transfer; the signal's handler runs in its transaction. *)
Transfer(p, new, disposition) ==
    /\ estate[p].state # "none"
    /\ new \in live
    /\ estate' = [estate EXCEPT ![p].owner = new]
    /\ \/ ShopsOf(p) = {} /\ UNCHANGED <<stores, listings, carrier, goods>>
       \/ \E s \in ShopsOf(p) :
             /\ stores[s].owner # Nobody
             /\ PassStock(s, new, disposition)
             /\ PassShop(s, new)
    /\ UNCHANGED <<people, bank, catalogue, period, buying, saving>>

(* Mutant of ReopeningSlot: the shop takes its old slot again. *)
OldSlot(s) == stores[s].slot

ReopeningSlot(s) == LowestFree(stores[s].room)

(* The property's owner, from anywhere; an open shop is left as it is. *)
Reopen(c, s) ==
    /\ ~frozen
    /\ c \in live
    /\ stores[s].kind = "shop" /\ stores[s].status = "closed" /\ stores[s].owner = c
    /\ Operational(s)
    /\ stores' = [stores EXCEPT ![s].status = "open", ![s].slot = ReopeningSlot(s)]
    /\ UNCHANGED <<economyVars, setting, listings, goods, buying>>
-----------------------------------------------------------------------------
(* The world around the storefronts.                                       *)

(* pre_save refuses to move an item out of a stall that lists it. *)
Guarded(i) ==
    \E s \in StoreIds : carrier[i] = HoldingOf[s] /\ \E l \in Stock(s) : listings[l].asset = i

(* Mutant of Unguarded: the guard looks for the holding's own key. *)
UnguardedAlways(i) == TRUE

Unguarded(i) == ~Guarded(i)

(* Get, drop, teleport: any save of an item's location, guard and all. *)
Relocate(i, to) ==
    /\ saving[i] = NoMove
    /\ to # carrier[i]
    /\ to \in live \cup Rooms
    /\ Unguarded(i)
    /\ carrier' = [carrier EXCEPT ![i] = to]
    /\ UNCHANGED <<people, bank, stallVars>>

(* The same save in two steps: the guard reads, ... *)
RelocateChecked(i, to) ==
    /\ saving[i] = NoMove
    /\ to # carrier[i]
    /\ to \in live \cup Rooms
    /\ Unguarded(i)
    /\ saving' = [saving EXCEPT ![i] = to]
    /\ UNCHANGED <<economyVars, stores, listings, goods, catalogue, estate, period, buying>>

(* ... and the row is written without looking again. *)
RelocateSaved(i) ==
    /\ saving[i] \in live \cup Rooms
    /\ carrier' = [carrier EXCEPT ![i] = saving[i]]
    /\ saving' = [saving EXCEPT ![i] = NoMove]
    /\ UNCHANGED <<people, bank, stores, listings, goods, catalogue, estate, period, buying>>

Walk(c, room) ==
    /\ c \in live
    /\ place[c] # room
    /\ place' = [place EXCEPT ![c] = room]
    /\ UNCHANGED <<bank, frozen, live, plays, carrier, stallVars>>

(* Staff archive the resource or take its package out, or undo it. *)
Recatalogue(state) ==
    /\ catalogue' = state
    /\ UNCHANGED <<economyVars, stores, listings, goods, estate, period, buying, saving>>

(* guard_stock_deletion, for a character. *)
DeletionGuard(c) == \A s \in StoreIds : Open(s) => stores[s].owner # c

DeleteCharacter(c) ==
    /\ c \in live
    /\ DeletionGuard(c)
    /\ bank' = BurnDeleted(bank, c, bank.purse[c])
    /\ live' = live \ {c}
    /\ carrier' = [i \in Items |-> IF carrier[i] = c THEN Home ELSE carrier[i]]
    /\ stores' = [s \in StoreIds |-> IF stores[s].owner = c
                     THEN [stores[s] EXCEPT !.owner = Nobody] ELSE stores[s]]
    /\ estate' = [p \in Properties |-> IF estate[p].owner = c
                     THEN [estate[p] EXCEPT !.owner = Nobody] ELSE estate[p]]
    /\ goods' = [goods EXCEPT ![c] = 0]
    /\ buying' = [buying EXCEPT ![c] = NotBuying]
    /\ UNCHANGED <<frozen, place, plays, listings, catalogue, period, saving>>
-----------------------------------------------------------------------------

Init ==
    /\ EconomyInit
    /\ plays \in Rosters
    /\ stores = [s \in StoreIds |-> NoStorefront]
    /\ listings = [l \in ListingIds |-> Unlisted]
    /\ goods \in Goods
    /\ catalogue = "active"
    /\ \/ estate = [p \in Properties |-> [owner |-> Nobody, state |-> "none"]]
       \/ \E c \in Characters : estate = [p \in Properties |-> [owner |-> c, state |-> "live"]]
    /\ period = 0
    /\ buying = [c \in Characters |-> NotBuying]
    /\ saving = [i \in Items |-> NoMove]

Trade(c) ==
    \/ Claim(c)
    \/ \E s \in StoreIds, asset \in Items \cup {Lot}, price \in Prices : ListStock(c, s, asset, price)
    \/ \E l \in ListingIds : Unlist(c, l) \/ BuyRead(c, l)
    \/ Buy(c) \/ BuyRefused(c)
    \/ \E s \in StoreIds : CloseOwn(c, s) \/ Reopen(c, s)

Administer ==
    \/ SetFrozen /\ UNCHANGED stallVars
    \/ \E roster \in Rosters : ChangeRoster(roster) /\ UNCHANGED stallVars
    \/ \E c \in Characters, amount \in Amounts :
          (Credit(c, amount) \/ Debit(c, amount)) /\ UNCHANGED stallVars
    \/ \E s \in StoreIds : StaffClose(s)
    \/ \E state \in {"active", "archived", "missing"} : Recatalogue(state)

Sweep == NewPeriod \/ \E s \in StoreIds : Upkeep(s)

Building(p) ==
    \/ \E c \in Characters : Promote(p, c)
    \/ Reconcile(p)
    \/ Suspend(p)
    \/ \E new \in Characters, disposition \in {"return", "transfer"} : Transfer(p, new, disposition)

Common ==
    \/ Administer
    \/ Sweep
    \/ \E p \in Properties : Building(p)
    \/ \E c \in Characters : Trade(c) \/ DeleteCharacter(c) \/ \E room \in Rooms : Walk(c, room)

(* One thread: a save's guard and its write are not interleaved. *)
Next == Common \/ \E i \in Items, to \in Characters \cup Rooms : Relocate(i, to)

Spec == Init /\ [][Next]_vars

(* Several threads: they are. *)
ConcurrentNext ==
    \/ Common
    \/ \E i \in Items : RelocateSaved(i) \/ \E to \in Characters \cup Rooms : RelocateChecked(i, to)

ConcurrentSpec == Init /\ [][ConcurrentNext]_vars
-----------------------------------------------------------------------------
(* Properties.                                                             *)

TypeOK ==
    /\ EconomyTypeOK
    /\ stores \in [StoreIds -> Store]
    /\ listings \in [ListingIds -> Listing]
    /\ goods \in [Characters -> Nat]
    /\ catalogue \in {"active", "archived", "missing"}
    /\ estate \in [Properties -> [owner : Characters \cup {Nobody},
                                  state : {"none", "live", "suspended"}]]
    /\ period \in 0..LastPeriod
    /\ buying \in [Characters -> [listing : ListingIds, owner : Characters] \cup {NotBuying}]
    /\ saving \in [Items -> Characters \cup Rooms \cup {NoMove}]

(* "Listed items cannot be moved or destroyed outside the service": stock  *)
(* on sale is in the container of a storefront that is open and owned, and *)
(* nothing is left in a container but one listing's stock.                 *)
StockBacked ==
    /\ \A l \in ListingIds : Active(l) =>
          LET s == listings[l].store IN
          /\ Open(s) /\ stores[s].owner # Nobody
          /\ listings[l].asset \in Items => carrier[listings[l].asset] = HoldingOf[s]
    /\ \A i \in Items : carrier[i] \in Holdings =>
          Cardinality({l \in ListingIds : Active(l) /\ listings[l].asset = i}) = 1

(* Two open storefronts of one room never have the same slot, stalls and   *)
(* shops numbered together, through closures and reopenings.               *)
SlotsDistinct ==
    \A s, t \in StoreIds :
        (s # t /\ Open(s) /\ Open(t) /\ stores[s].room = stores[t].room)
            => stores[s].slot # stores[t].slot

(* A shop is always its property's owner's, or nobody's with it: a         *)
(* transfer, a deletion and a closure in any order never part the two.     *)
ShopFollowsProperty ==
    \A s \in StoreIds : stores[s].kind = "shop" => stores[s].owner = estate[stores[s].property].owner

(***************************************************************************)
(* The inductive invariant, proved in StallsProofs: the three above, with  *)
(* what every handler relies on without asking.                            *)
(***************************************************************************)

(* A row not made yet is blank, a shop is a property's only one, and an    *)
(* open storefront has an owner, who is not deleted.                       *)
StoresSound ==
    /\ \A s \in StoreIds :
         /\ stores[s].status = "none" => stores[s] = NoStorefront
         /\ stores[s].status # "none" => stores[s].kind \in {"stall", "shop"}
         /\ stores[s].kind = "shop" <=> stores[s].property \in Properties
         /\ stores[s].owner \in live \cup {Nobody}
         /\ Open(s) => stores[s].owner # Nobody
    /\ \A s, t \in StoreIds :
         stores[s].kind = "shop" /\ stores[s].property = stores[t].property => s = t

(* A property has had an owner since it was promoted, and a shop only then. *)
EstateSound ==
    /\ \A p \in Properties :
         /\ estate[p].owner \in live \cup {Nobody}
         /\ estate[p].state = "none" => estate[p].owner = Nobody
    /\ \A s \in StoreIds : stores[s].kind = "shop" => estate[stores[s].property].state # "none"

(* What is on sale has a price and an open storefront; an item is on sale  *)
(* once, in its storefront's container, which holds nothing else.          *)
StockReserved ==
    /\ \A l \in ListingIds :
         /\ listings[l].status = "none" => listings[l] = Unlisted
         /\ listings[l].status # "none" =>
               /\ listings[l].store \in StoreIds
               /\ listings[l].asset # Nothing
               /\ listings[l].price \in Prices
         /\ Active(l) => Open(listings[l].store)
         /\ Active(l) /\ listings[l].asset \in Items =>
               carrier[listings[l].asset] = HoldingOf[listings[l].store]
    /\ \A l, m \in ListingIds :
         Active(l) /\ Active(m) /\ listings[l].asset = listings[m].asset
            /\ listings[l].asset \in Items => l = m
    /\ \A i \in Items : carrier[i] \in Holdings => i \in Reserved

(* A buyer is a live character who has read a listing that was made. *)
ReadsMade ==
    \A c \in Characters : buying[c] # NotBuying =>
        c \in live /\ listings[buying[c].listing].status # "none"

Inv ==
    /\ TypeOK
    /\ BooksAgree
    /\ SlotsDistinct
    /\ ShopFollowsProperty
    /\ StoresSound
    /\ EstateSound
    /\ StockReserved
    /\ ReadsMade

(* "Staff may use +stall/close remotely, including during a freeze": while *)
(* the provider is installed, even for an archived resource, an open       *)
(* storefront's stock can be recovered at once.                            *)
StaffCanClose ==
    catalogue # "missing" => \A s \in StoreIds : Open(s) => ENABLED StaffClose(s)

Sells(l) == Active(l) /\ listings'[l].status = "sold"

(* A listing is sold to one buyer, who pays its price and holds it, to     *)
(* whoever owns the store then, less the sale fee, and to nobody else.     *)
SaleSettles ==
    [][\A l \in ListingIds : Sells(l) =>
         LET seller == stores[listings[l].store].owner  price == listings[l].price IN
         \E buyer \in live \ {seller} :
            /\ bank'.purse[buyer] = bank.purse[buyer] - price
            /\ bank'.purse[seller] = bank.purse[seller] + price - Fee["sale"]
            /\ \A c \in Characters \ {buyer, seller} : bank'.purse[c] = bank.purse[c]
            /\ IF listings[l].asset = Lot THEN goods' = [goods EXCEPT ![buyer] = @ + 1]
               ELSE carrier' = [carrier EXCEPT ![listings[l].asset] = buyer]]_vars

(* Nobody buys, directly or by a roster change since, from their own       *)
(* account; nor does stock pass that way with a shop.                      *)
NoSelfDealing ==
    [][\A l \in ListingIds :
         /\ Sells(l) => \E c \in Characters :
              /\ buying[c] # NotBuying /\ buying'[c] = NotBuying
              /\ ~SameAccount(c, stores[listings[l].store].owner)
         /\ Active(l) /\ Active(l)' /\ stores'[listings[l].store].owner # stores[listings[l].store].owner
              => ~SameAccount(stores[listings[l].store].owner, stores'[listings[l].store].owner)]_vars

(* A sold or returned listing never changes again, nor do a listing's      *)
(* terms: it sells once, is returned once, and never both.                 *)
ListingEndsOnce ==
    [][\A l \in ListingIds :
         /\ listings[l].status \in {"sold", "returned"} => listings'[l] = listings[l]
         /\ listings[l].status = "active" =>
              [listings'[l] EXCEPT !.status = "active"] = listings[l]]_vars

TotalLots == MapThenSumSet(LAMBDA c : goods[c], Characters)
             + Cardinality({l \in ListingIds : Active(l) /\ listings[l].asset = Lot})

(* Debited into the listing, refunded or sold: a lot is neither lost nor   *)
(* minted, except with a character who is deleted.                         *)
LotsConserved == [][live' = live => TotalLots' = TotalLots]_vars

(* Storefronts implement the escrow they promise: an item's title is its   *)
(* storefront's owner's while it is on sale.                               *)
Title == [i \in Items |->
            IF carrier[i] \in Holdings
            THEN stores[CHOOSE s \in StoreIds : HoldingOf[s] = carrier[i]].owner
            ELSE carrier[i]]

Promised == INSTANCE Escrow WITH
    title <- Title, reserved <- Reserved, purse <- bank.purse,
    Places <- Characters \cup Rooms

ImplementsEscrow == Promised!Spec
=============================================================================
