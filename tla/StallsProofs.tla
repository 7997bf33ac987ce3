---------------------------- MODULE StallsProofs ----------------------------
(***************************************************************************)
(* The inductive invariant of Stalls and what follows from it, for any     *)
(* characters, storefronts, listings, properties and fees.                 *)
(***************************************************************************)
EXTENDS Stalls, EconomyProofs

(***************************************************************************)
(* The invariant, regrouped by what a step can disturb.                    *)
(***************************************************************************)
World ==
    /\ frozen \in BOOLEAN
    /\ live \subseteq Characters
    /\ place \in [Characters -> Rooms]
    /\ plays \in [Characters -> SUBSET Accounts]
    /\ carrier \in [Items -> ItemPlaces]
    /\ goods \in [Characters -> Nat]
    /\ catalogue \in {"active", "archived", "missing"}
    /\ period \in 0..LastPeriod
    /\ saving \in [Items -> Characters \cup Rooms \cup {NoMove}]

Deed == [owner : Characters \cup {Nobody}, state : {"none", "live", "suspended"}]

Premises ==
    /\ stores \in [StoreIds -> Store]
    /\ estate \in [Properties -> Deed]
    /\ SlotsDistinct /\ ShopFollowsProperty /\ StoresSound /\ EstateSound

Shelves ==
    /\ listings \in [ListingIds -> Listing]
    /\ StockReserved

Readers ==
    /\ buying \in [Characters -> [listing : ListingIds, owner : Characters] \cup {NotBuying}]
    /\ ReadsMade

LEMMA InvParts == Inv => GoodBank(bank) /\ World /\ Premises /\ Shelves /\ Readers
<1>. SUFFICES ASSUME Inv PROVE GoodBank(bank) /\ World /\ Premises /\ Shelves /\ Readers
  OBVIOUS
<1>1. GoodBank(bank)
  BY BankGood DEF Inv, TypeOK
<1>2. World
  BY DEF Inv, TypeOK, EconomyTypeOK, World
<1>3. Premises
  BY DEF Inv, TypeOK, Premises, Deed
<1>4. Shelves /\ Readers
  BY DEF Inv, TypeOK, Shelves, Readers
<1>. QED BY <1>1, <1>2, <1>3, <1>4

LEMMA PartsInv ==
    ASSUME GoodBank(bank'), World', Premises', Shelves', Readers'
    PROVE  Inv'
<1>1. EconomyTypeOK' /\ BooksAgree'
  BY BankStep DEF World, EconomyTypeOK
<1>2. TypeOK'
  BY <1>1 DEF World, Premises, Deed, Shelves, Readers, TypeOK
<1>. QED BY <1>1, <1>2 DEF Inv, Premises, Shelves, Readers

-----------------------------------------------------------------------------
(* What a step leaves alone keeps its part of the invariant. *)

LEMMA PremisesKept ==
    ASSUME Premises, UNCHANGED <<stores, estate, live>>
    PROVE  Premises'
BY DEF Premises, SlotsDistinct, ShopFollowsProperty, StoresSound, EstateSound, Open

LEMMA ShelvesKept ==
    ASSUME Shelves, UNCHANGED <<listings, carrier>>,
           \A s \in StoreIds : Open(s) => Open(s)'
    PROVE  Shelves'
BY DEF Shelves, StockReserved, Active, Reserved

LEMMA ReadersKept ==
    ASSUME Readers, UNCHANGED <<buying, live>>,
           \A l \in ListingIds : listings[l].status # "none" => listings'[l].status # "none"
    PROVE  Readers'
BY DEF Readers, ReadsMade

(* The next free slot of next(n for n in itertools.count(1) if n not in    *)
(* occupied): while some storefront is not open there is one, by counting. *)
LEMMA FreeSlot ==
    ASSUME NEW t \in StoreIds, ~Open(t), NEW room
    PROVE  /\ LowestFree(room) \in Slots
           /\ \A s \in StoreIds : Open(s) /\ stores[s].room = room => stores[s].slot # LowestFree(room)
<1>. DEFINE Takes(s, n) == Open(s) /\ stores[s].room = room /\ stores[s].slot = n
            free == {n \in Slots : ~\E s \in StoreIds : Takes(s, n)}
            others == StoreIds \ {t}
            f == [n \in Slots |-> CHOOSE s \in StoreIds : Takes(s, n)]
<1>1. /\ IsFiniteSet(others) /\ Cardinality(others) = Cardinality(StoreIds) - 1
      /\ Cardinality(StoreIds) \in Nat /\ StallSlots \in Nat
  BY StallsAssumption, FS_RemoveElement, FS_CardinalityType
<1>2. IsFiniteSet(Slots) /\ Cardinality(Slots) = StallSlots + Cardinality(StoreIds) /\ Slots \subseteq Nat
  <2>1. StallSlots + Cardinality(StoreIds) \in Nat
    BY <1>1
  <2>2. /\ IsFiniteSet(1..(StallSlots + Cardinality(StoreIds)))
        /\ Cardinality(1..(StallSlots + Cardinality(StoreIds)))
             = IF 1 > StallSlots + Cardinality(StoreIds) THEN 0
               ELSE (StallSlots + Cardinality(StoreIds)) - 1 + 1
    BY <2>1, FS_Interval
  <2>. QED BY <2>1, <2>2 DEF Slots
<1>3. free # {}
  <2>. SUFFICES ASSUME free = {} PROVE FALSE
    OBVIOUS
  <2>1. \A n \in Slots : f[n] \in StoreIds /\ Takes(f[n], n)
    OBVIOUS
  <2>2. \A n \in Slots : f[n] \in others
    BY <2>1
  <2>3. f \in [Slots -> others]
    BY <2>2
  <2>4. Cardinality(others) < Cardinality(Slots)
    BY <1>1, <1>2
  <2>. HIDE DEF f, others
  <2>5. \E x, y \in Slots : x # y /\ f[x] = f[y]
    <3>1. IsFiniteSet(Slots) /\ IsFiniteSet(others)
      BY <1>1, <1>2
    <3>. QED BY ONLY <2>3, <2>4, <3>1, FS_PigeonHole
  <2>. QED BY <2>1, <2>5
<1>4. \E n \in free : \A m \in free : n <= m
  BY <1>2, <1>3, LeastElement
<1>5. LowestFree(room) \in free
  BY <1>4 DEF LowestFree
<1>. QED BY <1>5

-----------------------------------------------------------------------------
(***************************************************************************)
(* The storefronts: one lemma for each way that a step changes the table.  *)
(***************************************************************************)

(* A new storefront, in the lowest free slot of its room. *)
LEMMA OpenStoreKeeps ==
    ASSUME Premises, NEW s \in Fresh(stores, StoreIds), NEW row \in Store, OpenStore(s, row),
           row.kind \in {"stall", "shop"}, row.status = "open", row.owner \in live,
           row.slot = LowestFree(row.room),
           row.kind = "shop" <=> row.property \in Properties,
           row.kind = "shop" => /\ ShopsOf(row.property) = {}
                                /\ estate'[row.property] = [owner |-> row.owner, state |-> "live"],
           estate' \in [Properties -> Deed],
           \A q \in Properties : row.property # q => estate'[q] = estate[q],
           UNCHANGED live, live \subseteq Characters
    PROVE  Premises'
<1>1. /\ s \in StoreIds /\ stores[s].status = "none" /\ ~Open(s)
      /\ stores' = [stores EXCEPT ![s] = row]
      /\ stores \in [StoreIds -> Store]
  BY DEF Fresh, OpenStore, Open, Premises
<1>2. stores'[s] = row /\ \A t \in StoreIds : t # s => stores'[t] = stores[t]
  BY <1>1
<1>3. stores' \in [StoreIds -> Store]
  BY <1>1
<1>4. row.owner # Nobody
  BY EconomyAssumption
<1>5. SlotsDistinct'
  <2>1. \A t \in StoreIds : Open(t) /\ stores[t].room = row.room => stores[t].slot # row.slot
    BY <1>1, FreeSlot
  <2>. QED BY <1>2, <2>1 DEF Premises, SlotsDistinct, Open
<1>6. \A t \in StoreIds : stores[t].kind = "shop" =>
         stores[t].property \in Properties /\ stores[t].property # row.property
  BY DEF Premises, StoresSound, ShopsOf
<1>7. ShopFollowsProperty'
  BY <1>2, <1>6 DEF Premises, ShopFollowsProperty
<1>8. StoresSound'
  <2>1. ASSUME NEW t \in StoreIds
        PROVE  /\ stores'[t].status = "none" => stores'[t] = NoStorefront
               /\ stores'[t].status # "none" => stores'[t].kind \in {"stall", "shop"}
               /\ stores'[t].kind = "shop" <=> stores'[t].property \in Properties
               /\ stores'[t].owner \in live \cup {Nobody}
               /\ stores'[t].status = "open" => stores'[t].owner # Nobody
    <3>1. CASE t = s
      BY <1>2, <1>4, <3>1
    <3>2. CASE t # s
      BY <1>2, <3>2 DEF Premises, StoresSound, Open
    <3>. QED BY <3>1, <3>2
  <2>2. ASSUME NEW t \in StoreIds, NEW u \in StoreIds,
               stores'[t].kind = "shop", stores'[t].property = stores'[u].property
        PROVE  t = u
    <3>1. stores'[t].property \in Properties
      BY <2>1, <2>2
    <3>2. \A v \in StoreIds : row.kind = "shop" => stores[v].property # row.property
      BY DEF ShopsOf
    <3>. QED BY <1>2, <2>2, <3>1, <3>2 DEF Premises, StoresSound
  <2>. QED BY <2>1, <2>2 DEF StoresSound, Open
<1>9. EstateSound'
  <2>1. ASSUME NEW q \in Properties
        PROVE  /\ estate'[q].owner \in live \cup {Nobody}
               /\ estate'[q].state = "none" => estate'[q].owner = Nobody
    BY DEF Premises, EstateSound
  <2>2. ASSUME NEW t \in StoreIds, stores'[t].kind = "shop"
        PROVE  estate'[stores'[t].property].state # "none"
    BY <1>2, <1>6, <2>2 DEF Premises, EstateSound
  <2>. QED BY <2>1, <2>2 DEF EstateSound
<1>. QED BY <1>3, <1>5, <1>7, <1>8, <1>9 DEF Premises

(* A storefront that is open no more, or whose upkeep is paid. *)
LEMMA StatusKeeps ==
    ASSUME Premises, NEW s \in StoreIds, Open(s), UNCHANGED <<estate, live>>,
           stores' \in [StoreIds -> Store],
           \A t \in StoreIds :
              /\ stores'[t].kind = stores[t].kind
              /\ stores'[t].owner = stores[t].owner
              /\ stores'[t].room = stores[t].room
              /\ stores'[t].slot = stores[t].slot
              /\ stores'[t].property = stores[t].property
              /\ stores'[t].status = "open" => stores[t].status = "open"
              /\ t # s => stores'[t] = stores[t],
           stores'[s].status # "none"
    PROVE  Premises'
<1>1. SlotsDistinct' /\ ShopFollowsProperty' /\ EstateSound'
  BY DEF Premises, SlotsDistinct, ShopFollowsProperty, EstateSound, Open
<1>2. StoresSound'
  BY DEF Premises, StoresSound, Open
<1>. QED BY <1>1, <1>2 DEF Premises

LEMMA ReopenKeeps ==
    ASSUME Premises, NEW c \in Characters, NEW s \in StoreIds, Reopen(c, s)
    PROVE  Premises'
<1>1. /\ stores' = [stores EXCEPT ![s].status = "open", ![s].slot = LowestFree(stores[s].room)]
      /\ UNCHANGED <<estate, live>>
      /\ stores[s].status = "closed" /\ ~Open(s) /\ stores[s].owner = c
      /\ stores \in [StoreIds -> Store]
  BY DEF Reopen, ReopeningSlot, Open, Premises, setting, economyVars
<1>2. /\ LowestFree(stores[s].room) \in Slots
      /\ \A t \in StoreIds : Open(t) /\ stores[t].room = stores[s].room
                           => stores[t].slot # LowestFree(stores[s].room)
  BY <1>1, FreeSlot
<1>. DEFINE n == LowestFree(stores[s].room)
<1>. HIDE DEF n
<1>3. /\ stores'[s] = [stores[s] EXCEPT !.status = "open", !.slot = n]
      /\ \A t \in StoreIds : t # s => stores'[t] = stores[t]
  BY <1>1 DEF n
<1>4. stores' \in [StoreIds -> Store]
  <2>1. stores'[s] \in Store
    BY <1>1, <1>2, <1>3 DEF Store, n
  <2>. QED BY <1>1, <2>1
<1>5. /\ stores'[s].kind = stores[s].kind /\ stores'[s].owner = c
      /\ stores'[s].room = stores[s].room /\ stores'[s].property = stores[s].property
      /\ stores'[s].status = "open" /\ stores'[s].slot = n
  <2>. DEFINE row == stores[s]
  <2>1. row \in Store /\ row.owner = c
    BY <1>1
  <2>2. stores'[s] = [row EXCEPT !.status = "open", !.slot = n]
    BY <1>3
  <2>. HIDE DEF row
  <2>3. /\ stores'[s].kind = row.kind /\ stores'[s].owner = row.owner
        /\ stores'[s].room = row.room /\ stores'[s].property = row.property
        /\ stores'[s].status = "open" /\ stores'[s].slot = n
    BY <2>1, <2>2 DEF Store
  <2>. QED BY <2>1, <2>3 DEF row
<1>6. c # Nobody
  BY EconomyAssumption
<1>7. SlotsDistinct'
  <2>. SUFFICES ASSUME NEW t \in StoreIds, NEW u \in StoreIds, t # u,
                       stores'[t].status = "open", stores'[u].status = "open",
                       stores'[t].room = stores'[u].room
                PROVE  stores'[t].slot # stores'[u].slot
    BY DEF SlotsDistinct, Open
  <2>1. \A v \in StoreIds : Open(v) /\ stores[v].room = stores[s].room => stores[v].slot # n
    BY <1>2 DEF n
  <2>2. CASE t # s /\ u # s
    BY <1>3, <2>2 DEF Premises, SlotsDistinct, Open
  <2>3. CASE t = s
    BY <1>3, <1>5, <2>1, <2>3 DEF Open
  <2>4. CASE u = s
    BY <1>3, <1>5, <2>1, <2>4 DEF Open
  <2>. QED BY <2>2, <2>3, <2>4
<1>8. ShopFollowsProperty' /\ EstateSound'
  BY <1>1, <1>3, <1>5 DEF Premises, ShopFollowsProperty, EstateSound
<1>9. StoresSound'
  BY <1>1, <1>3, <1>5, <1>6 DEF Premises, StoresSound, Open
<1>. QED BY <1>1, <1>4, <1>7, <1>8, <1>9 DEF Premises

LEMMA SuspendKeeps ==
    ASSUME Premises, NEW p \in Properties, Suspend(p)
    PROVE  Premises'
<1>1. /\ estate[p].state # "none" /\ UNCHANGED <<stores, live>>
      /\ estate' = [estate EXCEPT ![p].state = IF @ = "live" THEN "suspended" ELSE "live"]
      /\ estate \in [Properties -> Deed]
  BY DEF Suspend, economyVars, Premises
<1>2. /\ estate' \in [Properties -> Deed]
      /\ \A q \in Properties : /\ estate'[q].owner = estate[q].owner
                              /\ estate'[q].state = "none" <=> estate[q].state = "none"
  BY <1>1 DEF Deed
<1>3. \A s \in StoreIds : stores[s].kind = "shop" => stores[s].property \in Properties
  BY DEF Premises, StoresSound
<1>4. ShopFollowsProperty' /\ EstateSound'
  BY <1>1, <1>2, <1>3 DEF Premises, ShopFollowsProperty, EstateSound
<1>5. SlotsDistinct' /\ StoresSound'
  BY <1>1 DEF Premises, SlotsDistinct, StoresSound, Open
<1>. QED BY <1>1, <1>2, <1>4, <1>5 DEF Premises

(* A property and its shop, if it has one, go to one new owner. *)
LEMMA TransferKeeps ==
    ASSUME Premises, NEW p \in Properties, NEW new \in live, live \subseteq Characters,
           estate[p].state # "none",
           estate' = [estate EXCEPT ![p].owner = new],
           \/ ShopsOf(p) = {} /\ UNCHANGED stores
           \/ \E s \in ShopsOf(p) : stores[s].owner # Nobody /\ PassShop(s, new),
           UNCHANGED live
    PROVE  Premises'
<1>1. stores \in [StoreIds -> Store] /\ estate \in [Properties -> Deed] /\ new # Nobody
  BY EconomyAssumption DEF Premises
<1>2. /\ estate' \in [Properties -> Deed]
      /\ \A q \in Properties : /\ estate'[q].state = estate[q].state
                              /\ estate'[q].owner = IF q = p THEN new ELSE estate[q].owner
  BY <1>1 DEF Deed
<1>3. /\ stores' \in [StoreIds -> Store]
      /\ \A t \in StoreIds :
            /\ stores'[t].kind = stores[t].kind
            /\ stores'[t].status = stores[t].status
            /\ stores'[t].room = stores[t].room
            /\ stores'[t].slot = stores[t].slot
            /\ stores'[t].property = stores[t].property
            /\ stores'[t].owner = IF stores[t].property = p THEN new ELSE stores[t].owner
            /\ stores[t].property # p => stores'[t] = stores[t]
            /\ stores[t].property = p => stores[t].owner # Nobody
  <2>1. CASE ShopsOf(p) = {} /\ UNCHANGED stores
    BY <1>1, <2>1 DEF ShopsOf
  <2>2. ASSUME NEW s \in ShopsOf(p), stores[s].owner # Nobody, PassShop(s, new)
        PROVE  <1>3
    <3>1. s \in StoreIds /\ stores[s].property = p
      BY DEF ShopsOf
    <3>2. stores[s].kind = "shop" /\ \A t \in StoreIds : stores[t].property = p => t = s
      BY <3>1 DEF Premises, StoresSound
    <3>3. /\ stores'[s] = [stores[s] EXCEPT !.owner = new]
          /\ \A t \in StoreIds : t # s => stores'[t] = stores[t]
      BY <1>1, <2>2, <3>1 DEF PassShop
    <3>4. stores'[s] \in Store
      BY <1>1, <3>1, <3>3 DEF Store
    <3>5. stores' \in [StoreIds -> Store]
      BY <1>1, <2>2, <3>1, <3>4 DEF PassShop
    <3>. QED BY <1>1, <2>2, <3>1, <3>2, <3>3, <3>5 DEF Store
  <2>. QED BY <2>1, <2>2
<1>4. SlotsDistinct'
  BY <1>3 DEF Premises, SlotsDistinct, Open
<1>5. \A t \in StoreIds : stores[t].kind = "shop" => stores[t].property \in Properties
  BY DEF Premises, StoresSound
<1>6. ShopFollowsProperty' /\ EstateSound'
  BY <1>1, <1>2, <1>3, <1>5 DEF Premises, ShopFollowsProperty, EstateSound
<1>7. StoresSound'
  <2>1. ASSUME NEW t \in StoreIds
        PROVE  /\ stores'[t].status = "none" => stores'[t] = NoStorefront
               /\ stores'[t].status # "none" => stores'[t].kind \in {"stall", "shop"}
               /\ stores'[t].kind = "shop" <=> stores'[t].property \in Properties
               /\ stores'[t].owner \in live \cup {Nobody}
               /\ stores'[t].status = "open" => stores'[t].owner # Nobody
    <3>1. stores[t].status = "none" => stores[t].property # p
      BY StallsAssumption DEF Premises, StoresSound, NoStorefront
    <3>. QED BY <1>1, <1>3, <3>1 DEF Premises, StoresSound, Open
  <2>2. \A t, u \in StoreIds :
          stores'[t].kind = "shop" /\ stores'[t].property = stores'[u].property => t = u
    BY <1>3 DEF Premises, StoresSound
  <2>. QED BY <2>1, <2>2 DEF StoresSound, Open
<1>. QED BY <1>2, <1>3, <1>4, <1>6, <1>7 DEF Premises

(* A deleted character has no open storefront; those that are closed, and  *)
(* the properties, are left to nobody.                                     *)
LEMMA DeleteKeepsPremises ==
    ASSUME Premises, live \subseteq Characters, NEW c \in Characters, DeleteCharacter(c)
    PROVE  Premises'
<1>1. /\ stores \in [StoreIds -> Store] /\ estate \in [Properties -> Deed] /\ c # Nobody
      /\ live' = live \ {c}
      /\ \A s \in StoreIds : Open(s) => stores[s].owner # c
      /\ stores' = [s \in StoreIds |-> IF stores[s].owner = c
                        THEN [stores[s] EXCEPT !.owner = Nobody] ELSE stores[s]]
      /\ estate' = [p \in Properties |-> IF estate[p].owner = c
                        THEN [estate[p] EXCEPT !.owner = Nobody] ELSE estate[p]]
  BY EconomyAssumption DEF DeleteCharacter, DeletionGuard, Premises
<1>2. /\ estate' \in [Properties -> Deed]
      /\ \A q \in Properties :
            /\ estate'[q].state = estate[q].state
            /\ estate'[q].owner = IF estate[q].owner = c THEN Nobody ELSE estate[q].owner
  BY <1>1 DEF Deed
<1>3. /\ stores' \in [StoreIds -> Store]
      /\ \A t \in StoreIds :
            /\ stores'[t].kind = stores[t].kind
            /\ stores'[t].status = stores[t].status
            /\ stores'[t].room = stores[t].room
            /\ stores'[t].slot = stores[t].slot
            /\ stores'[t].property = stores[t].property
            /\ stores'[t].owner = IF stores[t].owner = c THEN Nobody ELSE stores[t].owner
            /\ stores[t].owner # c => stores'[t] = stores[t]
  BY <1>1 DEF Store
<1>. HIDE DEF DeleteCharacter
<1>4. SlotsDistinct'
  BY <1>3 DEF Premises, SlotsDistinct, Open
<1>5. \A t \in StoreIds : stores[t].kind = "shop" => stores[t].property \in Properties
  BY DEF Premises, StoresSound
<1>6. ShopFollowsProperty' /\ EstateSound'
  BY <1>1, <1>2, <1>3, <1>5 DEF Premises, ShopFollowsProperty, EstateSound
<1>7. StoresSound'
  <2>1. \A t \in StoreIds : stores[t].status = "none" => stores[t].owner # c
    BY <1>1 DEF Premises, StoresSound, NoStorefront
  <2>. QED BY <1>1, <1>3, <2>1 DEF Premises, StoresSound, Open
<1>. QED BY <1>2, <1>3, <1>4, <1>6, <1>7 DEF Premises

-----------------------------------------------------------------------------
(* The storefronts' money. *)

(* A fee taken in a transaction that commits. *)
LEMMA ChargedGood ==
    ASSUME GoodBank(bank), NEW kind \in FeeKinds, NEW c \in Characters, Charged(kind, c)
    PROVE  /\ GoodBank(bank')
           /\ \A d \in Characters :
                bank'.purse[d] = bank.purse[d] - IF d = c THEN Fee[kind] ELSE 0
<1>1. bank' = ChargeFee(bank, kind, c) /\ Committable(bank')
  BY DEF Charged
<1>2. /\ Sound(ChargeFee(bank, kind, c))
      /\ \A d \in Characters : Drift(ChargeFee(bank, kind, c), d) = Drift(bank, d)
  BY ChargeFeeSound DEF GoodBank
<1>3. GoodBank(bank')
  BY <1>1, <1>2 DEF GoodBank
<1>4. \A d \in Characters : bank'.purse[d] = bank.purse[d] - IF d = c THEN Fee[kind] ELSE 0
  BY <1>1, ChargeFeePurse DEF GoodBank
<1>. QED BY <1>3, <1>4

(* buy's transaction, for any buyer, seller and price. *)
SaleOf(b, c, owner, price) ==
    Journal(ChargeFee(Adjust(Adjust(b, c, -price), owner, price), "sale", owner), c, owner, price)

LEMMA SaleSound ==
    ASSUME NEW b, Sound(b), NEW c \in Characters, NEW owner \in Characters, c # owner, NEW price \in Nat
    PROVE  /\ Sound(SaleOf(b, c, owner, price))
           /\ \A d \in Characters :
                /\ Drift(SaleOf(b, c, owner, price), d) = Drift(b, d)
                /\ SaleOf(b, c, owner, price).purse[d]
                     = b.purse[d] + (IF d = c THEN -price ELSE IF d = owner THEN price - Fee["sale"] ELSE 0)
<1>. DEFINE b1 == Adjust(b, c, -price)
            b2 == Adjust(b1, owner, price)
            b3 == ChargeFee(b2, "sale", owner)
            b4 == Journal(b3, c, owner, price)
<1>1. "sale" \in FeeKinds /\ Fee["sale"] \in Nat
  BY EconomyAssumption DEF FeeKinds
<1>2. /\ Sound(b1) /\ b1 \in Bank /\ b \in Bank
      /\ \A d \in Characters : /\ Drift(b1, d) = Drift(b, d) + IF d = c THEN -price ELSE 0
                               /\ b1.purse[d] = b.purse[d] + IF d = c THEN -price ELSE 0
  BY AdjustSound, AdjustPurse DEF Sound
<1>. HIDE DEF b1
<1>3. /\ Sound(b2) /\ b2 \in Bank
      /\ \A d \in Characters : /\ Drift(b2, d) = Drift(b1, d) + IF d = owner THEN price ELSE 0
                               /\ b2.purse[d] = b1.purse[d] + IF d = owner THEN price ELSE 0
  BY <1>2, AdjustSound, AdjustPurse DEF Sound
<1>. HIDE DEF b2
<1>4. /\ Sound(b3) /\ b3 \in Bank
      /\ \A d \in Characters : /\ Drift(b3, d) = Drift(b2, d)
                               /\ b3.purse[d] = b2.purse[d] - IF d = owner THEN Fee["sale"] ELSE 0
  BY <1>1, <1>3, ChargeFeeSound, ChargeFeePurse DEF Sound
<1>. HIDE DEF b3
<1>5. /\ Sound(b4) /\ b4.purse = b3.purse
      /\ \A d \in Characters :
           Drift(b4, d) = Drift(b3, d) + (IF d = c THEN price ELSE 0) - (IF d = owner THEN price ELSE 0)
  BY <1>4, JournalSound, JournalPurse
<1>6. \A d \in Characters : b.purse[d] \in Int /\ Drift(b, d) \in Int
  BY <1>2 DEF Bank, Drift
<1>7. b4 = SaleOf(b, c, owner, price)
  BY DEF SaleOf, b1, b2, b3
<1>. HIDE DEF b4
<1>8. \A d \in Characters : Drift(b4, d) = Drift(b, d)
  BY <1>2, <1>3, <1>4, <1>5, <1>6
<1>9. \A d \in Characters :
        b4.purse[d] = b.purse[d] + (IF d = c THEN -price ELSE IF d = owner THEN price - Fee["sale"] ELSE 0)
  BY <1>1, <1>2, <1>3, <1>4, <1>5, <1>6
<1>. QED BY <1>5, <1>7, <1>8, <1>9

LEMMA CreditGood ==
    ASSUME GoodBank(bank), NEW c \in Characters, NEW amount \in Amounts,
           Credit(c, amount) \/ Debit(c, amount)
    PROVE  GoodBank(bank')
<1>1. amount \in Nat
  BY EconomyAssumption
<1>2. CASE Credit(c, amount)
  <2>1. bank' = Mint(bank, c, amount) /\ Committable(bank')
    BY <1>2 DEF Credit
  <2>2. /\ Sound(Mint(bank, c, amount))
        /\ \A d \in Characters : Drift(Mint(bank, c, amount), d) = Drift(bank, d)
    BY <1>1, MintSound DEF GoodBank
  <2>. QED BY <2>1, <2>2 DEF GoodBank
<1>3. CASE Debit(c, amount)
  <2>1. bank' = Burn(bank, c, amount) /\ Committable(bank')
    BY <1>3 DEF Debit
  <2>2. /\ Sound(Burn(bank, c, amount))
        /\ \A d \in Characters : Drift(Burn(bank, c, amount), d) = Drift(bank, d)
    BY <1>1, BurnSound DEF GoodBank
  <2>. QED BY <2>1, <2>2 DEF GoodBank
<1>. QED BY <1>2, <1>3

(* A purchase that passed every check: who buys, what, from whom. *)
LEMMA BuyMeans ==
    ASSUME Inv, NEW c \in Characters, Buy(c)
    PROVE  LET l == buying[c].listing  s == listings[l].store
               owner == stores[s].owner  price == listings[l].price
           IN  /\ c \in live /\ owner \in live /\ c # owner /\ ~SameAccount(c, owner)
               /\ l \in ListingIds /\ Active(l) /\ s \in StoreIds /\ Open(s)
               /\ price \in Nat \ {0} /\ listings[l].asset \in Items \cup {Lot}
               /\ bank' = SaleOf(bank, c, owner, price) /\ Committable(bank')
<1>. DEFINE l == buying[c].listing
            s == listings[l].store
            price == listings[l].price
<1>1. /\ buying[c] # NotBuying /\ Saleable(c) /\ Deliver(c)
      /\ buying \in [Characters -> [listing : ListingIds, owner : Characters] \cup {NotBuying}]
      /\ listings \in [ListingIds -> Listing] /\ ReadsMade /\ StockReserved /\ StoresSound
  BY InvParts DEF Buy, Readers, Shelves, Premises
<1>2. l \in ListingIds /\ c \in live
  BY <1>1 DEF ReadsMade
<1>3. /\ Active(l) /\ Open(s) /\ stores[s].owner = buying[c].owner
      /\ c # buying[c].owner /\ ~SameAccount(c, buying[c].owner)
  BY <1>1 DEF Saleable
<1>4. /\ s \in StoreIds /\ price \in Nat \ {0} /\ listings[l].asset \in Items \cup {Lot}
  BY <1>1, <1>2, <1>3, StallsAssumption DEF Active, StockReserved, Listing
<1>5. stores[s].owner \in live
  BY <1>1, <1>3, <1>4 DEF StoresSound
<1>6. bank' = SaleOf(bank, c, stores[s].owner, price) /\ Committable(bank')
  BY <1>1, <1>3 DEF Deliver, Paid, SaleOf
<1>. QED BY <1>2, <1>3, <1>4, <1>5, <1>6

(* What the sale does to the purses. *)
LEMMA BuyPays ==
    ASSUME Inv, NEW c \in Characters, Buy(c)
    PROVE  LET l == buying[c].listing  owner == stores[listings[l].store].owner
               price == listings[l].price
           IN  /\ GoodBank(bank')
               /\ \A d \in Characters :
                    bank'.purse[d] = bank.purse[d] + (IF d = c THEN -price
                                        ELSE IF d = owner THEN price - Fee["sale"] ELSE 0)
<1>. DEFINE l == buying[c].listing
            owner == stores[listings[l].store].owner
            price == listings[l].price
<1>1. GoodBank(bank) /\ live \subseteq Characters
  BY InvParts DEF World
<1>2. /\ owner \in Characters /\ c # owner /\ price \in Nat
      /\ bank' = SaleOf(bank, c, owner, price) /\ Committable(bank')
  BY <1>1, BuyMeans
<1>. HIDE DEF owner, price
<1>3. /\ Sound(SaleOf(bank, c, owner, price))
      /\ \A d \in Characters :
           /\ Drift(SaleOf(bank, c, owner, price), d) = Drift(bank, d)
           /\ SaleOf(bank, c, owner, price).purse[d]
                = bank.purse[d] + (IF d = c THEN -price ELSE IF d = owner THEN price - Fee["sale"] ELSE 0)
  BY <1>1, <1>2, SaleSound DEF GoodBank
<1>4. /\ GoodBank(bank')
      /\ \A d \in Characters :
           bank'.purse[d] = bank.purse[d] + (IF d = c THEN -price
                               ELSE IF d = owner THEN price - Fee["sale"] ELSE 0)
  BY <1>1, <1>2, <1>3 DEF GoodBank
<1>. QED BY <1>4 DEF owner, price

-----------------------------------------------------------------------------
(***************************************************************************)
(* The stock: one lemma for each way that a step moves it.                 *)
(***************************************************************************)

(* What Return does to each row, item and counter. *)
LEMMA ReturnMeans ==
    ASSUME Shelves, World, NEW s \in StoreIds, stores[s].owner \in Characters,
           NEW rows \in SUBSET Stock(s), Return(s, rows)
    PROVE  /\ \A l \in rows : l \in ListingIds /\ Active(l) /\ listings[l].store = s
           /\ listings' \in [ListingIds -> Listing]
           /\ \A l \in rows : listings'[l] = [listings[l] EXCEPT !.status = "returned"]
           /\ \A l \in ListingIds \ rows : listings'[l] = listings[l]
           /\ carrier' \in [Items -> ItemPlaces]
           /\ \A i \in Items : carrier'[i] = IF \E l \in rows : listings[l].asset = i
                                             THEN stores[s].owner ELSE carrier[i]
           /\ goods' \in [Characters -> Nat]
<1>1. \A l \in rows : l \in ListingIds /\ Active(l) /\ listings[l].store = s
  BY DEF Stock
<1>2. listings \in [ListingIds -> Listing]
  BY DEF Shelves
<1>3. /\ \A l \in rows : listings'[l] = [listings[l] EXCEPT !.status = "returned"]
      /\ \A l \in ListingIds \ rows : listings'[l] = listings[l]
  BY <1>1 DEF Return
<1>4. \A l \in ListingIds : listings'[l] \in Listing
  <2>1. ASSUME NEW l \in rows PROVE listings'[l] \in Listing
    <3>1. listings[l] \in Listing /\ listings'[l] = [listings[l] EXCEPT !.status = "returned"]
      BY <1>1, <1>2, <1>3
    <3>. QED BY <3>1 DEF Listing
  <2>. QED BY <1>2, <1>3, <2>1
<1>5. listings' \in [ListingIds -> Listing]
  BY <1>4 DEF Return
<1>6. /\ carrier' \in [Items -> ItemPlaces]
      /\ \A i \in Items : carrier'[i] = IF \E l \in rows : listings[l].asset = i
                                        THEN stores[s].owner ELSE carrier[i]
  BY DEF Return, World, ItemPlaces
<1>7. goods' \in [Characters -> Nat]
  <2>. DEFINE lots == {l \in rows : listings[l].asset = Lot}
  <2>1. lots \in SUBSET ListingIds
    BY <1>1
  <2>2. Cardinality(lots) \in Nat
    BY <2>1, StallsAssumption, FS_Subset, FS_CardinalityType
  <2>3. goods' = [goods EXCEPT ![stores[s].owner] = @ + Cardinality(lots)]
    BY DEF Return
  <2>. HIDE DEF lots
  <2>. QED BY <2>2, <2>3 DEF World
<1>. QED BY <1>1, <1>3, <1>5, <1>6, <1>7

LEMMA ReturnKeeps ==
    ASSUME Shelves, World, NEW s \in StoreIds, stores[s].owner \in Characters,
           NEW rows \in SUBSET Stock(s), Return(s, rows),
           \A t \in StoreIds : Open(t) /\ (t # s \/ rows # Stock(s)) => Open(t)'
    PROVE  Shelves'
<1>1. /\ \A l \in rows : l \in ListingIds /\ Active(l) /\ listings[l].store = s
      /\ listings' \in [ListingIds -> Listing]
      /\ \A l \in rows : listings'[l] = [listings[l] EXCEPT !.status = "returned"]
      /\ \A l \in ListingIds \ rows : listings'[l] = listings[l]
      /\ \A i \in Items : carrier'[i] = IF \E l \in rows : listings[l].asset = i
                                        THEN stores[s].owner ELSE carrier[i]
  BY ReturnMeans
<1>2. \A l \in rows : /\ listings'[l].status = "returned" /\ listings'[l].store = listings[l].store
                      /\ listings'[l].asset = listings[l].asset /\ listings'[l].price = listings[l].price
  <2>. SUFFICES ASSUME NEW l \in rows
                PROVE  /\ listings'[l].status = "returned" /\ listings'[l].store = listings[l].store
                       /\ listings'[l].asset = listings[l].asset /\ listings'[l].price = listings[l].price
    OBVIOUS
  <2>1. listings[l] \in Listing /\ listings'[l] = [listings[l] EXCEPT !.status = "returned"]
    BY <1>1 DEF Shelves
  <2>. QED BY <2>1 DEF Listing
<1>3. stores[s].owner \notin Holdings
  BY EconomyAssumption
<1>4. ASSUME NEW l \in ListingIds
      PROVE  /\ listings'[l].status = "none" => listings'[l] = Unlisted
             /\ listings'[l].status # "none" =>
                   /\ listings'[l].store \in StoreIds
                   /\ listings'[l].asset # Nothing
                   /\ listings'[l].price \in Prices
  BY <1>1, <1>2 DEF Shelves, StockReserved, Active
<1>5. ASSUME NEW l \in ListingIds, listings'[l].status = "active"
      PROVE  /\ l \notin rows /\ Active(l) /\ listings'[l] = listings[l]
             /\ stores'[listings[l].store].status = "open"
             /\ listings[l].asset \in Items => carrier'[listings[l].asset] = carrier[listings[l].asset]
  <2>1. l \notin rows /\ listings'[l] = listings[l] /\ Active(l)
    BY <1>1, <1>2, <1>5 DEF Active
  <2>2. Open(listings[l].store) /\ listings[l].store \in StoreIds
    BY <2>1 DEF Shelves, StockReserved, Active
  <2>3. listings[l].store # s \/ rows # Stock(s)
    BY <2>1 DEF Stock
  <2>4. listings[l].asset \in Items => ~\E m \in rows : listings[m].asset = listings[l].asset
    BY <1>1, <2>1 DEF Shelves, StockReserved
  <2>. QED BY <1>1, <2>1, <2>2, <2>3, <2>4 DEF Open
<1>6. ASSUME NEW i \in Items, carrier'[i] \in Holdings
      PROVE  \E l \in ListingIds : listings'[l].status = "active" /\ listings'[l].asset = i
  <2>1. carrier'[i] = carrier[i] /\ ~\E l \in rows : listings[l].asset = i
    BY <1>1, <1>3, <1>6
  <2>2. PICK l \in ListingIds : Active(l) /\ listings[l].asset = i
    BY <1>6, <2>1 DEF Shelves, StockReserved, Reserved
  <2>3. l \notin rows
    BY <2>1, <2>2
  <2>. QED BY <1>1, <2>2, <2>3 DEF Active
<1>7. StockReserved'
  <2>1. \A l \in ListingIds : listings'[l].status = "active" =>
          /\ listings'[l].store = listings[l].store /\ listings'[l].asset = listings[l].asset
          /\ stores'[listings'[l].store].status = "open"
          /\ listings'[l].asset \in Items => carrier'[listings'[l].asset] = HoldingOf[listings'[l].store]
    BY <1>5 DEF Shelves, StockReserved
  <2>2. \A l, m \in ListingIds :
           listings'[l].status = "active" /\ listings'[m].status = "active"
             /\ listings'[l].asset = listings'[m].asset /\ listings'[l].asset \in Items => l = m
    BY <1>5, <2>1 DEF Shelves, StockReserved
  <2>. QED BY <1>4, <1>6, <2>1, <2>2 DEF StockReserved, Active, Reserved, Open
<1>. QED BY <1>1, <1>7 DEF Shelves

(* A new listing: its item leaves its owner for the container. *)
LEMMA ListStockKeeps ==
    ASSUME Shelves, World, UNCHANGED stores,
           NEW c \in Characters, NEW s \in StoreIds, NEW asset \in Items \cup {Lot}, NEW price \in Prices,
           ListStock(c, s, asset, price)
    PROVE  Shelves' /\ carrier' \in [Items -> ItemPlaces] /\ goods' \in [Characters -> Nat]
<1>1. /\ Open(s)
      /\ asset \in Items => carrier[asset] = c
      /\ asset = Lot => goods[c] > 0
      /\ carrier' = [i \in Items |-> IF i = asset THEN HoldingOf[s] ELSE carrier[i]]
      /\ goods' = [goods EXCEPT ![c] = @ - IF asset = Lot THEN 1 ELSE 0]
  BY StallsAssumption DEF ListStock, Manages
<1>2. PICK l \in Fresh(listings, ListingIds) :
          listings' = [listings EXCEPT ![l] =
              [status |-> "active", store |-> s, asset |-> asset, price |-> price]]
  BY DEF ListStock
<1>. DEFINE row == [status |-> "active", store |-> s, asset |-> asset, price |-> price]
<1>3. /\ l \in ListingIds /\ ~Active(l) /\ listings \in [ListingIds -> Listing]
      /\ row \in Listing /\ price \in Nat
  BY StallsAssumption DEF Fresh, Active, Shelves, Listing
<1>4. /\ listings' \in [ListingIds -> Listing]
      /\ listings'[l] = row
      /\ \A m \in ListingIds : m # l => listings'[m] = listings[m]
  BY <1>2, <1>3
<1>5. HoldingOf[s] \in Holdings /\ c \notin Holdings
  BY StallsAssumption, EconomyAssumption
<1>6. \A m \in ListingIds : Active(m) => listings[m].asset # asset \/ asset \notin Items
  <2>1. ASSUME NEW m \in ListingIds, Active(m), listings[m].asset = asset, asset \in Items
        PROVE  FALSE
    <3>1. carrier[asset] = HoldingOf[listings[m].store] /\ listings[m].store \in StoreIds
      BY <2>1 DEF Shelves, StockReserved, Active
    <3>2. HoldingOf[listings[m].store] \in Holdings
      BY <3>1, StallsAssumption
    <3>. QED BY <1>1, <1>5, <2>1, <3>1, <3>2
  <2>. QED BY <2>1
<1>7. \A m \in ListingIds :
         /\ listings'[m].status = "none" => listings'[m] = Unlisted
         /\ listings'[m].status # "none" =>
               /\ listings'[m].store \in StoreIds
               /\ listings'[m].asset # Nothing
               /\ listings'[m].price \in Prices
         /\ listings'[m].status = "active" => stores'[listings'[m].store].status = "open"
  BY <1>1, <1>4, StallsAssumption DEF Shelves, StockReserved, Active, Open
<1>8. ASSUME NEW m \in ListingIds, listings'[m].status = "active", listings'[m].asset \in Items
      PROVE  carrier'[listings'[m].asset] = HoldingOf[listings'[m].store]
  BY <1>1, <1>4, <1>6, <1>8 DEF Shelves, StockReserved, Active
<1>9. \A k, m \in ListingIds :
         listings'[k].status = "active" /\ listings'[m].status = "active"
           /\ listings'[k].asset = listings'[m].asset /\ listings'[k].asset \in Items => k = m
  BY <1>4, <1>6 DEF Shelves, StockReserved, Active
<1>10. ASSUME NEW i \in Items, carrier'[i] \in Holdings
       PROVE  \E m \in ListingIds : listings'[m].status = "active" /\ listings'[m].asset = i
  <2>1. CASE i = asset
    BY <1>3, <1>4, <2>1
  <2>2. CASE i # asset
    <3>1. PICK m \in ListingIds : Active(m) /\ listings[m].asset = i
      BY <1>1, <1>10, <2>2 DEF Shelves, StockReserved, Reserved
    <3>. QED BY <1>3, <1>4, <3>1 DEF Active
  <2>. QED BY <2>1, <2>2
<1>11. StockReserved'
  BY <1>7, <1>8, <1>9, <1>10 DEF StockReserved, Active, Reserved, Open
<1>12. carrier' \in [Items -> ItemPlaces] /\ goods' \in [Characters -> Nat]
  BY <1>1, <1>5 DEF World, ItemPlaces
<1>. QED BY <1>4, <1>11, <1>12 DEF Shelves

(* A sale: the item leaves the container for its buyer. *)
LEMMA BuyKeeps ==
    ASSUME Inv, NEW c \in Characters, Buy(c)
    PROVE  Shelves' /\ carrier' \in [Items -> ItemPlaces] /\ goods' \in [Characters -> Nat]
<1>. DEFINE l == buying[c].listing
<1>1. l \in ListingIds /\ Active(l)
  BY BuyMeans
<1>2. Shelves /\ World
  BY InvParts
<1>3. /\ listings' = [listings EXCEPT ![l].status = "sold"]
      /\ carrier' = [i \in Items |-> IF i = listings[l].asset THEN c ELSE carrier[i]]
      /\ goods' = [goods EXCEPT ![c] = @ + IF listings[l].asset = Lot THEN 1 ELSE 0]
      /\ UNCHANGED stores
  BY DEF Buy, Deliver
<1>. HIDE DEF l
<1>4. listings \in [ListingIds -> Listing]
  BY <1>2 DEF Shelves
<1>5. /\ listings'[l] = [listings[l] EXCEPT !.status = "sold"]
      /\ \A m \in ListingIds : m # l => listings'[m] = listings[m]
  BY <1>1, <1>3, <1>4
<1>6. /\ listings'[l] \in Listing /\ listings'[l].status = "sold"
      /\ listings'[l].store = listings[l].store /\ listings'[l].asset = listings[l].asset
      /\ listings'[l].price = listings[l].price
  BY <1>1, <1>4, <1>5 DEF Listing
<1>7. listings' \in [ListingIds -> Listing]
  BY <1>3, <1>4, <1>5, <1>6
<1>8. \A m \in ListingIds :
         /\ listings'[m].status = "none" => listings'[m] = Unlisted
         /\ listings'[m].status # "none" =>
               /\ listings'[m].store \in StoreIds
               /\ listings'[m].asset # Nothing
               /\ listings'[m].price \in Prices
         /\ listings'[m].status = "active" => stores'[listings'[m].store].status = "open"
  BY <1>1, <1>2, <1>3, <1>5, <1>6 DEF Shelves, StockReserved, Active, Open
<1>9. ASSUME NEW m \in ListingIds, listings'[m].status = "active"
      PROVE  /\ m # l /\ listings'[m] = listings[m] /\ Active(m)
             /\ listings[m].asset \in Items => carrier'[listings[m].asset] = HoldingOf[listings[m].store]
  <2>1. m # l /\ listings'[m] = listings[m] /\ Active(m)
    BY <1>5, <1>6, <1>9 DEF Active
  <2>2. listings[m].asset \in Items =>
          listings[m].asset # listings[l].asset /\ carrier[listings[m].asset] = HoldingOf[listings[m].store]
    BY <1>1, <1>2, <2>1 DEF Shelves, StockReserved
  <2>. QED BY <1>3, <2>1, <2>2
<1>10. \A k, m \in ListingIds :
         listings'[k].status = "active" /\ listings'[m].status = "active"
           /\ listings'[k].asset = listings'[m].asset /\ listings'[k].asset \in Items => k = m
  BY <1>2, <1>9 DEF Shelves, StockReserved
<1>11. ASSUME NEW i \in Items, carrier'[i] \in Holdings
       PROVE  \E m \in ListingIds : listings'[m].status = "active" /\ listings'[m].asset = i
  <2>1. i # listings[l].asset /\ carrier'[i] = carrier[i]
    BY <1>3, <1>11, EconomyAssumption
  <2>2. PICK m \in ListingIds : Active(m) /\ listings[m].asset = i
    BY <1>2, <1>11, <2>1 DEF Shelves, StockReserved, Reserved
  <2>. QED BY <1>5, <2>1, <2>2 DEF Active
<1>12. StockReserved'
  BY <1>8, <1>9, <1>10, <1>11 DEF StockReserved, Active, Reserved, Open
<1>13. carrier' \in [Items -> ItemPlaces] /\ goods' \in [Characters -> Nat]
  BY <1>2, <1>3 DEF World, ItemPlaces
<1>. QED BY <1>7, <1>12, <1>13 DEF Shelves

(* An item that is not on sale goes anywhere but into a container. *)
LEMMA CarrierKeeps ==
    ASSUME Shelves, UNCHANGED listings,
           \A s \in StoreIds : Open(s) => Open(s)',
           \A i \in Items : carrier'[i] # carrier[i] => i \notin Reserved /\ carrier'[i] \notin Holdings
    PROVE  Shelves'
<1>1. ASSUME NEW l \in ListingIds, Active(l), listings[l].asset \in Items
      PROVE  carrier'[listings[l].asset] = carrier[listings[l].asset]
  BY <1>1 DEF Reserved
<1>. QED BY <1>1 DEF Shelves, StockReserved, Active, Reserved

-----------------------------------------------------------------------------
(***************************************************************************)
(* The actions.  A quiet step leaves listings as they are, and open        *)
(* storefronts with whom they are; five actions are not quiet.             *)
(***************************************************************************)
Quiet ==
    /\ UNCHANGED listings
    /\ \A s \in StoreIds : Open(s) => stores'[s].owner = stores[s].owner
    /\ live' = live => goods' = goods

LEMMA InitSound == Init => Inv
<1>. SUFFICES ASSUME Init PROVE Inv
  OBVIOUS
<1>1. BooksAgree
  BY DEF BooksAgree, Init, EconomyInit, EmptyBank
<1>2. EconomyTypeOK
  <2>1. EmptyBank \in Bank /\ Committable(EmptyBank)
    BY DEF EmptyBank, Bank, Committable
  <2>2. \A c \in Characters : EmptyBank.purse[c] \in 0..MaxBalance
    BY EconomyAssumption DEF EmptyBank
  <2>. QED BY <2>1, <2>2, EconomyAssumption DEF Init, EconomyInit, EconomyTypeOK, ItemPlaces
<1>3. NoStorefront \in Store /\ Unlisted \in Listing
  BY StallsAssumption DEF NoStorefront, Store, Unlisted, Listing
<1>4. \A s \in StoreIds : stores[s] = NoStorefront /\ ~Open(s) /\ stores[s].kind = "none"
  BY DEF Init, NoStorefront, Open
<1>5. \A l \in ListingIds : listings[l] = Unlisted /\ ~Active(l) /\ listings[l].status = "none"
  BY DEF Init, Unlisted, Active
<1>6. estate \in [Properties -> Deed] /\ \A p \in Properties :
         /\ estate[p].owner \in live \cup {Nobody}
         /\ estate[p].state = "none" => estate[p].owner = Nobody
  BY DEF Init, EconomyInit, Deed
<1>7. TypeOK
  <2>1. 0 \in 0..LastPeriod
    BY StallsAssumption
  <2>2. goods \in [Characters -> Nat]
    BY StallsAssumption DEF Init
  <2>. QED BY <1>2, <1>3, <1>6, <2>1, <2>2 DEF Init, TypeOK, Deed
<1>8. SlotsDistinct /\ ShopFollowsProperty
  BY <1>4 DEF SlotsDistinct, ShopFollowsProperty
<1>9. StoresSound
  BY <1>4, StallsAssumption DEF StoresSound, NoStorefront
<1>10. EstateSound
  BY <1>4, <1>6 DEF EstateSound
<1>11. StockReserved
  <2>1. \A i \in Items : carrier[i] \notin Holdings
    BY EconomyAssumption DEF Init, EconomyInit
  <2>. QED BY <1>5, <2>1 DEF StockReserved
<1>12. ReadsMade
  BY DEF Init, ReadsMade
<1>. QED BY <1>1, <1>7, <1>8, <1>9, <1>10, <1>11, <1>12 DEF Inv

(* Whatever changes the bank, and nothing of the storefronts. *)
LEMMA WorldStep ==
    ASSUME Inv, GoodBank(bank'), UNCHANGED <<live, carrier, stores, listings, goods, estate, buying>>,
           frozen' \in BOOLEAN, place' \in [Characters -> Rooms],
           plays' \in [Characters -> SUBSET Accounts],
           catalogue' \in {"active", "archived", "missing"}, period' \in 0..LastPeriod,
           UNCHANGED saving
    PROVE  Inv' /\ Quiet
<1>1. World /\ Premises /\ Shelves /\ Readers
  BY InvParts
<1>2. World'
  BY <1>1 DEF World
<1>3. Premises'
  BY <1>1, PremisesKept
<1>4. Shelves'
  BY <1>1, ShelvesKept DEF Open
<1>5. Readers'
  BY <1>1, ReadersKept
<1>. QED BY <1>2, <1>3, <1>4, <1>5, PartsInv DEF Quiet

LEMMA AdministerStep ==
    ASSUME Inv,
           \/ SetFrozen /\ UNCHANGED stallVars
           \/ \E roster \in Rosters : ChangeRoster(roster) /\ UNCHANGED stallVars
           \/ \E c \in Characters, amount \in Amounts :
                 (Credit(c, amount) \/ Debit(c, amount)) /\ UNCHANGED stallVars
           \/ \E state \in {"active", "archived", "missing"} : Recatalogue(state)
    PROVE  Inv' /\ Quiet
<1>1. GoodBank(bank) /\ World
  BY InvParts
<1>2. CASE SetFrozen /\ UNCHANGED stallVars
  BY <1>1, <1>2, WorldStep DEF SetFrozen, stallVars, World
<1>3. ASSUME NEW roster \in Rosters, ChangeRoster(roster), UNCHANGED stallVars PROVE Inv' /\ Quiet
  BY <1>1, <1>3, WorldStep, EconomyAssumption DEF ChangeRoster, stallVars, World
<1>4. ASSUME NEW c \in Characters, NEW amount \in Amounts,
             Credit(c, amount) \/ Debit(c, amount), UNCHANGED stallVars
      PROVE  Inv' /\ Quiet
  <2>1. GoodBank(bank')
    BY <1>1, <1>4, CreditGood
  <2>. QED BY <1>1, <1>4, <2>1, WorldStep DEF Credit, Debit, stallVars, World
<1>5. ASSUME NEW state \in {"active", "archived", "missing"}, Recatalogue(state) PROVE Inv' /\ Quiet
  BY <1>1, <1>5, WorldStep DEF Recatalogue, economyVars, World
<1>. QED BY <1>2, <1>3, <1>4, <1>5

LEMMA WalkStep ==
    ASSUME Inv, NEW c \in Characters, NEW room \in Rooms, Walk(c, room) PROVE Inv' /\ Quiet
<1>1. GoodBank(bank) /\ World
  BY InvParts
<1>. QED BY <1>1, WorldStep DEF Walk, stallVars, World

LEMMA NewPeriodStep == ASSUME Inv, NewPeriod PROVE Inv' /\ Quiet
<1>1. GoodBank(bank) /\ World
  BY InvParts
<1>2. period' \in 0..LastPeriod
  BY <1>1, StallsAssumption DEF NewPeriod, World
<1>. QED BY <1>1, <1>2, WorldStep DEF NewPeriod, economyVars, World

(* Reading a listing, and being refused. *)
LEMMA BuyReadStep ==
    ASSUME Inv, NEW c \in Characters, \/ \E l \in ListingIds : BuyRead(c, l)
                                      \/ BuyRefused(c)
    PROVE  Inv' /\ Quiet
<1>1. GoodBank(bank) /\ World /\ Premises /\ Shelves /\ Readers
  BY InvParts
<1>2. UNCHANGED <<economyVars, setting, stores, listings, goods>>
  BY DEF BuyRead, BuyRefused
<1>3. GoodBank(bank') /\ World'
  BY <1>1, <1>2 DEF World, economyVars, setting
<1>4. Premises' /\ Shelves'
  BY <1>1, <1>2, PremisesKept, ShelvesKept DEF economyVars, setting, Open
<1>5. Readers'
  <2>1. ASSUME NEW l \in ListingIds, BuyRead(c, l) PROVE Readers'
    <3>1. l \in ListingIds /\ listings[l].status # "none" /\ c \in live
      BY <2>1 DEF BuyRead
    <3>2. stores[listings[l].store].owner \in Characters
      <4>1. listings[l].store \in StoreIds
        BY <1>1, <3>1 DEF Shelves, StockReserved
      <4>. QED BY <1>1, <2>1, <4>1 DEF BuyRead, Premises, StoresSound, World
    <3>3. buying' = [buying EXCEPT ![c] = [listing |-> l, owner |-> stores[listings[l].store].owner]]
      BY <2>1 DEF BuyRead
    <3>4. buying' \in [Characters -> [listing : ListingIds, owner : Characters] \cup {NotBuying}]
      BY <1>1, <3>2, <3>3 DEF Readers
    <3>5. ReadsMade'
      <4>. SUFFICES ASSUME NEW d \in Characters, buying'[d] # NotBuying
                    PROVE  d \in live' /\ listings'[buying'[d].listing].status # "none"
        BY DEF ReadsMade
      <4>1. CASE d = c
        <5>1. buying'[c].listing = l
          BY <1>1, <3>3 DEF Readers
        <5>. QED BY <1>2, <3>1, <4>1, <5>1 DEF economyVars
      <4>2. CASE d # c
        <5>1. buying'[d] = buying[d]
          BY <1>1, <3>3, <4>2 DEF Readers
        <5>. QED BY <1>1, <1>2, <5>1 DEF Readers, ReadsMade, economyVars
      <4>. QED BY <4>1, <4>2
    <3>. QED BY <3>4, <3>5 DEF Readers
  <2>2. CASE BuyRefused(c)
    BY <1>1, <1>2, <2>2 DEF BuyRefused, Readers, ReadsMade, economyVars
  <2>. QED BY <2>1, <2>2
<1>. QED BY <1>2, <1>3, <1>4, <1>5, PartsInv DEF Quiet

LEMMA ClaimStep ==
    ASSUME Inv, NEW c \in Characters, Claim(c) PROVE Inv' /\ Quiet
<1>1. GoodBank(bank) /\ World /\ Premises /\ Shelves /\ Readers
  BY InvParts
<1>2. /\ c \in live /\ Charged("stall_claim", c)
      /\ UNCHANGED <<people, setting, carrier, listings, goods, buying>>
  BY DEF Claim
<1>3. GoodBank(bank')
  BY <1>1, <1>2, ChargedGood DEF FeeKinds
<1>4. PICK s \in Fresh(stores, StoreIds) : OpenStore(s,
          [kind |-> "stall", status |-> "open", owner |-> c, room |-> place[c],
           slot |-> LowestFree(place[c]), property |-> NoProperty, paid |-> period])
  BY DEF Claim
<1>. DEFINE row == [kind |-> "stall", status |-> "open", owner |-> c, room |-> place[c],
                    slot |-> LowestFree(place[c]), property |-> NoProperty, paid |-> period]
<1>5. s \in StoreIds /\ ~Open(s) /\ stores' = [stores EXCEPT ![s] = row]
  BY <1>4 DEF Fresh, Open, OpenStore
<1>6. row \in Store
  <2>1. LowestFree(place[c]) \in Slots
    BY <1>5, FreeSlot
  <2>. QED BY <1>1, <2>1 DEF World, Store
<1>7. Premises'
  BY <1>1, <1>2, <1>4, <1>6, OpenStoreKeeps, StallsAssumption DEF people, setting, World, Premises
<1>8. \A t \in StoreIds : Open(t) => stores'[t] = stores[t]
  BY <1>1, <1>5 DEF Premises
<1>9. World'
  BY <1>1, <1>2 DEF World, people, setting
<1>10. Shelves' /\ Readers'
  BY <1>1, <1>2, <1>8, ShelvesKept, ReadersKept DEF Open, people
<1>. QED BY <1>2, <1>3, <1>7, <1>8, <1>9, <1>10, PartsInv DEF Quiet

(* Promote and Reconcile: a property's shop opens. *)
OpensShop(p, c) ==
    /\ CreateForProperty(p, c)
    /\ estate'[p] = [owner |-> c, state |-> "live"]
    /\ \A q \in Properties : q # p => estate'[q] = estate[q]
    /\ estate' \in [Properties -> Deed]
    /\ UNCHANGED <<people, catalogue, period, saving, carrier, listings, goods, buying>>

LEMMA ShopStep ==
    ASSUME Inv, NEW p \in Properties,
           (\E c \in Characters : Promote(p, c)) \/ Reconcile(p)
    PROVE  Inv' /\ Quiet
<1>1. GoodBank(bank) /\ World /\ Premises /\ Shelves /\ Readers
  BY InvParts
<1>o. PICK c \in Characters : OpensShop(p, c)
  <2>1. estate \in [Properties -> Deed]
    BY <1>1 DEF Premises
  <2>2. ASSUME NEW c \in Characters, Promote(p, c) PROVE OpensShop(p, c)
    <3>1. estate' = [estate EXCEPT ![p] = [owner |-> c, state |-> "live"]]
      BY <2>2 DEF Promote
    <3>2. [owner |-> c, state |-> "live"] \in Deed
      BY DEF Deed
    <3>. QED BY <2>1, <2>2, <3>1, <3>2 DEF Promote, OpensShop
  <2>3. ASSUME Reconcile(p) PROVE \E c \in Characters : OpensShop(p, c)
    <3>. DEFINE c == estate[p].owner
    <3>1. /\ estate[p].state = "live" /\ CreateForProperty(p, c)
          /\ UNCHANGED <<people, setting, carrier, listings, goods, buying>>
      BY <2>3 DEF Reconcile
    <3>2. c \in Characters
      BY <1>1, <3>1 DEF CreateForProperty, World
    <3>3. estate[p] = [owner |-> c, state |-> "live"]
      BY <2>1, <3>1 DEF Deed
    <3>. QED BY <2>1, <3>1, <3>2, <3>3 DEF setting, OpensShop
  <2>. QED BY <2>2, <2>3
<1>2. /\ CreateForProperty(p, c)
      /\ estate'[p] = [owner |-> c, state |-> "live"]
      /\ \A q \in Properties : q # p => estate'[q] = estate[q]
      /\ estate' \in [Properties -> Deed]
      /\ UNCHANGED <<people, catalogue, period, saving, carrier, listings, goods, buying>>
  BY <1>o DEF OpensShop
<1>3. /\ c \in live /\ ShopsOf(p) = {} /\ Charged("shop_approval", c)
  BY <1>2 DEF CreateForProperty
<1>4. GoodBank(bank')
  BY <1>1, <1>3, ChargedGood DEF FeeKinds
<1>5. PICK s \in Fresh(stores, StoreIds) : OpenStore(s,
          [kind |-> "shop", status |-> "open", owner |-> c, room |-> ShopRoom[p],
           slot |-> LowestFree(ShopRoom[p]), property |-> p, paid |-> period])
  BY <1>2 DEF CreateForProperty
<1>. DEFINE row == [kind |-> "shop", status |-> "open", owner |-> c, room |-> ShopRoom[p],
                    slot |-> LowestFree(ShopRoom[p]), property |-> p, paid |-> period]
<1>6. s \in StoreIds /\ ~Open(s) /\ stores' = [stores EXCEPT ![s] = row]
  BY <1>5 DEF Fresh, Open, OpenStore
<1>7. row \in Store
  <2>1. LowestFree(ShopRoom[p]) \in Slots
    BY <1>6, FreeSlot
  <2>. QED BY <1>1, <2>1, StallsAssumption DEF World, Store
<1>8. Premises'
  <2>1. /\ row.kind = "shop" /\ row.status = "open" /\ row.owner = c /\ row.property = p
        /\ row.slot = LowestFree(row.room)
    OBVIOUS
  <2>2. OpenStore(s, row)
    BY <1>5
  <2>. HIDE DEF row
  <2>. QED BY <1>1, <1>2, <1>3, <1>7, <2>1, <2>2, OpenStoreKeeps DEF people, World
<1>9. \A t \in StoreIds : Open(t) => stores'[t] = stores[t]
  BY <1>1, <1>6 DEF Premises
<1>10. World'
  BY <1>1, <1>2 DEF World, people
<1>11. Shelves' /\ Readers'
  BY <1>1, <1>2, <1>9, ShelvesKept, ReadersKept DEF Open, people
<1>. QED BY <1>2, <1>4, <1>8, <1>9, <1>10, <1>11, PartsInv DEF Quiet

LEMMA SuspendStep ==
    ASSUME Inv, NEW p \in Properties, Suspend(p) PROVE Inv' /\ Quiet
<1>1. GoodBank(bank) /\ World /\ Premises /\ Shelves /\ Readers
  BY InvParts
<1>2. UNCHANGED <<economyVars, stores, listings, goods, catalogue, period, buying, saving>>
  BY DEF Suspend
<1>3. GoodBank(bank') /\ World'
  BY <1>1, <1>2 DEF World, economyVars
<1>4. Premises'
  BY <1>1, SuspendKeeps
<1>5. Shelves' /\ Readers'
  BY <1>1, <1>2, ShelvesKept, ReadersKept DEF Open, economyVars
<1>. QED BY <1>2, <1>3, <1>4, <1>5, PartsInv DEF Quiet

LEMMA ReopenStep ==
    ASSUME Inv, NEW c \in Characters, NEW s \in StoreIds, Reopen(c, s) PROVE Inv' /\ Quiet
<1>1. GoodBank(bank) /\ World /\ Premises /\ Shelves /\ Readers
  BY InvParts
<1>2. /\ UNCHANGED <<economyVars, setting, listings, goods, buying>>
      /\ stores[s].status = "closed"
      /\ stores' = [stores EXCEPT ![s].status = "open", ![s].slot = ReopeningSlot(s)]
  BY DEF Reopen
<1>3. GoodBank(bank') /\ World'
  BY <1>1, <1>2 DEF World, economyVars, setting
<1>4. Premises'
  BY <1>1, ReopenKeeps
<1>5. \A t \in StoreIds : Open(t) => stores'[t] = stores[t]
  BY <1>1, <1>2 DEF Premises, Open
<1>6. Shelves' /\ Readers'
  BY <1>1, <1>2, <1>5, ShelvesKept, ReadersKept DEF Open, economyVars
<1>. QED BY <1>2, <1>3, <1>4, <1>5, <1>6, PartsInv DEF Quiet

LEMMA UpkeepStep ==
    ASSUME Inv, NEW s \in StoreIds, Upkeep(s) PROVE Inv' /\ Quiet
<1>1. GoodBank(bank) /\ World /\ Premises /\ Shelves /\ Readers
  BY InvParts
<1>. DEFINE kind == IF stores[s].kind = "shop" THEN "shop_upkeep" ELSE "stall_upkeep"
<1>2. /\ Open(s) /\ stores[s].owner # Nobody /\ Charged(kind, stores[s].owner)
      /\ stores' = [stores EXCEPT ![s].paid = period]
      /\ UNCHANGED <<people, setting, carrier, listings, goods, buying>>
  BY DEF Upkeep, UpkeepDue
<1>3. GoodBank(bank')
  <2>1. kind \in FeeKinds
    BY DEF FeeKinds
  <2>2. stores[s].owner \in Characters
    BY <1>1, <1>2 DEF Premises, StoresSound, World
  <2>. HIDE DEF kind
  <2>. QED BY <1>1, <1>2, <2>1, <2>2, ChargedGood
<1>4. World'
  BY <1>1, <1>2 DEF World, people, setting
<1>5. /\ stores' \in [StoreIds -> Store]
      /\ stores'[s] = [stores[s] EXCEPT !.paid = period]
      /\ \A t \in StoreIds : t # s => stores'[t] = stores[t]
  <2>1. stores \in [StoreIds -> Store] /\ period \in 0..LastPeriod
    BY <1>1 DEF Premises, World
  <2>2. [stores[s] EXCEPT !.paid = period] \in Store
    BY <2>1 DEF Store
  <2>. QED BY <1>2, <2>1, <2>2
<1>6. /\ stores'[s].kind = stores[s].kind /\ stores'[s].owner = stores[s].owner
      /\ stores'[s].room = stores[s].room /\ stores'[s].slot = stores[s].slot
      /\ stores'[s].property = stores[s].property /\ stores'[s].status = stores[s].status
  <2>1. stores[s] \in Store
    BY <1>1 DEF Premises
  <2>. QED BY <1>5, <2>1 DEF Store
<1>7. Premises'
  <2>1. stores'[s].status # "none"
    BY <1>2, <1>6 DEF Open
  <2>. QED BY <1>1, <1>2, <1>5, <1>6, <2>1, StatusKeeps DEF people, setting
<1>8. \A t \in StoreIds : stores'[t].owner = stores[t].owner /\ stores'[t].status = stores[t].status
  BY <1>5, <1>6
<1>9. Shelves' /\ Readers'
  BY <1>1, <1>2, <1>8, ShelvesKept, ReadersKept DEF Open, people
<1>. QED BY <1>2, <1>3, <1>4, <1>7, <1>8, <1>9, PartsInv DEF Quiet

(* The guard: what may move is not on sale. *)
LEMMA RelocateStep ==
    ASSUME Inv, NEW i \in Items, NEW to \in Characters \cup Rooms, Relocate(i, to)
    PROVE  Inv' /\ Quiet /\ i \notin Reserved
<1>1. GoodBank(bank) /\ World /\ Premises /\ Shelves /\ Readers
  BY InvParts
<1>2. /\ ~Guarded(i)
      /\ carrier' = [carrier EXCEPT ![i] = to]
      /\ UNCHANGED <<people, bank, stallVars>>
  BY DEF Relocate, Unguarded
<1>3. i \notin Reserved
  <2>1. ASSUME NEW l \in ListingIds, Active(l), listings[l].asset = i PROVE FALSE
    <3>1. listings[l].store \in StoreIds /\ carrier[i] = HoldingOf[listings[l].store]
      BY <1>1, <2>1 DEF Shelves, StockReserved, Active
    <3>. QED BY <1>2, <2>1, <3>1 DEF Guarded, Stock
  <2>. QED BY <2>1 DEF Reserved
<1>4. GoodBank(bank') /\ World'
  BY <1>1, <1>2 DEF World, people, stallVars, ItemPlaces
<1>5. Premises' /\ Readers'
  BY <1>1, <1>2, PremisesKept, ReadersKept DEF people, stallVars
<1>6. Shelves'
  <2>1. to \notin Holdings
    BY EconomyAssumption
  <2>2. \A j \in Items : carrier'[j] # carrier[j] => j \notin Reserved /\ carrier'[j] \notin Holdings
    BY <1>1, <1>2, <1>3, <2>1 DEF World
  <2>. QED BY <1>1, <1>2, <2>2, CarrierKeeps DEF stallVars, Open
<1>. QED BY <1>2, <1>3, <1>4, <1>5, <1>6, PartsInv DEF Quiet, stallVars

LEMMA DeleteCharacterStep ==
    ASSUME Inv, NEW c \in Characters, DeleteCharacter(c) PROVE Inv' /\ Quiet
<1>1. GoodBank(bank) /\ World /\ Premises /\ Shelves /\ Readers
  BY InvParts
<1>2. /\ c \in live /\ live' = live \ {c}
      /\ \A s \in StoreIds : Open(s) => stores[s].owner # c
      /\ bank' = BurnDeleted(bank, c, bank.purse[c])
      /\ carrier' = [i \in Items |-> IF carrier[i] = c THEN Home ELSE carrier[i]]
      /\ stores' = [s \in StoreIds |-> IF stores[s].owner = c
                       THEN [stores[s] EXCEPT !.owner = Nobody] ELSE stores[s]]
      /\ goods' = [goods EXCEPT ![c] = 0]
      /\ buying' = [buying EXCEPT ![c] = NotBuying]
      /\ UNCHANGED <<frozen, place, plays, listings, catalogue, period, saving>>
  BY DEF DeleteCharacter, DeletionGuard
<1>3. GoodBank(bank')
  <2>1. bank.purse[c] \in Nat
    BY <1>1 DEF GoodBank, Sound
  <2>2. /\ Sound(BurnDeleted(bank, c, bank.purse[c]))
        /\ BurnDeleted(bank, c, bank.purse[c]).missed = bank.missed
        /\ \A d \in Characters : Drift(BurnDeleted(bank, c, bank.purse[c]), d) = Drift(bank, d)
    BY <1>1, <2>1, BurnDeletedSound DEF GoodBank
  <2>. QED BY <1>1, <1>2, <2>2 DEF GoodBank, Committable
<1>4. World'
  BY <1>1, <1>2, EconomyAssumption DEF World, ItemPlaces
<1>5. Premises'
  BY <1>1, DeleteKeepsPremises DEF World
<1>6. \A s \in StoreIds : Open(s) => stores'[s] = stores[s]
  BY <1>2
<1>7. Shelves'
  <2>1. ASSUME NEW i \in Items, carrier'[i] # carrier[i]
        PROVE  i \notin Reserved /\ carrier'[i] \notin Holdings
    <3>1. carrier[i] = c /\ carrier'[i] = Home
      BY <1>2, <2>1
    <3>2. c \notin Holdings /\ Home \notin Holdings
      BY EconomyAssumption
    <3>3. ASSUME NEW l \in ListingIds, Active(l), listings[l].asset = i PROVE FALSE
      <4>1. listings[l].store \in StoreIds /\ carrier[i] = HoldingOf[listings[l].store]
        BY <1>1, <3>3 DEF Shelves, StockReserved, Active
      <4>2. HoldingOf[listings[l].store] \in Holdings
        BY <4>1, StallsAssumption
      <4>. QED BY <3>1, <3>2, <4>1, <4>2
    <3>. QED BY <3>1, <3>2, <3>3 DEF Reserved
  <2>2. \A s \in StoreIds : Open(s) => Open(s)'
    BY <1>6 DEF Open
  <2>. QED BY <1>1, <1>2, <2>1, <2>2, CarrierKeeps
<1>8. Readers'
  BY <1>1, <1>2 DEF Readers, ReadsMade
<1>9. Quiet
  BY <1>2, <1>6 DEF Quiet
<1>. QED BY <1>3, <1>4, <1>5, <1>7, <1>8, <1>9, PartsInv

-----------------------------------------------------------------------------
(* The five actions that are not quiet. *)

LEMMA ListStockStep ==
    ASSUME Inv, NEW c \in Characters, NEW s \in StoreIds, NEW asset \in Items \cup {Lot},
           NEW price \in Prices, ListStock(c, s, asset, price)
    PROVE  Inv'
<1>1. GoodBank(bank) /\ World /\ Premises /\ Shelves /\ Readers
  BY InvParts
<1>2. /\ Charged("listing", c)
      /\ UNCHANGED <<people, setting, stores, buying>>
      /\ \E l \in Fresh(listings, ListingIds) :
            listings' = [listings EXCEPT ![l] =
                [status |-> "active", store |-> s, asset |-> asset, price |-> price]]
  BY DEF ListStock
<1>3. GoodBank(bank')
  BY <1>1, <1>2, ChargedGood DEF FeeKinds
<1>4. Shelves' /\ carrier' \in [Items -> ItemPlaces] /\ goods' \in [Characters -> Nat]
  BY <1>1, <1>2, ListStockKeeps
<1>5. World'
  BY <1>1, <1>2, <1>4 DEF World, people, setting
<1>6. Premises'
  BY <1>1, <1>2, PremisesKept DEF people, setting
<1>7. \A l \in ListingIds : listings[l].status # "none" => listings'[l].status # "none"
  BY <1>1, <1>2 DEF Shelves
<1>8. Readers'
  BY <1>1, <1>2, <1>7, ReadersKept DEF people
<1>. QED BY <1>3, <1>4, <1>5, <1>6, <1>8, PartsInv

(* Listings that are returned stay made. *)
LEMMA ReturnReaders ==
    ASSUME Inv, NEW s \in StoreIds, stores[s].owner \in Characters,
           NEW rows \in SUBSET Stock(s), Return(s, rows), UNCHANGED <<live, buying>>
    PROVE  Readers'
<1>1. World /\ Shelves /\ Readers
  BY InvParts
<1>2. /\ \A l \in rows : listings'[l] = [listings[l] EXCEPT !.status = "returned"] /\ l \in ListingIds
      /\ \A l \in ListingIds \ rows : listings'[l] = listings[l]
  BY <1>1, ReturnMeans
<1>3. ASSUME NEW l \in ListingIds, listings[l].status # "none" PROVE listings'[l].status # "none"
  <2>1. CASE l \in rows
    <3>1. listings[l] \in Listing
      BY <1>1 DEF Shelves
    <3>2. listings'[l].status = "returned"
      BY <1>2, <2>1, <3>1 DEF Listing
    <3>. QED BY <3>2
  <2>2. CASE l \notin rows
    BY <1>2, <1>3, <2>2
  <2>. QED BY <2>1, <2>2
<1>. QED BY <1>1, <1>3, ReadersKept

(* What Unlist returns is its storefront's. *)
LEMMA UnlistMeans ==
    ASSUME Inv, NEW c \in Characters, NEW l \in ListingIds, Unlist(c, l)
    PROVE  LET s == listings[l].store
           IN  /\ s \in StoreIds /\ stores[s].owner = c /\ {l} \in SUBSET Stock(s) /\ Return(s, {l})
               /\ UNCHANGED <<people, setting, bank, stores, buying>>
<1>. DEFINE s == listings[l].store
<1>1. Shelves
  BY InvParts
<1>2. /\ Active(l) /\ Manages(c, s, TRUE) /\ Return(s, {l})
      /\ UNCHANGED <<people, setting, bank, stores, buying>>
  BY DEF Unlist, Unlistable
<1>3. s \in StoreIds
  BY <1>1, <1>2 DEF Shelves, StockReserved, Active
<1>4. stores[s].owner = c
  BY <1>2 DEF Manages
<1>5. {l} \in SUBSET Stock(s)
  BY <1>2 DEF Stock
<1>. QED BY <1>2, <1>3, <1>4, <1>5

LEMMA UnlistStep ==
    ASSUME Inv, NEW c \in Characters, NEW l \in ListingIds, Unlist(c, l) PROVE Inv'
<1>. DEFINE s == listings[l].store
<1>1. GoodBank(bank) /\ World /\ Premises /\ Shelves /\ Readers
  BY InvParts
<1>2. /\ s \in StoreIds /\ stores[s].owner \in Characters /\ {l} \in SUBSET Stock(s) /\ Return(s, {l})
      /\ UNCHANGED <<people, setting, bank, stores, buying>>
  BY UnlistMeans
<1>. HIDE DEF s
<1>3. carrier' \in [Items -> ItemPlaces] /\ goods' \in [Characters -> Nat]
  BY <1>1, <1>2, ReturnMeans
<1>4. Shelves'
  BY <1>1, <1>2, ReturnKeeps DEF Open
<1>5. GoodBank(bank') /\ World'
  BY <1>1, <1>2, <1>3 DEF World, people, setting
<1>6. Premises'
  BY <1>1, <1>2, PremisesKept DEF people, setting
<1>7. Readers'
  BY <1>2, ReturnReaders DEF people
<1>. QED BY <1>4, <1>5, <1>6, <1>7, PartsInv

LEMMA BuyStep ==
    ASSUME Inv, NEW c \in Characters, Buy(c) PROVE Inv'
<1>1. World /\ Premises /\ Shelves /\ Readers
  BY InvParts
<1>2. /\ UNCHANGED <<people, setting, stores>>
      /\ listings' = [listings EXCEPT ![buying[c].listing].status = "sold"]
      /\ buying' = [buying EXCEPT ![c] = NotBuying]
  BY DEF Buy, Deliver
<1>3. GoodBank(bank')
  BY BuyPays
<1>4. Shelves' /\ carrier' \in [Items -> ItemPlaces] /\ goods' \in [Characters -> Nat]
  BY BuyKeeps
<1>5. World'
  BY <1>1, <1>2, <1>4 DEF World, people, setting
<1>6. Premises'
  BY <1>1, <1>2, PremisesKept DEF people, setting
<1>7. Readers'
  <2>1. \A l \in ListingIds : listings[l].status # "none" => listings'[l].status # "none"
    BY <1>1, <1>2 DEF Shelves, Listing
  <2>. QED BY <1>1, <1>2, <2>1 DEF Readers, ReadsMade, people
<1>. QED BY <1>3, <1>4, <1>5, <1>6, <1>7, PartsInv

LEMMA CloseStep ==
    ASSUME Inv, NEW s \in StoreIds, Open(s), stores[s].owner # Nobody, Close(s)
    PROVE  Inv'
<1>1. GoodBank(bank) /\ World /\ Premises /\ Shelves /\ Readers
  BY InvParts
<1>2. /\ Return(s, Stock(s))
      /\ stores' = [stores EXCEPT ![s].status = "closed"]
      /\ UNCHANGED <<people, setting, bank, buying>>
  BY DEF Close, Recalled
<1>3. stores[s].owner \in Characters
  BY <1>1 DEF Premises, StoresSound, World
<1>4. /\ stores' \in [StoreIds -> Store]
      /\ stores'[s] = [stores[s] EXCEPT !.status = "closed"]
      /\ \A t \in StoreIds : t # s => stores'[t] = stores[t]
  <2>1. stores \in [StoreIds -> Store]
    BY <1>1 DEF Premises
  <2>2. [stores[s] EXCEPT !.status = "closed"] \in Store
    BY <2>1 DEF Store
  <2>. QED BY <1>2, <2>1, <2>2
<1>5. /\ stores'[s].kind = stores[s].kind /\ stores'[s].owner = stores[s].owner
      /\ stores'[s].room = stores[s].room /\ stores'[s].slot = stores[s].slot
      /\ stores'[s].property = stores[s].property /\ stores'[s].status = "closed"
  <2>1. stores[s] \in Store
    BY <1>1 DEF Premises
  <2>. QED BY <1>4, <2>1 DEF Store
<1>6. Premises'
  BY <1>1, <1>2, <1>4, <1>5, StatusKeeps DEF people, setting
<1>7. carrier' \in [Items -> ItemPlaces] /\ goods' \in [Characters -> Nat]
  BY <1>1, <1>2, <1>3, ReturnMeans
<1>8. GoodBank(bank') /\ World'
  BY <1>1, <1>2, <1>7 DEF World, people, setting
<1>9. Shelves'
  <2>1. \A t \in StoreIds : Open(t) /\ (t # s \/ Stock(s) # Stock(s)) => Open(t)'
    BY <1>4 DEF Open
  <2>. QED BY <1>1, <1>2, <1>3, <2>1, ReturnKeeps
<1>10. Readers'
  BY <1>2, <1>3, ReturnReaders DEF people
<1>. QED BY <1>6, <1>8, <1>9, <1>10, PartsInv

(* What a transfer does to the property's shop, if there is one. *)
LEMMA TransferMeans ==
    ASSUME Inv, NEW p \in Properties, NEW new \in Characters, NEW disposition \in {"return", "transfer"},
           Transfer(p, new, disposition)
    PROVE  /\ UNCHANGED <<people, bank, catalogue, period, buying, saving>>
           /\ \/ UNCHANGED <<stores, listings, carrier, goods>>
              \/ \E s \in StoreIds :
                    /\ stores[s].property = p
                    /\ stores[s].owner \in Characters
                    /\ stores' = [stores EXCEPT ![s].owner = new]
                    /\ \/ Return(s, Stock(s))
                       \/ /\ Stock(s) # {} => ~SameAccount(stores[s].owner, new)
                          /\ UNCHANGED <<listings, carrier, goods>>
<1>1. Premises /\ World
  BY InvParts
<1>2. CASE ShopsOf(p) = {} /\ UNCHANGED <<stores, listings, carrier, goods>>
  BY <1>2 DEF Transfer
<1>3. ASSUME NEW s \in ShopsOf(p), stores[s].owner # Nobody, PassStock(s, new, disposition), PassShop(s, new)
      PROVE  \E t \in StoreIds :
                /\ stores[t].property = p
                /\ stores[t].owner \in Characters
                /\ stores' = [stores EXCEPT ![t].owner = new]
                /\ \/ Return(t, Stock(t))
                   \/ /\ Stock(t) # {} => ~SameAccount(stores[t].owner, new)
                      /\ UNCHANGED <<listings, carrier, goods>>
  <2>1. s \in StoreIds /\ stores[s].property = p
    BY DEF ShopsOf
  <2>2. stores[s].owner \in Characters
    BY <1>1, <1>3, <2>1 DEF Premises, StoresSound, World
  <2>. QED BY <1>3, <2>1, <2>2 DEF PassStock, PassShop
<1>. QED BY <1>2, <1>3 DEF Transfer

LEMMA TransferStep ==
    ASSUME Inv, NEW p \in Properties, NEW new \in Characters, NEW disposition \in {"return", "transfer"},
           Transfer(p, new, disposition)
    PROVE  Inv'
<1>1. GoodBank(bank) /\ World /\ Premises /\ Shelves /\ Readers
  BY InvParts
<1>2. UNCHANGED <<people, bank, catalogue, period, buying, saving>>
  BY TransferMeans
<1>3. Premises'
  <2>1. /\ estate[p].state # "none" /\ new \in live /\ estate' = [estate EXCEPT ![p].owner = new]
        /\ \/ ShopsOf(p) = {} /\ UNCHANGED stores
           \/ \E s \in ShopsOf(p) : stores[s].owner # Nobody /\ PassShop(s, new)
    BY DEF Transfer
  <2>. QED BY <1>1, <1>2, <2>1, TransferKeeps DEF people, World
<1>4. CASE UNCHANGED <<stores, listings, carrier, goods>>
  <2>1. GoodBank(bank') /\ World'
    BY <1>1, <1>2, <1>4 DEF World, people
  <2>2. Shelves' /\ Readers'
    BY <1>1, <1>2, <1>4, ShelvesKept, ReadersKept DEF Open, people
  <2>. QED BY <1>3, <2>1, <2>2, PartsInv
<1>5. ASSUME NEW s \in StoreIds, stores[s].owner \in Characters,
             stores' = [stores EXCEPT ![s].owner = new],
             Return(s, Stock(s)) \/ UNCHANGED <<listings, carrier, goods>>
      PROVE  Inv'
  <2>1. \A t \in StoreIds : Open(t) => Open(t)'
    BY <1>1, <1>5 DEF Premises, Open, Store
  <2>2. CASE UNCHANGED <<listings, carrier, goods>>
    <3>1. GoodBank(bank') /\ World'
      BY <1>1, <1>2, <2>2 DEF World, people
    <3>2. Shelves' /\ Readers'
      BY <1>1, <1>2, <2>1, <2>2, ShelvesKept, ReadersKept DEF people
    <3>. QED BY <1>3, <3>1, <3>2, PartsInv
  <2>3. CASE Return(s, Stock(s))
    <3>1. carrier' \in [Items -> ItemPlaces] /\ goods' \in [Characters -> Nat]
      BY <1>1, <1>5, <2>3, ReturnMeans
    <3>2. GoodBank(bank') /\ World'
      BY <1>1, <1>2, <3>1 DEF World, people
    <3>3. Shelves'
      BY <1>1, <1>5, <2>1, <2>3, ReturnKeeps
    <3>4. Readers'
      BY <1>2, <1>5, <2>3, ReturnReaders DEF people
    <3>. QED BY <1>3, <3>2, <3>3, <3>4, PartsInv
  <2>. QED BY <1>5, <2>2, <2>3
<1>. QED BY <1>4, <1>5, TransferMeans

-----------------------------------------------------------------------------
(* Every step of Spec is quiet, or one of the five; the invariant holds    *)
(* after it.                                                               *)
Loud ==
    \/ \E c \in Characters, s \in StoreIds, asset \in Items \cup {Lot}, price \in Prices :
          ListStock(c, s, asset, price)
    \/ \E c \in Characters, l \in ListingIds : Unlist(c, l)
    \/ \E c \in Characters : Buy(c)
    \/ \E s \in StoreIds : Open(s) /\ stores[s].owner # Nobody /\ Close(s)
    \/ \E p \in Properties, new \in Characters, disposition \in {"return", "transfer"} :
          Transfer(p, new, disposition)

LEMMA LoudStep == ASSUME Inv, Loud PROVE Inv'
BY ListStockStep, UnlistStep, BuyStep, CloseStep, TransferStep DEF Loud

LEMMA EachStep == Inv /\ [Next]_vars => Inv' /\ (Quiet \/ Loud)
<1>. SUFFICES ASSUME Inv, [Next]_vars PROVE (Inv' /\ Quiet) \/ Loud
  BY LoudStep
<1>1. CASE UNCHANGED vars
  <2>1. GoodBank(bank) /\ World
    BY InvParts
  <2>. QED BY <1>1, <2>1, WorldStep DEF vars, economyVars, stallVars, World
<1>2. CASE Administer
  <2>1. ASSUME NEW s \in StoreIds, StaffClose(s) PROVE Loud
    BY <2>1 DEF StaffClose, Loud
  <2>. QED BY <1>2, <2>1, AdministerStep DEF Administer
<1>3. CASE Sweep
  BY <1>3, NewPeriodStep, UpkeepStep DEF Sweep
<1>4. ASSUME NEW p \in Properties, Building(p) PROVE (Inv' /\ Quiet) \/ Loud
  <2>1. CASE \E new \in Characters, disposition \in {"return", "transfer"} : Transfer(p, new, disposition)
    BY <2>1 DEF Loud
  <2>. QED BY <1>4, <2>1, ShopStep, SuspendStep DEF Building
<1>5. ASSUME NEW c \in Characters, Trade(c) PROVE (Inv' /\ Quiet) \/ Loud
  <2>1. CASE Claim(c)
    BY <2>1, ClaimStep
  <2>2. ASSUME NEW s \in StoreIds, NEW asset \in Items \cup {Lot}, NEW price \in Prices,
               ListStock(c, s, asset, price)
        PROVE  Loud
    BY <2>2 DEF Loud
  <2>3. ASSUME NEW l \in ListingIds, Unlist(c, l) PROVE Loud
    BY <2>3 DEF Loud
  <2>4. CASE \/ \E l \in ListingIds : BuyRead(c, l)
             \/ BuyRefused(c)
    BY <2>4, BuyReadStep
  <2>5. CASE Buy(c)
    BY <2>5 DEF Loud
  <2>6. ASSUME NEW s \in StoreIds, CloseOwn(c, s) PROVE Loud
    <3>1. Open(s) /\ stores[s].owner = c /\ Close(s)
      BY <2>6 DEF CloseOwn, Manages
    <3>. QED BY <3>1, EconomyAssumption DEF Loud
  <2>7. ASSUME NEW s \in StoreIds, Reopen(c, s) PROVE Inv' /\ Quiet
    BY <2>7, ReopenStep
  <2>. QED BY <1>5, <2>1, <2>2, <2>3, <2>4, <2>5, <2>6, <2>7 DEF Trade
<1>6. CASE \E c \in Characters : DeleteCharacter(c)
  BY <1>6, DeleteCharacterStep
<1>7. CASE \E c \in Characters : \E room \in Rooms : Walk(c, room)
  BY <1>7, WalkStep
<1>8. CASE \E i \in Items, to \in Characters \cup Rooms : Relocate(i, to)
  BY <1>8, RelocateStep
<1>. QED BY <1>1, <1>2, <1>3, <1>4, <1>5, <1>6, <1>7, <1>8 DEF Next, Common

(* Inv is an invariant of Stalls, saves and their guards being one step. *)
THEOREM Invariance == Spec => []Inv
<1>1. Inv /\ [Next]_vars => Inv'
  BY EachStep
<1>. QED BY <1>1, InitSound, PTL DEF Spec

(* Every state is well typed; no purse is below zero or above MaxBalance.  *)
THEOREM TypeCorrect == Spec => []TypeOK
<1>1. Inv => TypeOK
  BY DEF Inv
<1>. QED BY <1>1, Invariance, PTL

(* Stock on sale, an item or a lot, has an open and owned storefront, whose *)
(* container holds the item; it holds one listing's stock and nothing else. *)
THEOREM StockBackedAlways == Spec => []StockBacked
<1>1. Inv => StockBacked
  <2>. SUFFICES ASSUME Inv PROVE StockBacked
    OBVIOUS
  <2>1. Shelves /\ Premises
    BY InvParts
  <2>2. ASSUME NEW l \in ListingIds, Active(l)
        PROVE  LET s == listings[l].store IN
               /\ Open(s) /\ stores[s].owner # Nobody
               /\ listings[l].asset \in Items => carrier[listings[l].asset] = HoldingOf[s]
    BY <2>1, <2>2 DEF Shelves, StockReserved, Active, Premises, StoresSound
  <2>3. ASSUME NEW i \in Items, carrier[i] \in Holdings
        PROVE  Cardinality({l \in ListingIds : Active(l) /\ listings[l].asset = i}) = 1
    <3>1. PICK l \in ListingIds : Active(l) /\ listings[l].asset = i
      BY <2>1, <2>3 DEF Shelves, StockReserved, Reserved
    <3>2. {m \in ListingIds : Active(m) /\ listings[m].asset = i} = {l}
      BY <2>1, <3>1 DEF Shelves, StockReserved
    <3>. QED BY <3>2, FS_Singleton
  <2>. QED BY <2>2, <2>3 DEF StockBacked
<1>. QED BY <1>1, Invariance, PTL

(* Two open storefronts of a room never share a slot: the next free one is *)
(* taken under the lock, at claims, approvals and reopenings alike.        *)
THEOREM SlotsDistinctAlways == Spec => []SlotsDistinct
<1>1. Inv => SlotsDistinct
  BY DEF Inv
<1>. QED BY <1>1, Invariance, PTL

(* A shop is its property's owner's, through transfers and deletions. *)
THEOREM ShopFollowsPropertyAlways == Spec => []ShopFollowsProperty
<1>1. Inv => ShopFollowsProperty
  BY DEF Inv
<1>. QED BY <1>1, Invariance, PTL

-----------------------------------------------------------------------------
(***************************************************************************)
(* What a listing goes through.                                            *)
(***************************************************************************)

(* A close and a return keep what the loud steps say of one storefront. *)
LEMMA OwnerTyped ==
    ASSUME Inv, NEW s \in StoreIds, stores[s].owner # Nobody
    PROVE  stores[s].owner \in Characters
BY InvParts DEF Premises, StoresSound, World

LEMMA ListingMoves ==
    ASSUME Inv, [Next]_vars, NEW l \in ListingIds
    PROVE  \/ listings'[l] = listings[l]
           \/ listings[l].status = "none" /\ listings'[l].status = "active"
           \/ Active(l) /\ listings'[l] = [listings[l] EXCEPT !.status = "returned"]
           \/ /\ Active(l) /\ listings'[l] = [listings[l] EXCEPT !.status = "sold"]
              /\ \E c \in Characters : Buy(c) /\ buying[c].listing = l
<1>1. Shelves /\ World
  BY InvParts
<1>2. listings \in [ListingIds -> Listing]
  BY <1>1 DEF Shelves
<1>3. CASE Quiet
  BY <1>3 DEF Quiet
<1>4. ASSUME NEW c \in Characters, NEW s \in StoreIds, NEW asset \in Items \cup {Lot},
             NEW price \in Prices, ListStock(c, s, asset, price)
      PROVE  \/ listings'[l] = listings[l]
             \/ listings[l].status = "none" /\ listings'[l].status = "active"
  <2>1. PICK m \in Fresh(listings, ListingIds) :
            listings' = [listings EXCEPT ![m] =
                [status |-> "active", store |-> s, asset |-> asset, price |-> price]]
    BY <1>4 DEF ListStock
  <2>. QED BY <1>2, <2>1 DEF Fresh
<1>5. ASSUME NEW s \in StoreIds, stores[s].owner \in Characters,
             NEW rows \in SUBSET Stock(s), Return(s, rows)
      PROVE  \/ listings'[l] = listings[l]
             \/ Active(l) /\ listings'[l] = [listings[l] EXCEPT !.status = "returned"]
  BY <1>1, <1>5, ReturnMeans
<1>6. ASSUME NEW c \in Characters, Buy(c)
      PROVE  \/ listings'[l] = listings[l]
             \/ /\ Active(l) /\ listings'[l] = [listings[l] EXCEPT !.status = "sold"]
                /\ buying[c].listing = l
  <2>1. listings' = [listings EXCEPT ![buying[c].listing].status = "sold"]
    BY <1>6 DEF Buy, Deliver
  <2>2. Active(buying[c].listing)
    BY <1>6, BuyMeans
  <2>. QED BY <1>2, <2>1, <2>2
<1>7. ASSUME NEW c \in Characters, NEW m \in ListingIds, Unlist(c, m)
      PROVE  \E s \in StoreIds : stores[s].owner \in Characters /\ {m} \in SUBSET Stock(s) /\ Return(s, {m})
  BY <1>7, UnlistMeans
<1>8. ASSUME NEW s \in StoreIds, stores[s].owner # Nobody, Close(s)
      PROVE  stores[s].owner \in Characters /\ Return(s, Stock(s))
  BY <1>8, OwnerTyped DEF Close, Recalled
<1>9. ASSUME NEW p \in Properties, NEW new \in Characters, NEW disposition \in {"return", "transfer"},
             Transfer(p, new, disposition)
      PROVE  \/ listings' = listings
             \/ \E s \in StoreIds : stores[s].owner \in Characters /\ Return(s, Stock(s))
  BY <1>9, TransferMeans
<1>10. Quiet \/ Loud
  BY EachStep
<1>. QED BY <1>3, <1>4, <1>5, <1>6, <1>7, <1>8, <1>9, <1>10 DEF Loud

(* A sold or returned listing never changes, and a listing's terms never   *)
(* do: it is sold once, returned once, and never both.                     *)
THEOREM ListingEndsOnceAlways == Spec => ListingEndsOnce
<1>1. ASSUME NEW row \in Listing, NEW status
      PROVE  row.status = "active" =>
                /\ [row EXCEPT !.status = "active"] = row
                /\ [[row EXCEPT !.status = status] EXCEPT !.status = "active"] = row
  BY DEF Listing
<1>2. ASSUME Inv, [Next]_vars, NEW l \in ListingIds
      PROVE  /\ listings[l].status \in {"sold", "returned"} => listings'[l] = listings[l]
             /\ listings[l].status = "active" => [listings'[l] EXCEPT !.status = "active"] = listings[l]
  <2>1. listings[l] \in Listing
    BY <1>2, InvParts DEF Shelves
  <2>2. listings[l].status = "active" =>
          /\ [listings[l] EXCEPT !.status = "active"] = listings[l]
          /\ [[listings[l] EXCEPT !.status = "returned"] EXCEPT !.status = "active"] = listings[l]
          /\ [[listings[l] EXCEPT !.status = "sold"] EXCEPT !.status = "active"] = listings[l]
    BY <1>1, <2>1
  <2>3. CASE listings'[l] = listings[l]
    BY <2>2, <2>3
  <2>4. CASE listings[l].status = "none"
    BY <2>4
  <2>5. CASE Active(l) /\ \/ listings'[l] = [listings[l] EXCEPT !.status = "returned"]
                          \/ listings'[l] = [listings[l] EXCEPT !.status = "sold"]
    <3>. DEFINE after == listings'[l]
    <3>1. listings[l].status = "active"
      BY <2>5 DEF Active
    <3>2. CASE after = [listings[l] EXCEPT !.status = "returned"]
      <4>. HIDE DEF after
      <4>1. [after EXCEPT !.status = "active"] = listings[l]
        BY <2>2, <3>1, <3>2, Zenon
      <4>. QED BY <3>1, <4>1 DEF after
    <3>3. CASE after = [listings[l] EXCEPT !.status = "sold"]
      <4>. HIDE DEF after
      <4>1. [after EXCEPT !.status = "active"] = listings[l]
        BY <2>2, <3>1, <3>3, Zenon
      <4>. QED BY <3>1, <4>1 DEF after
    <3>. QED BY <2>5, <3>2, <3>3
  <2>. QED BY <1>2, <2>3, <2>4, <2>5, ListingMoves
<1>3. Inv /\ [Next]_vars =>
        \A l \in ListingIds :
           /\ listings[l].status \in {"sold", "returned"} => listings'[l] = listings[l]
           /\ listings[l].status = "active" => [listings'[l] EXCEPT !.status = "active"] = listings[l]
  BY <1>2
<1>. QED BY <1>3, Invariance, PTL DEF Spec, ListingEndsOnce

(* Only a purchase sells a listing. *)
LEMMA SoldByBuy ==
    ASSUME Inv, [Next]_vars, NEW l \in ListingIds, Sells(l)
    PROVE  \E c \in Characters : Buy(c) /\ buying[c].listing = l
<1>1. listings[l] \in Listing
  BY InvParts DEF Shelves
<1>2. [listings[l] EXCEPT !.status = "returned"].status = "returned"
  BY <1>1 DEF Listing
<1>. QED BY <1>2, ListingMoves DEF Sells, Active

(* A sale pays the price to whoever owns the store by then, less the fee,  *)
(* and gives its buyer what was on sale.                                   *)
THEOREM SaleSettlesAlways == Spec => SaleSettles
<1>1. ASSUME Inv, [Next]_vars, NEW l \in ListingIds, Sells(l)
      PROVE  LET seller == stores[listings[l].store].owner  price == listings[l].price IN
             \E buyer \in live \ {seller} :
                /\ bank'.purse[buyer] = bank.purse[buyer] - price
                /\ bank'.purse[seller] = bank.purse[seller] + price - Fee["sale"]
                /\ \A c \in Characters \ {buyer, seller} : bank'.purse[c] = bank.purse[c]
                /\ IF listings[l].asset = Lot THEN goods' = [goods EXCEPT ![buyer] = @ + 1]
                   ELSE carrier' = [carrier EXCEPT ![listings[l].asset] = buyer]
  <2>. DEFINE seller == stores[listings[l].store].owner
              price == listings[l].price
  <2>1. PICK c \in Characters : Buy(c) /\ buying[c].listing = l
    BY <1>1, SoldByBuy
  <2>2. /\ c \in live /\ seller \in live /\ c # seller /\ price \in Nat
        /\ listings[l].asset \in Items \cup {Lot}
    BY <1>1, <2>1, BuyMeans
  <2>3. \A d \in Characters :
           bank'.purse[d] = bank.purse[d] + (IF d = c THEN -price
                               ELSE IF d = seller THEN price - Fee["sale"] ELSE 0)
    BY <1>1, <2>1, BuyPays
  <2>4. /\ carrier' = [i \in Items |-> IF i = listings[l].asset THEN c ELSE carrier[i]]
        /\ goods' = [goods EXCEPT ![c] = @ + IF listings[l].asset = Lot THEN 1 ELSE 0]
    BY <2>1 DEF Buy, Deliver
  <2>5. World /\ GoodBank(bank)
    BY <1>1, InvParts
  <2>6. IF listings[l].asset = Lot THEN goods' = [goods EXCEPT ![c] = @ + 1]
        ELSE carrier' = [carrier EXCEPT ![listings[l].asset] = c]
    BY <2>2, <2>4, <2>5 DEF World
  <2>7. live \subseteq Characters /\ Fee["sale"] \in Int /\ \A d \in Characters : bank.purse[d] \in Int
    BY <2>5, EconomyAssumption DEF World, GoodBank, Sound, Bank, FeeKinds
  <2>. HIDE DEF seller, price
  <2>8. /\ bank'.purse[c] = bank.purse[c] - price
        /\ bank'.purse[seller] = bank.purse[seller] + price - Fee["sale"]
        /\ \A d \in Characters \ {c, seller} : bank'.purse[d] = bank.purse[d]
    BY <2>2, <2>3, <2>7
  <2>. QED BY <2>2, <2>6, <2>8 DEF seller, price
<1>2. Inv /\ [Next]_vars =>
        \A l \in ListingIds : Sells(l) =>
         LET seller == stores[listings[l].store].owner  price == listings[l].price IN
         \E buyer \in live \ {seller} :
            /\ bank'.purse[buyer] = bank.purse[buyer] - price
            /\ bank'.purse[seller] = bank.purse[seller] + price - Fee["sale"]
            /\ \A c \in Characters \ {buyer, seller} : bank'.purse[c] = bank.purse[c]
            /\ IF listings[l].asset = Lot THEN goods' = [goods EXCEPT ![buyer] = @ + 1]
               ELSE carrier' = [carrier EXCEPT ![listings[l].asset] = buyer]
  BY <1>1
<1>. QED BY <1>2, Invariance, PTL DEF Spec, SaleSettles

(* An open storefront's owner changes only by a transfer, which returns    *)
(* its stock or is to a character of another account.                      *)
LEMMA OwnerMoves ==
    ASSUME Inv, [Next]_vars, NEW s \in StoreIds, Open(s), stores'[s].owner # stores[s].owner
    PROVE  \/ stores[s].owner \in Characters /\ Return(s, Stock(s))
           \/ /\ UNCHANGED <<listings, carrier, goods>>
              /\ Stock(s) # {} => ~SameAccount(stores[s].owner, stores'[s].owner)
<1>1. Premises /\ World
  BY InvParts
<1>2. Loud
  BY EachStep DEF Quiet
<1>3. ASSUME UNCHANGED stores PROVE FALSE
  BY <1>3
<1>4. ASSUME NEW t \in StoreIds, Close(t) PROVE FALSE
  <2>1. stores' = [stores EXCEPT ![t].status = "closed"] /\ stores \in [StoreIds -> Store]
    BY <1>1, <1>4 DEF Close, Premises
  <2>. QED BY <2>1 DEF Store
<1>5. PICK p \in Properties, new \in Characters, disposition \in {"return", "transfer"} :
          Transfer(p, new, disposition)
  <2>1. ASSUME NEW c \in Characters, NEW t \in StoreIds, NEW asset \in Items \cup {Lot},
               NEW price \in Prices, ListStock(c, t, asset, price)
        PROVE  UNCHANGED stores
    BY <2>1 DEF ListStock
  <2>2. ASSUME NEW c \in Characters, NEW l \in ListingIds, Unlist(c, l) PROVE UNCHANGED stores
    BY <2>2 DEF Unlist
  <2>3. ASSUME NEW c \in Characters, Buy(c) PROVE UNCHANGED stores
    BY <2>3 DEF Buy, Deliver
  <2>. QED BY <1>2, <1>3, <1>4, <2>1, <2>2, <2>3 DEF Loud
<1>6. PICK t \in StoreIds :
         /\ stores[t].owner \in Characters
         /\ stores' = [stores EXCEPT ![t].owner = new]
         /\ \/ Return(t, Stock(t))
            \/ /\ Stock(t) # {} => ~SameAccount(stores[t].owner, new)
               /\ UNCHANGED <<listings, carrier, goods>>
  BY <1>3, <1>5, TransferMeans
<1>7. t = s /\ stores'[s].owner = new
  BY <1>1, <1>6 DEF Premises, Store
<1>. QED BY <1>6, <1>7

(* Nobody buys from their own account, whatever they read before the       *)
(* locks, and stock does not pass that way with a shop.                    *)
THEOREM NoSelfDealingAlways == Spec => NoSelfDealing
<1>1. ASSUME Inv, [Next]_vars, NEW l \in ListingIds, Sells(l)
      PROVE  \E c \in Characters :
                /\ buying[c] # NotBuying /\ buying'[c] = NotBuying
                /\ ~SameAccount(c, stores[listings[l].store].owner)
  <2>1. PICK c \in Characters : Buy(c) /\ buying[c].listing = l
    BY <1>1, SoldByBuy
  <2>2. ~SameAccount(c, stores[listings[l].store].owner)
    BY <1>1, <2>1, BuyMeans
  <2>3. buying[c] # NotBuying /\ buying' = [buying EXCEPT ![c] = NotBuying]
    BY <2>1 DEF Buy, Deliver
  <2>4. Readers
    BY <1>1, InvParts
  <2>. QED BY <2>2, <2>3, <2>4 DEF Readers
<1>2. ASSUME Inv, [Next]_vars, NEW l \in ListingIds, Active(l), Active(l)',
             stores'[listings[l].store].owner # stores[listings[l].store].owner
      PROVE  ~SameAccount(stores[listings[l].store].owner, stores'[listings[l].store].owner)
  <2>. DEFINE s == listings[l].store
  <2>1. Shelves /\ World
    BY <1>2, InvParts
  <2>2. s \in StoreIds /\ Open(s) /\ l \in Stock(s)
    BY <1>2, <2>1 DEF Shelves, StockReserved, Active, Stock
  <2>3. ASSUME stores[s].owner \in Characters, Return(s, Stock(s)) PROVE FALSE
    <3>1. listings'[l] = [listings[l] EXCEPT !.status = "returned"]
      BY <2>1, <2>2, <2>3, ReturnMeans
    <3>2. listings[l] \in Listing
      BY <2>1 DEF Shelves
    <3>. QED BY <1>2, <3>1, <3>2 DEF Active, Listing
  <2>. HIDE DEF s
  <2>4. ~SameAccount(stores[s].owner, stores'[s].owner)
    BY <1>2, <2>2, <2>3, OwnerMoves DEF s
  <2>. QED BY <2>4 DEF s
<1>3. Inv /\ [Next]_vars =>
        \A l \in ListingIds :
         /\ Sells(l) => \E c \in Characters :
              /\ buying[c] # NotBuying /\ buying'[c] = NotBuying
              /\ ~SameAccount(c, stores[listings[l].store].owner)
         /\ Active(l) /\ Active(l)' /\ stores'[listings[l].store].owner # stores[listings[l].store].owner
              => ~SameAccount(stores[listings[l].store].owner, stores'[listings[l].store].owner)
  BY <1>1, <1>2
<1>. QED BY <1>3, Invariance, PTL DEF Spec, NoSelfDealing

-----------------------------------------------------------------------------
(***************************************************************************)
(* Storefronts implement Escrow.  Whose an item is: its storefront's       *)
(* owner's while it is on sale, and its carrier's otherwise.               *)
(***************************************************************************)
TitleSound ==
    /\ \A i \in Items \ Reserved : Title[i] = carrier[i] /\ carrier[i] \in Characters \cup Rooms
    /\ \A l \in ListingIds : Active(l) /\ listings[l].asset \in Items =>
          /\ listings[l].asset \in Reserved
          /\ listings[l].store \in StoreIds /\ Open(listings[l].store)
          /\ Title[listings[l].asset] = stores[listings[l].store].owner
          /\ stores[listings[l].store].owner \in live

LEMMA TitleMeans == Inv => TitleSound
<1>. SUFFICES ASSUME Inv PROVE TitleSound
  OBVIOUS
<1>1. World /\ Shelves /\ Premises
  BY InvParts
<1>2. ASSUME NEW i \in Items \ Reserved
      PROVE  Title[i] = carrier[i] /\ carrier[i] \in Characters \cup Rooms
  <2>1. carrier[i] \notin Holdings
    BY <1>1 DEF Shelves, StockReserved
  <2>. QED BY <1>1, <2>1 DEF Title, World, ItemPlaces
<1>3. ASSUME NEW l \in ListingIds, Active(l), listings[l].asset \in Items
      PROVE  /\ listings[l].asset \in Reserved
             /\ listings[l].store \in StoreIds /\ Open(listings[l].store)
             /\ Title[listings[l].asset] = stores[listings[l].store].owner
             /\ stores[listings[l].store].owner \in live
  <2>. DEFINE s == listings[l].store
              i == listings[l].asset
  <2>1. s \in StoreIds /\ Open(s) /\ carrier[i] = HoldingOf[s]
    BY <1>1, <1>3 DEF Shelves, StockReserved, Active
  <2>2. stores[s].owner \in live
    BY <1>1, <2>1 DEF Premises, StoresSound
  <2>3. i \in Reserved
    BY <1>3 DEF Reserved
  <2>. HIDE DEF s, i
  <2>4. carrier[i] \in Holdings /\ (CHOOSE t \in StoreIds : HoldingOf[t] = carrier[i]) = s
    BY <2>1, StallsAssumption
  <2>5. Title[i] = stores[s].owner
    BY <1>3, <2>4 DEF Title, i
  <2>. QED BY <2>1, <2>2, <2>3, <2>5 DEF s, i
<1>. QED BY <1>2, <1>3 DEF TitleSound

LEMMA TitleNext == ASSUME Inv' PROVE TitleSound'
<1>1. (Inv => TitleSound)'
  BY TitleMeans, PTL
<1>. QED BY <1>1

(* Every item on sale keeps its title when its listing and the owner of    *)
(* its storefront stay.                                                    *)
LEMMA HandleStep ==
    ASSUME Inv, Inv', UNCHANGED listings,
           \A l \in ListingIds : Active(l) =>
              stores'[listings[l].store].owner = stores[listings[l].store].owner
    PROVE  Promised!Handle
<1>1. TitleSound /\ TitleSound'
  BY TitleMeans, TitleNext
<1>2. Reserved' = Reserved
  BY DEF Reserved, Active
<1>3. ASSUME NEW i \in Reserved PROVE Title'[i] = Title[i]
  <2>1. PICK l \in ListingIds : Active(l) /\ listings[l].asset = i /\ i \in Items
    BY DEF Reserved
  <2>2. Title[i] = stores[listings[l].store].owner
    BY <1>1, <2>1 DEF TitleSound
  <2>3. listings'[l].status = "active" /\ listings'[l].asset = i
    BY <2>1 DEF Active
  <2>4. Title'[i] = stores'[listings'[l].store].owner
    BY <1>1, <2>1, <2>3 DEF TitleSound, Active
  <2>. QED BY <2>1, <2>2, <2>4
<1>. QED BY <1>2, <1>3 DEF Promised!Handle

(* Returned stock is its owner's as before, and nothing else changes hands. *)
LEMMA ReleaseStep ==
    ASSUME Inv, Inv', NEW s \in StoreIds, stores[s].owner \in Characters,
           NEW rows \in SUBSET Stock(s), Return(s, rows), UNCHANGED bank,
           \A t \in StoreIds : t # s \/ rows # Stock(s) => stores'[t].owner = stores[t].owner
    PROVE  Promised!Release
<1>1. TitleSound /\ TitleSound' /\ World /\ Shelves
  BY TitleMeans, TitleNext, InvParts
<1>2. /\ \A l \in rows : l \in ListingIds /\ Active(l) /\ listings[l].store = s
      /\ \A l \in rows : listings'[l] = [listings[l] EXCEPT !.status = "returned"]
      /\ \A l \in ListingIds \ rows : listings'[l] = listings[l]
      /\ \A i \in Items : carrier'[i] = IF \E l \in rows : listings[l].asset = i
                                        THEN stores[s].owner ELSE carrier[i]
  BY <1>1, ReturnMeans
<1>3. \A l \in rows : listings'[l].status = "returned"
  <2>1. ASSUME NEW l \in rows PROVE listings'[l].status = "returned"
    <3>1. listings[l] \in Listing
      BY <1>1, <1>2 DEF Shelves
    <3>2. listings'[l] = [listings[l] EXCEPT !.status = "returned"]
      BY <1>2
    <3>. QED BY <3>1, <3>2 DEF Listing
  <2>. QED BY <2>1
<1>4. ASSUME NEW l \in ListingIds, listings'[l].status = "active"
      PROVE  l \notin rows /\ Active(l) /\ listings'[l] = listings[l]
  BY <1>2, <1>3, <1>4 DEF Active
<1>5. Reserved' \subseteq Reserved
  BY <1>4 DEF Reserved, Active
<1>6. ASSUME NEW i \in Items PROVE Title'[i] = Title[i]
  <2>1. CASE \E l \in rows : listings[l].asset = i
    <3>1. PICK l \in rows : listings[l].asset = i
      BY <2>1
    <3>2. Title[i] = stores[s].owner
      BY <1>1, <1>2, <3>1 DEF TitleSound
    <3>3. i \notin Reserved'
      <4>1. ASSUME NEW m \in ListingIds, listings'[m].status = "active", listings'[m].asset = i
            PROVE  FALSE
        <5>1. m \notin rows /\ Active(m) /\ listings[m].asset = i
          BY <1>4, <4>1
        <5>2. m = l
          BY <1>1, <1>2, <3>1, <5>1 DEF Shelves, StockReserved
        <5>. QED BY <3>1, <5>1, <5>2
      <4>. QED BY <4>1 DEF Reserved, Active
    <3>4. Title'[i] = carrier'[i]
      BY <1>1, <3>3 DEF TitleSound
    <3>. QED BY <1>2, <2>1, <3>2, <3>4
  <2>2. CASE i \notin Reserved
    <3>1. Title[i] = carrier[i] /\ Title'[i] = carrier'[i]
      BY <1>1, <1>5, <2>2 DEF TitleSound
    <3>2. ~\E l \in rows : listings[l].asset = i
      BY <1>2, <2>2 DEF Reserved
    <3>. QED BY <1>2, <3>1, <3>2
  <2>3. ASSUME i \in Reserved, ~\E l \in rows : listings[l].asset = i PROVE Title'[i] = Title[i]
    <3>1. PICK l \in ListingIds : Active(l) /\ listings[l].asset = i
      BY <2>3 DEF Reserved
    <3>2. l \notin rows /\ listings'[l] = listings[l]
      BY <1>2, <2>3, <3>1
    <3>3. Title[i] = stores[listings[l].store].owner /\ listings[l].store \in StoreIds
      BY <1>1, <3>1 DEF TitleSound
    <3>4. Title'[i] = stores'[listings[l].store].owner
      BY <1>1, <3>1, <3>2 DEF TitleSound, Active
    <3>5. listings[l].store # s \/ rows # Stock(s)
      BY <3>1, <3>2 DEF Stock
    <3>. QED BY <3>3, <3>4, <3>5
  <2>. QED BY <2>1, <2>2, <2>3
<1>7. Title' = Title
  BY <1>6 DEF Title
<1>. QED BY <1>5, <1>7 DEF Promised!Release

(* An item put on sale stays its owner's, for a fee at most. *)
LEMMA ReserveStep ==
    ASSUME Inv, Inv', NEW c \in Characters, NEW s \in StoreIds, NEW asset \in Items \cup {Lot},
           NEW price \in Prices, ListStock(c, s, asset, price)
    PROVE  Promised!Next
<1>1. TitleSound /\ TitleSound' /\ World /\ Shelves /\ GoodBank(bank)
  BY TitleMeans, TitleNext, InvParts
<1>2. /\ Open(s) /\ stores[s].owner = c /\ Charged("listing", c) /\ UNCHANGED stores
      /\ asset # Lot => carrier[asset] = c
      /\ carrier' = [i \in Items |-> IF i = asset THEN HoldingOf[s] ELSE carrier[i]]
  BY DEF ListStock, Manages
<1>3. PICK l \in Fresh(listings, ListingIds) :
         listings' = [listings EXCEPT ![l] =
             [status |-> "active", store |-> s, asset |-> asset, price |-> price]]
  BY DEF ListStock
<1>4. /\ l \in ListingIds /\ ~Active(l)
      /\ listings'[l].status = "active" /\ listings'[l].store = s /\ listings'[l].asset = asset
      /\ \A m \in ListingIds : m # l => listings'[m] = listings[m]
  BY <1>1, <1>3 DEF Fresh, Active, Shelves
<1>5. \A m \in ListingIds : Active(m) => m # l /\ listings'[m] = listings[m]
  BY <1>4
<1>6. ASSUME NEW i \in Reserved PROVE i \in Reserved' /\ Title'[i] = Title[i]
  <2>1. PICK m \in ListingIds : Active(m) /\ listings[m].asset = i /\ i \in Items
    BY DEF Reserved
  <2>2. listings'[m] = listings[m] /\ listings'[m].status = "active"
    BY <1>5, <2>1 DEF Active
  <2>3. Title[i] = stores[listings[m].store].owner
    BY <1>1, <2>1 DEF TitleSound
  <2>4. Title'[i] = stores'[listings[m].store].owner /\ i \in Reserved'
    BY <1>1, <2>1, <2>2 DEF TitleSound, Active
  <2>. QED BY <1>2, <2>3, <2>4
<1>7. Reserved' \subseteq Reserved \cup {asset}
  BY <1>4 DEF Reserved, Active
<1>8. CASE asset = Lot
  <2>1. Reserved' = Reserved
    BY <1>6, <1>7, <1>8, StallsAssumption DEF Reserved
  <2>. QED BY <1>6, <2>1 DEF Promised!Handle, Promised!Next
<1>9. CASE asset # Lot
  <2>1. asset \in Items /\ carrier[asset] = c
    BY <1>2, <1>9
  <2>2. asset \notin Reserved
    <3>1. ASSUME NEW m \in ListingIds, Active(m), listings[m].asset = asset PROVE FALSE
      <4>1. listings[m].store \in StoreIds /\ carrier[asset] = HoldingOf[listings[m].store]
        BY <1>1, <2>1, <3>1 DEF Shelves, StockReserved, Active
      <4>2. HoldingOf[listings[m].store] \in Holdings
        BY <4>1, StallsAssumption
      <4>. QED BY <2>1, <4>1, <4>2, EconomyAssumption
    <3>. QED BY <3>1 DEF Reserved
  <2>3. Title[asset] = c
    BY <1>1, <2>1, <2>2 DEF TitleSound
  <2>4. asset \in Reserved' /\ Title'[asset] = c
    BY <1>1, <1>2, <1>4, <2>1 DEF TitleSound, Active
  <2>5. Reserved' = Reserved \cup {asset}
    BY <1>6, <1>7, <2>4
  <2>6. ASSUME NEW i \in Items \ Reserved, i # asset PROVE Title'[i] = Title[i]
    <3>1. i \notin Reserved'
      BY <2>5, <2>6
    <3>. QED BY <1>1, <1>2, <2>6, <3>1 DEF TitleSound
  <2>7. \A i \in Items : Title'[i] = Title[i]
    BY <1>6, <2>3, <2>4, <2>6
  <2>8. Title' = Title
    BY <2>7 DEF Title
  <2>9. /\ bank'.purse[c] <= bank.purse[c]
        /\ \A d \in Characters \ {c} : bank'.purse[d] = bank.purse[d]
    <3>1. \A d \in Characters :
            bank'.purse[d] = bank.purse[d] - IF d = c THEN Fee["listing"] ELSE 0
      BY <1>1, <1>2, ChargedGood DEF FeeKinds
    <3>2. Fee["listing"] \in Nat /\ \A d \in Characters : bank.purse[d] \in Int
      BY <1>1, EconomyAssumption DEF GoodBank, Sound, Bank, FeeKinds
    <3>. QED BY <3>1, <3>2
  <2>10. Promised!Reserve(asset)
    BY <2>2, <2>3, <2>5, <2>8, <2>9 DEF Promised!Reserve
  <2>. QED BY <2>1, <2>10 DEF Promised!Next
<1>. QED BY <1>8, <1>9

(* A sale: the buyer pays the item's owner, and its title is theirs. *)
LEMMA SellStep ==
    ASSUME Inv, Inv', NEW c \in Characters, Buy(c)
    PROVE  Promised!Next
<1>. DEFINE l == buying[c].listing
            s == listings[l].store
            owner == stores[s].owner
            price == listings[l].price
            asset == listings[l].asset
<1>1. TitleSound /\ TitleSound' /\ World /\ Shelves /\ GoodBank(bank)
  BY TitleMeans, TitleNext, InvParts
<1>2. /\ c \in live /\ owner \in live /\ c # owner
      /\ l \in ListingIds /\ Active(l) /\ s \in StoreIds /\ Open(s)
      /\ price \in Nat \ {0} /\ asset \in Items \cup {Lot}
  BY BuyMeans
<1>3. /\ listings' = [listings EXCEPT ![l].status = "sold"]
      /\ carrier' = [i \in Items |-> IF i = asset THEN c ELSE carrier[i]]
      /\ UNCHANGED stores
  BY DEF Buy, Deliver
<1>4. \A d \in Characters :
         bank'.purse[d] = bank.purse[d] + (IF d = c THEN -price
                             ELSE IF d = owner THEN price - Fee["sale"] ELSE 0)
  BY BuyPays
<1>5. /\ listings'[l].status = "sold"
      /\ \A m \in ListingIds : m # l => listings'[m] = listings[m]
  <2>1. listings \in [ListingIds -> Listing]
    BY <1>1 DEF Shelves
  <2>. HIDE DEF l
  <2>2. listings'[l] = [listings[l] EXCEPT !.status = "sold"] /\ listings[l] \in Listing
    BY <1>2, <1>3, <2>1
  <2>. QED BY <1>3, <2>1, <2>2 DEF Listing
<1>6. asset \in Items => Title[asset] = owner /\ asset \in Reserved
  BY <1>1, <1>2 DEF TitleSound
<1>7. Active(l) /\ listings[l].asset = asset
  BY <1>2
<1>. HIDE DEF l, s, owner, price, asset
<1>8. ASSUME NEW i \in Reserved, i # asset PROVE i \in Reserved' /\ Title'[i] = Title[i]
  <2>1. PICK m \in ListingIds : Active(m) /\ listings[m].asset = i /\ i \in Items
    BY DEF Reserved
  <2>2. listings'[m] = listings[m] /\ listings'[m].status = "active"
    BY <1>5, <1>7, <1>8, <2>1 DEF Active
  <2>3. Title[i] = stores[listings[m].store].owner
    BY <1>1, <2>1 DEF TitleSound
  <2>4. Title'[i] = stores'[listings[m].store].owner /\ i \in Reserved'
    BY <1>1, <2>1, <2>2 DEF TitleSound, Active
  <2>. QED BY <1>3, <2>3, <2>4
<1>9. ASSUME NEW i \in Reserved' PROVE i \in Reserved /\ i # asset
  <2>1. PICK m \in ListingIds : listings'[m].status = "active" /\ listings'[m].asset = i /\ i \in Items
    BY DEF Reserved, Active
  <2>2. m # l /\ listings'[m] = listings[m] /\ Active(m)
    BY <1>5, <2>1 DEF Active
  <2>3. i \in Reserved
    BY <2>1, <2>2 DEF Reserved
  <2>4. i # asset
    BY <1>1, <1>2, <1>7, <2>1, <2>2 DEF Shelves, StockReserved
  <2>. QED BY <2>3, <2>4
<1>10. CASE asset = Lot
  <2>1. asset \notin Reserved
    BY <1>10, StallsAssumption DEF Reserved
  <2>2. Reserved' = Reserved
    BY <1>8, <1>9, <2>1
  <2>. QED BY <1>8, <2>1, <2>2 DEF Promised!Handle, Promised!Next
<1>11. CASE asset # Lot
  <2>1. asset \in Items /\ Title[asset] = owner /\ asset \in Reserved
    BY <1>2, <1>6, <1>11
  <2>2. Reserved' = Reserved \ {asset}
    BY <1>8, <1>9
  <2>3. Title'[asset] = c
    BY <1>1, <1>3, <2>1, <2>2 DEF TitleSound
  <2>4. ASSUME NEW i \in Items \ Reserved PROVE Title'[i] = Title[i]
    <3>1. i \notin Reserved' /\ i # asset
      BY <2>1, <2>2
    <3>. QED BY <1>1, <1>3, <3>1 DEF TitleSound
  <2>5. \A i \in Items : Title'[i] = IF i = asset THEN c ELSE Title[i]
    BY <1>8, <2>3, <2>4
  <2>6. Title' = [Title EXCEPT ![asset] = c]
    <3>. DEFINE new == Title'
    <3>1. Title \in [Items -> {Title[i] : i \in Items}] /\ DOMAIN new = Items
      BY DEF Title
    <3>2. new = [i \in Items |-> new[i]]
      BY DEF Title
    <3>3. Title = [i \in Items |-> Title[i]]
      BY DEF Title
    <3>. HIDE DEF new
    <3>4. \A i \in Items : new[i] = IF i = asset THEN c ELSE Title[i]
      BY <2>5 DEF new
    <3>5. new = [Title EXCEPT ![asset] = c]
      BY <3>2, <3>3, <3>4
    <3>. QED BY <3>5 DEF new
  <2>7. /\ \A d \in Characters : bank.purse[d] \in Int
        /\ Fee["sale"] \in Nat /\ c \in Characters /\ owner \in Characters
    BY <1>1, <1>2, EconomyAssumption DEF GoodBank, Sound, Bank, FeeKinds, World
  <2>8. /\ bank.purse[c] - bank'.purse[c] = price
        /\ bank'.purse[owner] <= bank.purse[owner] + price
        /\ \A d \in Characters \ {c, owner} : bank'.purse[d] = bank.purse[d]
    BY <1>2, <1>4, <2>7
  <2>9. price > 0
    BY <1>2
  <2>10. Promised!Sell(asset, c)
    BY <1>2, <2>1, <2>2, <2>6, <2>8, <2>9 DEF Promised!Sell
  <2>. QED BY <2>1, <2>7, <2>10 DEF Promised!Next
<1>. QED BY <1>2, <1>10, <1>11

(* A shop passes with its stock: those items' titles pass, and no others. *)
LEMMA ConveyStep ==
    ASSUME Inv, Inv', NEW s \in StoreIds, stores[s].owner \in Characters, NEW new \in Characters,
           stores' = [stores EXCEPT ![s].owner = new],
           UNCHANGED <<bank, listings, carrier>>
    PROVE  Promised!Next
<1>. DEFINE from == stores[s].owner
            stock == {i \in Reserved : \E l \in Stock(s) : listings[l].asset = i}
<1>1. TitleSound /\ TitleSound' /\ Premises /\ Shelves
  BY TitleMeans, TitleNext, InvParts
<1>2. Reserved' = Reserved
  BY DEF Reserved, Active
<1>3. /\ stores'[s].owner = new
      /\ \A t \in StoreIds : t # s => stores'[t].owner = stores[t].owner
  BY <1>1 DEF Premises, Store
<1>4. ASSUME NEW i \in Reserved
      PROVE  /\ i \in stock => Title[i] = from /\ Title'[i] = new
             /\ i \notin stock => Title'[i] = Title[i]
  <2>1. PICK l \in ListingIds : Active(l) /\ listings[l].asset = i /\ i \in Items
    BY DEF Reserved
  <2>2. Title[i] = stores[listings[l].store].owner /\ listings[l].store \in StoreIds
    BY <1>1, <2>1 DEF TitleSound
  <2>3. Title'[i] = stores'[listings[l].store].owner
    <3>1. listings'[l].status = "active" /\ listings'[l] = listings[l]
      BY <2>1 DEF Active
    <3>. QED BY <1>1, <2>1, <3>1 DEF TitleSound, Active
  <2>4. i \in stock <=> listings[l].store = s
    <3>1. \A m \in ListingIds : Active(m) /\ listings[m].asset = i => m = l
      BY <1>1, <2>1 DEF Shelves, StockReserved
    <3>. QED BY <2>1, <3>1 DEF Stock
  <2>. QED BY <1>3, <2>2, <2>3, <2>4
<1>5. ASSUME NEW i \in Items \ Reserved PROVE Title'[i] = Title[i]
  BY <1>1, <1>2 DEF TitleSound
<1>6. stock \in SUBSET {i \in Reserved : Title[i] = from}
  BY <1>4
<1>7. \A i \in Items : Title'[i] = IF i \in stock THEN new ELSE Title[i]
  <2>1. \A i \in stock : i \in Reserved
    OBVIOUS
  <2>. QED BY <1>4, <1>5, <2>1
<1>. HIDE DEF stock
<1>8. Title' = [i \in Items |-> IF i \in stock THEN new ELSE Title[i]]
  BY <1>7 DEF Title
<1>9. Promised!Convey(from, new)
  BY <1>2, <1>6, <1>8 DEF Promised!Convey
<1>. QED BY <1>9 DEF Promised!Next

(* Stalls and shops keep what Escrow says they promise. *)
THEOREM EscrowImplemented == Spec => ImplementsEscrow
<1>1. ASSUME Init PROVE Promised!Init
  <2>1. \A i \in Items : carrier[i] \in Characters /\ carrier[i] \notin Holdings
    BY <1>1, EconomyAssumption DEF Init, EconomyInit
  <2>2. Title \in [Items -> Characters \cup Rooms]
    BY <2>1 DEF Title
  <2>3. Reserved = {}
    BY <1>1 DEF Init, Reserved, Active, Unlisted
  <2>4. bank.purse = [c \in Characters |-> 0]
    BY <1>1 DEF Init, EconomyInit, EmptyBank
  <2>. QED BY <2>2, <2>3, <2>4 DEF Promised!Init
<1>2. ASSUME Inv, Inv', [Next]_vars PROVE [Promised!Next]_Promised!vars
  <2>1. CASE Quiet
    <3>1. \A l \in ListingIds : Active(l) =>
             stores'[listings[l].store].owner = stores[listings[l].store].owner
      <4>1. \A l \in ListingIds : Active(l) => Open(listings[l].store) /\ listings[l].store \in StoreIds
        BY <1>2, InvParts DEF Shelves, StockReserved, Active
      <4>. QED BY <2>1, <4>1 DEF Quiet
    <3>2. Promised!Handle
      BY <1>2, <2>1, <3>1, HandleStep DEF Quiet
    <3>. QED BY <3>2 DEF Promised!Next
  <2>2. ASSUME NEW c \in Characters, NEW s \in StoreIds, NEW asset \in Items \cup {Lot},
               NEW price \in Prices, ListStock(c, s, asset, price)
        PROVE  Promised!Next
    BY <1>2, <2>2, ReserveStep
  <2>3. ASSUME NEW c \in Characters, NEW l \in ListingIds, Unlist(c, l) PROVE Promised!Next
    <3>. DEFINE s == listings[l].store
    <3>1. /\ s \in StoreIds /\ stores[s].owner = c /\ {l} \in SUBSET Stock(s) /\ Return(s, {l})
          /\ UNCHANGED <<people, setting, bank, stores, buying>>
      BY <1>2, <2>3, UnlistMeans
    <3>. HIDE DEF s
    <3>2. Promised!Release
      BY <1>2, <3>1, ReleaseStep
    <3>. QED BY <3>2 DEF Promised!Next
  <2>4. ASSUME NEW c \in Characters, Buy(c) PROVE Promised!Next
    BY <1>2, <2>4, SellStep
  <2>5. ASSUME NEW s \in StoreIds, stores[s].owner # Nobody, Close(s) PROVE Promised!Next
    <3>1. stores[s].owner \in Characters
      BY <1>2, <2>5, OwnerTyped
    <3>2. /\ Return(s, Stock(s)) /\ UNCHANGED bank
          /\ \A t \in StoreIds : t # s => stores'[t].owner = stores[t].owner
      <4>1. stores \in [StoreIds -> Store]
        BY <1>2, InvParts DEF Premises
      <4>. QED BY <2>5, <4>1 DEF Close, Recalled
    <3>3. Promised!Release
      BY <1>2, <3>1, <3>2, ReleaseStep
    <3>. QED BY <3>3 DEF Promised!Next
  <2>6. ASSUME NEW p \in Properties, NEW new \in Characters, NEW disposition \in {"return", "transfer"},
               Transfer(p, new, disposition)
        PROVE  Promised!Next
    <3>1. UNCHANGED bank
      BY <1>2, <2>6, TransferMeans
    <3>2. CASE UNCHANGED <<stores, listings, carrier, goods>>
      <4>1. Promised!Handle
        BY <1>2, <3>2, HandleStep
      <4>. QED BY <4>1 DEF Promised!Next
    <3>3. ASSUME NEW s \in StoreIds, stores[s].owner \in Characters,
                 stores' = [stores EXCEPT ![s].owner = new],
                 Return(s, Stock(s)) \/ UNCHANGED <<listings, carrier, goods>>
          PROVE  Promised!Next
      <4>1. CASE Return(s, Stock(s))
        <5>1. \A t \in StoreIds : t # s => stores'[t].owner = stores[t].owner
          BY <1>2, <3>3, InvParts DEF Premises
        <5>2. Promised!Release
          BY <1>2, <3>1, <3>3, <4>1, <5>1, ReleaseStep
        <5>. QED BY <5>2 DEF Promised!Next
      <4>2. CASE UNCHANGED <<listings, carrier, goods>>
        BY <1>2, <3>1, <3>3, <4>2, ConveyStep
      <4>. QED BY <3>3, <4>1, <4>2
    <3>. QED BY <1>2, <2>6, <3>2, <3>3, TransferMeans
  <2>7. Quiet \/ Loud
    BY <1>2, EachStep
  <2>. QED BY <2>1, <2>2, <2>3, <2>4, <2>5, <2>6, <2>7 DEF Loud
<1>3. Init => Promised!Init
  BY <1>1
<1>4. Inv /\ Inv' /\ [Next]_vars => [Promised!Next]_Promised!vars
  BY <1>2
<1>. QED BY <1>3, <1>4, Invariance, PTL DEF Spec, ImplementsEscrow, Promised!Spec

-----------------------------------------------------------------------------
(***************************************************************************)
(* Lots: those on sale and those in counters, counted together.            *)
(***************************************************************************)
LotsOnSale == {l \in ListingIds : Active(l) /\ listings[l].asset = Lot}

(* TotalLots, with its sum named as the lemmas on sums name it. *)
LEMMA LotsTotal ==
    /\ TotalLots = Total(goods, Characters) + Cardinality(LotsOnSale)
    /\ IsFiniteSet(LotsOnSale) /\ Cardinality(LotsOnSale) \in Nat
<1>1. TotalLots = Total(goods, Characters) + Cardinality(LotsOnSale)
  BY Zenon DEF TotalLots, Total, LotsOnSale
<1>2. LotsOnSale \subseteq ListingIds
  BY DEF LotsOnSale
<1>. QED BY <1>1, <1>2, StallsAssumption, FS_Subset, FS_CardinalityType

LEMMA LotsTotalNext == TotalLots' = Total(goods', Characters) + Cardinality(LotsOnSale')
<1>1. (TotalLots = Total(goods, Characters) + Cardinality(LotsOnSale))'
  BY LotsTotal, PTL
<1>. QED BY <1>1

(* What a counter gains is what is on sale no more, and the reverse. *)
LEMMA LotsMove ==
    ASSUME World, goods' \in [Characters -> Nat], NEW c \in Characters,
           \A d \in Characters \ {c} : goods'[d] = goods[d], Cardinality(LotsOnSale') \in Nat,
           goods'[c] + Cardinality(LotsOnSale') = goods[c] + Cardinality(LotsOnSale)
    PROVE  TotalLots' = TotalLots
<1>1. IsFiniteSet(Characters) /\ \A d \in Characters : goods[d] \in Int /\ goods'[d] \in Int
  BY EconomyAssumption DEF World
<1>2. Total(goods', Characters) = Total(goods, Characters) + goods'[c] - goods[c]
  BY <1>1, TotalChange
<1>3. Total(goods, Characters) \in Int
  BY <1>1, TotalInt
<1>. QED BY <1>1, <1>2, <1>3, LotsTotal, LotsTotalNext

(* Stock that is returned is credited, lot by lot, to the store's owner. *)
LEMMA ReturnConserves ==
    ASSUME Shelves, World, NEW s \in StoreIds, stores[s].owner \in Characters,
           NEW rows \in SUBSET Stock(s), Return(s, rows)
    PROVE  TotalLots' = TotalLots
<1>. DEFINE lots == {l \in rows : listings[l].asset = Lot}
            owner == stores[s].owner
<1>1. /\ \A l \in rows : l \in ListingIds /\ Active(l)
      /\ \A l \in rows : listings'[l] = [listings[l] EXCEPT !.status = "returned"]
      /\ \A l \in ListingIds \ rows : listings'[l] = listings[l]
      /\ goods' \in [Characters -> Nat]
  BY ReturnMeans
<1>2. \A l \in rows : listings'[l].status = "returned"
  BY <1>1 DEF Shelves, Listing
<1>3. LotsOnSale' = LotsOnSale \ lots /\ LotsOnSale \cap lots = lots
  BY <1>1, <1>2 DEF LotsOnSale, Active
<1>4. goods' = [goods EXCEPT ![owner] = @ + Cardinality(lots)]
  BY DEF Return
<1>. HIDE DEF lots, owner
<1>5. /\ Cardinality(LotsOnSale') = Cardinality(LotsOnSale) - Cardinality(lots)
      /\ Cardinality(LotsOnSale') \in Nat /\ Cardinality(lots) \in Nat
  <2>1. /\ IsFiniteSet(LotsOnSale \ lots)
        /\ Cardinality(LotsOnSale \ lots) = Cardinality(LotsOnSale) - Cardinality(LotsOnSale \cap lots)
    BY LotsTotal, FS_Difference
  <2>2. IsFiniteSet(lots)
    BY <1>3, LotsTotal, FS_Subset
  <2>. QED BY <1>3, <2>1, <2>2, FS_CardinalityType
<1>6. owner \in Characters /\ goods \in [Characters -> Nat]
  BY DEF owner, World
<1>7. /\ goods'[owner] = goods[owner] + Cardinality(lots)
      /\ \A d \in Characters \ {owner} : goods'[d] = goods[d]
  BY <1>4, <1>6
<1>8. goods[owner] \in Nat /\ Cardinality(LotsOnSale) \in Nat
  BY <1>6, LotsTotal
<1>9. goods'[owner] + Cardinality(LotsOnSale') = goods[owner] + Cardinality(LotsOnSale)
  BY <1>5, <1>7, <1>8
<1>. QED BY <1>1, <1>5, <1>6, <1>7, <1>9, LotsMove

(* A lot that is listed leaves its owner's counter. *)
LEMMA ListStockConserves ==
    ASSUME Inv, NEW c \in Characters, NEW s \in StoreIds, NEW asset \in Items \cup {Lot},
           NEW price \in Prices, ListStock(c, s, asset, price)
    PROVE  TotalLots' = TotalLots
<1>1. Shelves /\ World
  BY InvParts
<1>2. PICK l \in ListingIds :
         /\ listings[l].status = "none"
         /\ listings' = [listings EXCEPT ![l] =
                           [status |-> "active", store |-> s, asset |-> asset, price |-> price]]
  BY DEF ListStock, Fresh
<1>3. /\ goods' = [goods EXCEPT ![c] = @ - IF asset = Lot THEN 1 ELSE 0]
      /\ asset = Lot => goods[c] > 0
  BY DEF ListStock
<1>4. listings \in [ListingIds -> Listing] /\ goods \in [Characters -> Nat]
  BY <1>1 DEF Shelves, World
<1>5. goods' \in [Characters -> Nat] /\ \A d \in Characters \ {c} : goods'[d] = goods[d]
  BY <1>3, <1>4
<1>6. /\ listings'[l].status = "active" /\ listings'[l].asset = asset
      /\ \A m \in ListingIds \ {l} : listings'[m] = listings[m]
  BY <1>2, <1>4
<1>7. l \notin LotsOnSale
  BY <1>2 DEF LotsOnSale, Active
<1>8. CASE asset = Lot
  <2>1. LotsOnSale' = LotsOnSale \cup {l}
    BY <1>2, <1>6, <1>8 DEF LotsOnSale, Active
  <2>2. Cardinality(LotsOnSale') = Cardinality(LotsOnSale) + 1
    BY <1>7, <2>1, LotsTotal, FS_AddElement
  <2>3. goods'[c] = goods[c] - 1 /\ goods[c] \in Nat
    BY <1>3, <1>4, <1>8
  <2>4. Cardinality(LotsOnSale) \in Nat
    BY LotsTotal
  <2>. QED BY <1>1, <1>5, <2>2, <2>3, <2>4, LotsMove
<1>9. CASE asset # Lot
  <2>1. LotsOnSale' = LotsOnSale
    BY <1>6, <1>7, <1>9 DEF LotsOnSale, Active
  <2>2. goods'[c] = goods[c]
    BY <1>3, <1>4, <1>9
  <2>3. Cardinality(LotsOnSale) \in Nat
    BY LotsTotal
  <2>. QED BY <1>1, <1>5, <2>1, <2>2, <2>3, LotsMove
<1>. QED BY <1>8, <1>9

(* A lot that is bought comes to its buyer's counter. *)
LEMMA BuyConserves ==
    ASSUME Inv, NEW c \in Characters, Buy(c)
    PROVE  TotalLots' = TotalLots
<1>. DEFINE l == buying[c].listing
<1>1. l \in ListingIds /\ Active(l)
  BY BuyMeans
<1>2. Shelves /\ World
  BY InvParts
<1>3. /\ listings' = [listings EXCEPT ![l].status = "sold"]
      /\ goods' = [goods EXCEPT ![c] = @ + IF listings[l].asset = Lot THEN 1 ELSE 0]
  BY DEF Buy, Deliver
<1>. HIDE DEF l
<1>4. listings \in [ListingIds -> Listing] /\ goods \in [Characters -> Nat]
  BY <1>2 DEF Shelves, World
<1>5. goods' \in [Characters -> Nat] /\ \A d \in Characters \ {c} : goods'[d] = goods[d]
  BY <1>3, <1>4
<1>6. listings'[l].status = "sold" /\ \A m \in ListingIds \ {l} : listings'[m] = listings[m]
  BY <1>1, <1>3, <1>4 DEF Listing
<1>7. CASE listings[l].asset = Lot
  <2>1. LotsOnSale' = LotsOnSale \ {l} /\ l \in LotsOnSale
    BY <1>1, <1>6, <1>7 DEF LotsOnSale, Active
  <2>2. Cardinality(LotsOnSale') = Cardinality(LotsOnSale) - 1 /\ Cardinality(LotsOnSale') \in Nat
    BY <2>1, LotsTotal, FS_RemoveElement, FS_CardinalityType
  <2>3. goods'[c] = goods[c] + 1 /\ goods[c] \in Nat
    BY <1>3, <1>4, <1>7
  <2>4. Cardinality(LotsOnSale) \in Nat
    BY LotsTotal
  <2>. QED BY <1>2, <1>5, <2>2, <2>3, <2>4, LotsMove
<1>8. CASE listings[l].asset # Lot
  <2>1. LotsOnSale' = LotsOnSale
    BY <1>1, <1>6, <1>8 DEF LotsOnSale, Active
  <2>2. goods'[c] = goods[c]
    BY <1>3, <1>4, <1>8
  <2>3. Cardinality(LotsOnSale) \in Nat
    BY LotsTotal
  <2>. QED BY <1>2, <1>5, <2>1, <2>2, <2>3, LotsMove
<1>. QED BY <1>7, <1>8

(* Debited into a listing, refunded or sold, lots are neither lost nor made *)
(* for as long as nobody is deleted: counters and stock on sale together   *)
(* stay what they were.                                                    *)
THEOREM LotsConservedAlways == Spec => LotsConserved
<1>1. ASSUME Inv, [Next]_vars, live' = live
      PROVE  TotalLots' = TotalLots
  <2>1. ASSUME UNCHANGED listings, goods' = goods PROVE TotalLots' = TotalLots
    <3>1. LotsOnSale' = LotsOnSale
      BY <2>1 DEF LotsOnSale, Active
    <3>. QED BY <2>1, <3>1, LotsTotal, LotsTotalNext
  <2>2. World /\ Shelves
    BY <1>1, InvParts
  <2>3. ASSUME NEW c \in Characters, NEW l \in ListingIds, Unlist(c, l) PROVE TotalLots' = TotalLots
    <3>. DEFINE s == listings[l].store
    <3>1. s \in StoreIds /\ stores[s].owner = c /\ {l} \in SUBSET Stock(s) /\ Return(s, {l})
      BY <1>1, <2>3, UnlistMeans
    <3>. HIDE DEF s
    <3>. QED BY <2>2, <3>1, ReturnConserves
  <2>4. ASSUME NEW s \in StoreIds, stores[s].owner # Nobody, Close(s) PROVE TotalLots' = TotalLots
    <3>1. stores[s].owner \in Characters /\ Return(s, Stock(s))
      BY <1>1, <2>4, OwnerTyped DEF Close, Recalled
    <3>. QED BY <2>2, <3>1, ReturnConserves
  <2>5. ASSUME NEW p \in Properties, NEW new \in Characters, NEW disposition \in {"return", "transfer"},
               Transfer(p, new, disposition)
        PROVE  TotalLots' = TotalLots
    <3>1. ASSUME NEW s \in StoreIds, stores[s].owner \in Characters, Return(s, Stock(s))
          PROVE  TotalLots' = TotalLots
      BY <2>2, <3>1, ReturnConserves
    <3>. QED BY <1>1, <2>1, <2>5, <3>1, TransferMeans
  <2>6. CASE Quiet
    BY <1>1, <2>1, <2>6 DEF Quiet
  <2>7. CASE Loud
    BY <1>1, <2>3, <2>4, <2>5, <2>7, ListStockConserves, BuyConserves DEF Loud
  <2>. QED BY <1>1, <2>6, <2>7, EachStep
<1>2. Inv /\ [Next]_vars => (live' = live => TotalLots' = TotalLots)
  BY <1>1
<1>. QED BY <1>2, Invariance, PTL DEF Spec, LotsConserved
=============================================================================
