--------------------------- MODULE ExchangeProofs ---------------------------
(***************************************************************************)
(* Theorems about Exchange, for any characters, rooms, items and offers.   *)
(***************************************************************************)
EXTENDS Exchange, EconomyProofs, TLAPS

(* A whole settlement: fees, both legs, both rows. *)
LEMMA SettleSound ==
    ASSUME NEW b, Sound(b), NEW market \in BOOLEAN, NEW offer \in Offer,
           offer.giver \in Characters, offer.recipient \in Characters
    PROVE  /\ Sound(Settle(b, offer, market))
           /\ \A d \in Characters : Drift(Settle(b, offer, market), d) = Drift(b, d)
<1>. DEFINE g == offer.giver
            r == offer.recipient
            m == offer.give.money
            n == offer.want.money
            b1 == IF market /\ offer.give # Empty THEN ChargeFee(b, "trade", g) ELSE b
            b2 == IF market /\ offer.want # Empty THEN ChargeFee(b1, "trade", r) ELSE b1
            b3 == MoveMoney(b2, g, r, m)
            b4 == MoveMoney(b3, r, g, n)
            b5 == Journal(b4, g, r, m)
            b6 == Journal(b5, r, g, n)
<1>0. Settle(b, offer, market) = b6
  BY DEF Settle
<1>1. m \in Nat /\ n \in Nat /\ "trade" \in FeeKinds
  BY DEF Offer, Specs, FeeKinds
<1>2. \A d \in Characters : Drift(b, d) \in Int
  BY DEF Drift, Sound, Bank
<1>3. Sound(b1) /\ \A d \in Characters : Drift(b1, d) = Drift(b, d)
  BY <1>1, ChargeFeeSound
<1>. HIDE DEF b1
<1>4. Sound(b2) /\ \A d \in Characters : Drift(b2, d) = Drift(b, d)
  BY <1>1, <1>3, ChargeFeeSound
<1>. HIDE DEF b2, g, r, m, n
<1>g. g \in Characters /\ r \in Characters
  BY DEF g, r
<1>5. /\ Sound(b3)
      /\ \A d \in Characters : Drift(b3, d) = Drift(b2, d) - (IF d = g THEN m ELSE 0) + (IF d = r THEN m ELSE 0)
  BY <1>g, <1>1, <1>4, MoveMoneySound
<1>. HIDE DEF b3
<1>6. /\ Sound(b4)
      /\ \A d \in Characters : Drift(b4, d) = Drift(b3, d) - (IF d = r THEN n ELSE 0) + (IF d = g THEN n ELSE 0)
  BY <1>g, <1>1, <1>5, MoveMoneySound
<1>. HIDE DEF b4
<1>7. /\ Sound(b5)
      /\ \A d \in Characters : Drift(b5, d) = Drift(b4, d) + (IF d = g THEN m ELSE 0) - (IF d = r THEN m ELSE 0)
  BY <1>1, <1>6, JournalSound
<1>. HIDE DEF b5
<1>8. /\ Sound(b6)
      /\ \A d \in Characters : Drift(b6, d) = Drift(b5, d) + (IF d = r THEN n ELSE 0) - (IF d = g THEN n ELSE 0)
  BY <1>1, <1>7, JournalSound
<1>. HIDE DEF b6
<1>9. \A d \in Characters : Drift(b6, d) = Drift(b, d)
  BY <1>1, <1>2, <1>4, <1>5, <1>6, <1>7, <1>8
<1>. QED BY <1>0, <1>8, <1>9

-----------------------------------------------------------------------------
(***************************************************************************)
(* The invariant Inv of Exchange, and what it implies.                     *)
(***************************************************************************)
LEMMA InvInit == Init => Inv
<1>. SUFFICES ASSUME Init PROVE Inv
  OBVIOUS
<1>1. TypeOK
  <2>1. EmptyBank \in Bank /\ Committable(EmptyBank)
    BY DEF EmptyBank, Bank, Committable
  <2>2. \A c \in Characters : EmptyBank.purse[c] \in 0..MaxBalance
    BY EconomyAssumption DEF EmptyBank
  <2>3. EconomyTypeOK
    BY <2>1, <2>2, EconomyAssumption, ExchangeAssumption DEF Init, EconomyInit, EconomyTypeOK, ItemPlaces
  <2>4. Unmade \in Offer
    BY DEF Unmade, Offer, Statuses, Specs, Empty
  <2>. QED BY <2>3, <2>4 DEF TypeOK, Init, ExchangeInit
<1>2. BooksAgree
  BY DEF BooksAgree, Init, EconomyInit, EmptyBank
<1>3. MadeByCharacters /\ OpenOffersTogether
  BY DEF MadeByCharacters, OpenOffersTogether, Open, Unmade, Init, ExchangeInit
<1>4. ReadByRecipient /\ MovingIsThere /\ LeftIsDoomed
  BY DEF ReadByRecipient, MovingIsThere, LeftIsDoomed, Init, ExchangeInit
<1>. QED BY <1>1, <1>2, <1>3, <1>4 DEF Inv

LEMMA InvBank == Inv => GoodBank(bank)
BY BankGood DEF Inv, TypeOK

(* A settlement committed by a transaction leaves a good bank. *)
LEMMA SwapStep ==
    ASSUME Inv, NEW market \in BOOLEAN, NEW offer \in Offer,
           offer.giver \in Characters, offer.recipient \in Characters, Swap(offer, market)
    PROVE  /\ GoodBank(bank')
           /\ carrier' \in [Items -> ItemPlaces]
<1>1. GoodBank(bank)
  BY InvBank
<1>2. /\ bank' = Settle(bank, offer, market)
      /\ Committable(bank')
      /\ carrier' = Handover(offer)
  BY DEF Swap
<1>3. /\ Sound(Settle(bank, offer, market))
      /\ \A d \in Characters : Drift(Settle(bank, offer, market), d) = Drift(bank, d)
  BY <1>1, SettleSound DEF GoodBank
<1>4. GoodBank(bank')
  BY <1>1, <1>2, <1>3 DEF GoodBank
<1>5. carrier \in [Items -> ItemPlaces]
  BY DEF Inv, TypeOK, EconomyTypeOK
<1>6. carrier' \in [Items -> ItemPlaces]
  BY <1>2, <1>5 DEF Handover, ItemPlaces
<1>. QED BY <1>4, <1>6

-----------------------------------------------------------------------------
(***************************************************************************)
(* One lemma for each action: it preserves Inv.                            *)
(***************************************************************************)
LEMMA SetFrozenStep == ASSUME Inv, SetFrozen, UNCHANGED exchangeVars PROVE Inv'
<1>. USE DEF SetFrozen, exchangeVars
<1>1. TypeOK'
  BY DEF Inv, TypeOK, EconomyTypeOK
<1>2. BooksAgree' /\ MadeByCharacters' /\ ReadByRecipient' /\ MovingIsThere'
  BY DEF Inv, BooksAgree, MadeByCharacters, ReadByRecipient, MovingIsThere
<1>3. OpenOffersTogether' /\ LeftIsDoomed'
  BY DEF Inv, OpenOffersTogether, LeftIsDoomed, Open, IsParty
<1>. QED BY <1>1, <1>2, <1>3 DEF Inv

LEMMA ChangeRosterStep ==
    ASSUME Inv, NEW roster \in Rosters, ChangeRoster(roster), UNCHANGED exchangeVars PROVE Inv'
<1>. USE DEF ChangeRoster, exchangeVars
<1>1. TypeOK'
  BY EconomyAssumption, ExchangeAssumption DEF Inv, TypeOK, EconomyTypeOK
<1>2. BooksAgree' /\ MadeByCharacters' /\ ReadByRecipient' /\ MovingIsThere'
  BY DEF Inv, BooksAgree, MadeByCharacters, ReadByRecipient, MovingIsThere
<1>3. OpenOffersTogether' /\ LeftIsDoomed'
  BY DEF Inv, OpenOffersTogether, LeftIsDoomed, Open, IsParty
<1>. QED BY <1>1, <1>2, <1>3 DEF Inv

(* Whatever changes only the bank, and leaves it good. *)
LEMMA BankOnlyStep ==
    ASSUME Inv, GoodBank(bank'),
           UNCHANGED <<frozen, live, place, plays, carrier, exchangeVars>>
    PROVE  Inv'
<1>. USE DEF exchangeVars
<1>1. TypeOK' /\ BooksAgree'
  BY BankStep DEF Inv, TypeOK, EconomyTypeOK
<1>2. MadeByCharacters' /\ ReadByRecipient' /\ MovingIsThere'
  BY DEF Inv, MadeByCharacters, ReadByRecipient, MovingIsThere
<1>3. OpenOffersTogether' /\ LeftIsDoomed'
  BY DEF Inv, OpenOffersTogether, LeftIsDoomed, Open, IsParty
<1>. QED BY <1>1, <1>2, <1>3 DEF Inv

LEMMA CreditStep ==
    ASSUME Inv, NEW c \in Characters, NEW amount \in Amounts,
           Credit(c, amount), UNCHANGED exchangeVars
    PROVE  Inv'
<1>1. GoodBank(bank) /\ amount \in Nat
  BY InvBank, EconomyAssumption, ExchangeAssumption
<1>2. bank' = Mint(bank, c, amount) /\ Committable(bank')
  BY DEF Credit
<1>3. /\ Sound(Mint(bank, c, amount))
      /\ \A d \in Characters : Drift(Mint(bank, c, amount), d) = Drift(bank, d)
  BY <1>1, MintSound DEF GoodBank
<1>4. GoodBank(bank')
  BY <1>1, <1>2, <1>3 DEF GoodBank
<1>. QED BY <1>4, BankOnlyStep DEF Credit

LEMMA DebitStep ==
    ASSUME Inv, NEW c \in Characters, NEW amount \in Amounts,
           Debit(c, amount), UNCHANGED exchangeVars
    PROVE  Inv'
<1>1. GoodBank(bank) /\ amount \in Nat
  BY InvBank, EconomyAssumption, ExchangeAssumption
<1>2. bank' = Burn(bank, c, amount) /\ Committable(bank')
  BY DEF Debit
<1>3. /\ Sound(Burn(bank, c, amount))
      /\ \A d \in Characters : Drift(Burn(bank, c, amount), d) = Drift(bank, d)
  BY <1>1, BurnSound DEF GoodBank
<1>4. GoodBank(bank')
  BY <1>1, <1>2, <1>3 DEF GoodBank
<1>. QED BY <1>4, BankOnlyStep DEF Debit

(* Expiry changes statuses, from open to expired, and nothing else. *)
LEMMA ExpireLapsedKeeps ==
    ASSUME offers \in [OfferIds -> Offer]
    PROVE  /\ ExpireLapsed(offers) \in [OfferIds -> Offer]
           /\ \A o \in OfferIds :
                /\ ExpireLapsed(offers)[o].giver = offers[o].giver
                /\ ExpireLapsed(offers)[o].recipient = offers[o].recipient
                /\ ExpireLapsed(offers)[o].room = offers[o].room
                /\ \/ ExpireLapsed(offers)[o].status = offers[o].status
                   \/ offers[o].status = "open" /\ ExpireLapsed(offers)[o].status = "expired"
BY DEF ExpireLapsed, Offer, Statuses

(* Whatever only closes offers, leaving who made them and where. *)
LEMMA ClosingStep ==
    ASSUME Inv, UNCHANGED <<economyVars, moving, collected, left>>,
           offers' \in [OfferIds -> Offer],
           reading' \in [Characters -> OfferIds \cup {NoOffer}],
           \A o \in OfferIds :
              /\ offers'[o].giver = offers[o].giver
              /\ offers'[o].recipient = offers[o].recipient
              /\ offers'[o].room = offers[o].room
              /\ \/ offers'[o].status = offers[o].status
                 \/ offers[o].status = "open" /\ offers'[o].status \in {"expired", "cancelled"},
           \A c \in Characters : reading'[c] # NoOffer =>
              /\ offers[reading'[c]].status # "none"
              /\ offers[reading'[c]].recipient = c
    PROVE  Inv'
<1>. USE DEF economyVars
<1>1. TypeOK'
  BY DEF Inv, TypeOK, EconomyTypeOK
<1>2. BooksAgree' /\ MovingIsThere'
  BY DEF Inv, BooksAgree, MovingIsThere
<1>3. MadeByCharacters'
  BY DEF Inv, MadeByCharacters
<1>4. ReadByRecipient'
  <2>. SUFFICES ASSUME NEW c \in Characters, reading'[c] # NoOffer
                PROVE  offers'[reading'[c]].status # "none" /\ offers'[reading'[c]].recipient = c
    BY DEF ReadByRecipient
  <2>1. reading'[c] \in OfferIds
    OBVIOUS
  <2>. QED BY <2>1
<1>5. OpenOffersTogether'
  BY DEF Inv, OpenOffersTogether, Open
<1>6. LeftIsDoomed'
  <2>. SUFFICES ASSUME NEW o \in left
                PROVE  /\ offers'[o].status \notin {"none", "accepted"}
                       /\ offers'[o].status = "open" => \E c \in Characters :
                            IsParty(c, o)' /\ moving[c] # NoRoom /\ moving[c] # offers'[o].room
    BY DEF LeftIsDoomed, Open
  <2>1. o \in OfferIds
    BY DEF Inv, TypeOK
  <2>. QED BY <2>1 DEF Inv, LeftIsDoomed, Open, IsParty
<1>. QED BY <1>1, <1>2, <1>3, <1>4, <1>5, <1>6 DEF Inv

LEMMA AcceptReadStep ==
    ASSUME Inv, NEW c \in Characters, NEW o \in OfferIds, AcceptRead(c, o) PROVE Inv'
<1>1. offers \in [OfferIds -> Offer] /\ reading \in [Characters -> OfferIds \cup {NoOffer}]
  BY DEF Inv, TypeOK
<1>2. offers' = ExpireLapsed(offers) /\ reading' = [reading EXCEPT ![c] = o]
  BY DEF AcceptRead
<1>3. \A d \in Characters : reading'[d] # NoOffer =>
         offers[reading'[d]].status # "none" /\ offers[reading'[d]].recipient = d
  BY <1>1, <1>2 DEF AcceptRead, Inv, ReadByRecipient
<1>. QED BY <1>1, <1>2, <1>3, ExpireLapsedKeeps, ClosingStep DEF AcceptRead

LEMMA AcceptRefusedStep ==
    ASSUME Inv, NEW c \in Characters, AcceptRefused(c) PROVE Inv'
<1>1. offers \in [OfferIds -> Offer] /\ reading \in [Characters -> OfferIds \cup {NoOffer}]
  BY DEF Inv, TypeOK
<1>2. \A d \in Characters : reading'[d] # NoOffer =>
         offers[reading'[d]].status # "none" /\ offers[reading'[d]].recipient = d
  BY <1>1 DEF AcceptRefused, Inv, ReadByRecipient
<1>. QED BY <1>1, <1>2, ClosingStep DEF AcceptRefused

LEMMA ClockStep ==
    ASSUME Inv, \/ ExpireOffers
                \/ \E o \in OfferIds : Lapse(o)
                \/ \E c \in Characters, o \in OfferIds : CancelOffer(c, o)
    PROVE  Inv'
<1>1. offers \in [OfferIds -> Offer] /\ reading \in [Characters -> OfferIds \cup {NoOffer}]
  BY DEF Inv, TypeOK
<1>2. \A d \in Characters : reading[d] # NoOffer =>
         offers[reading[d]].status # "none" /\ offers[reading[d]].recipient = d
  BY DEF Inv, ReadByRecipient
<1>3. CASE ExpireOffers
  BY <1>1, <1>2, <1>3, ExpireLapsedKeeps, ClosingStep DEF ExpireOffers
<1>4. ASSUME NEW o \in OfferIds, Lapse(o) PROVE Inv'
  <2>1. offers' \in [OfferIds -> Offer]
    BY <1>1, <1>4 DEF Lapse, Offer
  <2>2. \A p \in OfferIds : /\ offers'[p].giver = offers[p].giver
                            /\ offers'[p].recipient = offers[p].recipient
                            /\ offers'[p].room = offers[p].room
                            /\ offers'[p].status = offers[p].status
    BY <1>1, <1>4 DEF Lapse, Offer
  <2>. QED BY <1>1, <1>2, <1>4, <2>1, <2>2, ClosingStep DEF Lapse
<1>5. ASSUME NEW c \in Characters, NEW o \in OfferIds, CancelOffer(c, o) PROVE Inv'
  <2>1. offers' \in [OfferIds -> Offer]
    BY <1>1, <1>5 DEF CancelOffer, Offer, Statuses
  <2>2. \A p \in OfferIds : /\ offers'[p].giver = offers[p].giver
                            /\ offers'[p].recipient = offers[p].recipient
                            /\ offers'[p].room = offers[p].room
                            /\ \/ offers'[p].status = offers[p].status
                               \/ offers[p].status = "open" /\ offers'[p].status = "cancelled"
    BY <1>1, <1>5 DEF CancelOffer, Offer, Open
  <2>. QED BY <1>1, <1>2, <1>5, <2>1, <2>2, ClosingStep DEF CancelOffer
<1>. QED BY <1>3, <1>4, <1>5

LEMMA CreateOfferStep ==
    ASSUME Inv, NEW g \in Characters, NEW r \in Characters,
           NEW give \in Sides, NEW want \in Sides, CreateOffer(g, r, give, want)
    PROVE  Inv'
<1>. DEFINE table == ExpireLapsed(offers)
            made == [status |-> "open", giver |-> g, recipient |-> r, room |-> place[g],
                     give |-> give, want |-> want, lapsed |-> FALSE]
<1>1. PICK o \in OfferIds : FreshOffer(o) /\ offers' = [table EXCEPT ![o] = made]
  BY DEF CreateOffer
<1>2. offers \in [OfferIds -> Offer] /\ place \in [Characters -> Rooms]
  BY DEF Inv, TypeOK, EconomyTypeOK
<1>3. /\ table \in [OfferIds -> Offer]
      /\ \A p \in OfferIds : /\ table[p].giver = offers[p].giver
                             /\ table[p].recipient = offers[p].recipient
                             /\ table[p].room = offers[p].room
                             /\ \/ table[p].status = offers[p].status
                                \/ offers[p].status = "open" /\ table[p].status = "expired"
  BY <1>2, ExpireLapsedKeeps
<1>. HIDE DEF table
<1>4. made \in Offer
  BY <1>2, EconomyAssumption, ExchangeAssumption DEF Offer, Statuses
<1>5. /\ made.giver = g /\ made.recipient = r /\ made.room = place[g] /\ made.status = "open"
      /\ place[g] = place[r]
  BY DEF CreateOffer, Parties
<1>. HIDE DEF made
<1>6. offers[o].status = "none"
  BY <1>1 DEF FreshOffer
<1>7. /\ offers' \in [OfferIds -> Offer] /\ offers'[o] = made
      /\ \A p \in OfferIds \ {o} : offers'[p] = table[p]
  BY <1>1, <1>3, <1>4
<1>8. UNCHANGED <<economyVars, reading, moving, collected, left>>
  BY DEF CreateOffer
<1>. USE DEF economyVars
<1>9. TypeOK' /\ BooksAgree' /\ MovingIsThere'
  BY <1>7, <1>8 DEF Inv, TypeOK, EconomyTypeOK, BooksAgree, MovingIsThere
<1>10. MadeByCharacters'
  BY <1>3, <1>5, <1>7 DEF Inv, MadeByCharacters
<1>11. ReadByRecipient'
  <2>. SUFFICES ASSUME NEW c \in Characters, reading[c] # NoOffer
                PROVE  offers'[reading[c]].status # "none" /\ offers'[reading[c]].recipient = c
    BY <1>8 DEF ReadByRecipient
  <2>1. reading[c] \in OfferIds \ {o}
    BY <1>6 DEF Inv, ReadByRecipient, TypeOK
  <2>. QED BY <1>3, <1>7, <2>1 DEF Inv, ReadByRecipient
<1>12. OpenOffersTogether'
  <2>. SUFFICES ASSUME NEW p \in OfferIds, offers'[p].status = "open",
                       NEW c \in {offers'[p].giver, offers'[p].recipient}, moving[c] = NoRoom
                PROVE  place[c] = offers'[p].room
    BY <1>8 DEF OpenOffersTogether, Open
  <2>1. CASE p = o
    BY <1>5, <1>7, <2>1
  <2>2. CASE p # o
    BY <1>3, <1>7, <2>2 DEF Inv, OpenOffersTogether, Open
  <2>. QED BY <2>1, <2>2
<1>13. LeftIsDoomed'
  <2>. SUFFICES ASSUME NEW p \in left
                PROVE  /\ offers'[p].status \notin {"none", "accepted"}
                       /\ offers'[p].status = "open" => \E c \in Characters :
                            IsParty(c, p)' /\ moving[c] # NoRoom /\ moving[c] # offers'[p].room
    BY <1>8 DEF LeftIsDoomed, Open
  <2>1. p \in OfferIds \ {o}
    BY <1>6 DEF Inv, TypeOK, LeftIsDoomed
  <2>. QED BY <1>3, <1>7, <2>1 DEF Inv, LeftIsDoomed, Open, IsParty
<1>. QED BY <1>9, <1>10, <1>11, <1>12, <1>13 DEF Inv

(* An offer settled in this step, and not one that a party has left. *)
LEMMA SettlingStep ==
    ASSUME Inv, NEW o \in OfferIds \ left, NEW done \in Offer,
           done.status = "accepted", done.giver \in Characters, done.recipient \in Characters,
           \/ offers[o].status = "none"
           \/ done.recipient = offers[o].recipient,
           offers' = [offers EXCEPT ![o] = done],
           GoodBank(bank'), carrier' \in [Items -> ItemPlaces],
           reading' \in [Characters -> OfferIds \cup {NoOffer}],
           \A c \in Characters : reading'[c] \in {reading[c], NoOffer},
           UNCHANGED <<frozen, live, place, plays, moving, collected, left>>
    PROVE  Inv'
<1>1. offers \in [OfferIds -> Offer] /\ offers' \in [OfferIds -> Offer]
  BY DEF Inv, TypeOK
<1>2. offers'[o] = done /\ \A p \in OfferIds \ {o} : offers'[p] = offers[p]
  BY <1>1
<1>3. TypeOK' /\ BooksAgree' /\ MovingIsThere'
  BY <1>1, BankStep DEF Inv, TypeOK, EconomyTypeOK, MovingIsThere
<1>4. MadeByCharacters' /\ OpenOffersTogether'
  BY <1>2 DEF Inv, MadeByCharacters, OpenOffersTogether, Open
<1>5. ReadByRecipient'
  <2>. SUFFICES ASSUME NEW c \in Characters, reading'[c] # NoOffer
                PROVE  offers'[reading'[c]].status # "none" /\ offers'[reading'[c]].recipient = c
    BY DEF ReadByRecipient
  <2>1. /\ reading'[c] \in OfferIds
        /\ offers[reading'[c]].status # "none" /\ offers[reading'[c]].recipient = c
    BY DEF Inv, ReadByRecipient
  <2>. QED BY <1>2, <2>1
<1>6. LeftIsDoomed'
  <2>. SUFFICES ASSUME NEW p \in left
                PROVE  /\ offers'[p].status \notin {"none", "accepted"}
                       /\ offers'[p].status = "open" => \E c \in Characters :
                            IsParty(c, p)' /\ moving[c] # NoRoom /\ moving[c] # offers'[p].room
    BY DEF LeftIsDoomed, Open
  <2>1. p \in OfferIds \ {o}
    BY DEF Inv, TypeOK
  <2>. QED BY <1>2, <2>1 DEF Inv, LeftIsDoomed, Open, IsParty
<1>. QED BY <1>3, <1>4, <1>5, <1>6 DEF Inv

LEMMA AcceptStep ==
    ASSUME Inv, NEW c \in Characters, Accept(c) PROVE Inv'
<1>. DEFINE o == reading[c]
            done == [offers[o] EXCEPT !.status = "accepted"]
<1>1. /\ o # NoOffer /\ offers[o].status = "open"
      /\ Parties(offers[o].giver, c) /\ place[c] = offers[o].room
      /\ Swap(offers[o], TRUE)
      /\ offers' = [offers EXCEPT ![o].status = "accepted"]
      /\ reading' = [reading EXCEPT ![c] = NoOffer]
      /\ UNCHANGED <<frozen, live, place, plays, moving, collected, left>>
  BY DEF Accept, Conclude, Open
<1>2. /\ offers \in [OfferIds -> Offer] /\ o \in OfferIds
      /\ reading \in [Characters -> OfferIds \cup {NoOffer}]
  BY <1>1 DEF Inv, TypeOK
<1>3. offers[o].recipient = c /\ offers[o].giver \in Characters
  BY <1>1, <1>2 DEF Inv, ReadByRecipient, MadeByCharacters
<1>4. GoodBank(bank') /\ carrier' \in [Items -> ItemPlaces]
  BY <1>1, <1>2, <1>3, SwapStep
<1>5. /\ done \in Offer /\ done.status = "accepted"
      /\ done.giver = offers[o].giver /\ done.recipient = c
      /\ offers' = [offers EXCEPT ![o] = done]
  BY <1>1, <1>2, <1>3 DEF Offer, Statuses
<1>6. o \notin left
  <2>. SUFFICES ASSUME o \in left PROVE FALSE
    OBVIOUS
  <2>1. PICK d \in Characters : IsParty(d, o) /\ moving[d] # NoRoom /\ moving[d] # offers[o].room
    BY <1>1 DEF Inv, LeftIsDoomed, Open
  <2>2. place[d] # offers[o].room
    BY <2>1 DEF Inv, MovingIsThere
  <2>3. place[offers[o].giver] = place[c]
    BY <1>1 DEF Parties
  <2>. QED BY <1>1, <1>3, <2>1, <2>2, <2>3 DEF IsParty
<1>7. /\ reading' \in [Characters -> OfferIds \cup {NoOffer}]
      /\ \A d \in Characters : reading'[d] \in {reading[d], NoOffer}
  BY <1>1, <1>2
<1>8. UNCHANGED <<frozen, live, place, plays, moving, collected, left>>
  BY <1>1
<1>9. o \in OfferIds \ left /\ done.giver \in Characters /\ done.recipient = offers[o].recipient
  BY <1>2, <1>3, <1>5, <1>6
<1>10. done.recipient \in Characters
  BY <1>5
<1>. HIDE DEF done, o
<1>. QED BY <1>4, <1>5, <1>7, <1>8, <1>9, <1>10, SettlingStep

LEMMA GiveStep ==
    ASSUME Inv, NEW g \in Characters, NEW r \in Characters, NEW spec \in Sides, Give(g, r, spec)
    PROVE  Inv'
<1>. DEFINE market == spec.money > 0
            gift == [status |-> "accepted", giver |-> g, recipient |-> r, room |-> place[g],
                     give |-> spec, want |-> Empty, lapsed |-> TRUE]
<1>1. PICK o \in OfferIds :
         FreshOffer(o) /\ Swap(gift, market) /\ offers' = [offers EXCEPT ![o] = gift]
  BY DEF Give
<1>2. UNCHANGED <<frozen, live, place, plays, reading, moving, collected, left>>
  BY DEF Give
<1>3. spec \in Specs /\ Empty \in Specs /\ place[g] \in Rooms
  BY EconomyAssumption, ExchangeAssumption DEF Empty, Specs, Inv, TypeOK, EconomyTypeOK
<1>4. gift \in Offer /\ market \in BOOLEAN
  BY <1>3 DEF Offer, Statuses
<1>5. gift.status = "accepted" /\ gift.giver = g /\ gift.recipient = r
  OBVIOUS
<1>c. offers' = [offers EXCEPT ![o] = gift]
  BY <1>1
<1>. HIDE DEF gift, market
<1>6. GoodBank(bank') /\ carrier' \in [Items -> ItemPlaces]
  BY <1>1, <1>4, <1>5, SwapStep
<1>7. offers[o].status = "none" /\ o \notin left
  BY <1>1 DEF FreshOffer, Inv, LeftIsDoomed
<1>8. reading \in [Characters -> OfferIds \cup {NoOffer}]
  BY DEF Inv, TypeOK
<1>9. \A c \in Characters : reading'[c] \in {reading[c], NoOffer}
  BY <1>2
<1>. QED BY <1>c, <1>2, <1>4, <1>5, <1>6, <1>7, <1>8, <1>9, SettlingStep

LEMMA MoveStep ==
    ASSUME Inv, NEW c \in Characters, NEW room \in Rooms, Move(c, room) PROVE Inv'
<1>. USE DEF Move
<1>1. /\ place \in [Characters -> Rooms] /\ moving \in [Characters -> Rooms \cup {NoRoom}]
      /\ room # NoRoom
  BY EconomyAssumption, ExchangeAssumption DEF Inv, TypeOK, EconomyTypeOK
<1>2. TypeOK'
  BY <1>1 DEF Inv, TypeOK, EconomyTypeOK
<1>3. BooksAgree' /\ MadeByCharacters' /\ ReadByRecipient' /\ MovingIsThere'
  BY <1>1 DEF Inv, BooksAgree, MadeByCharacters, ReadByRecipient, MovingIsThere
<1>4. OpenOffersTogether'
  <2>. SUFFICES ASSUME NEW o \in OfferIds, offers[o].status = "open",
                       NEW d \in {offers[o].giver, offers[o].recipient}, moving'[d] = NoRoom
                PROVE  place'[d] = offers[o].room
    BY DEF OpenOffersTogether, Open
  <2>1. d \in Characters
    BY DEF Inv, MadeByCharacters
  <2>2. d # c /\ moving[d] = NoRoom /\ place'[d] = place[d]
    BY <1>1, <2>1
  <2>. QED BY <2>2 DEF Inv, OpenOffersTogether, Open
<1>5. LeftIsDoomed'
  <2>. SUFFICES ASSUME NEW o \in left'
                PROVE  /\ offers[o].status \notin {"none", "accepted"}
                       /\ offers[o].status = "open" => \E d \in Characters :
                            IsParty(d, o) /\ moving'[d] # NoRoom /\ moving'[d] # offers[o].room
    BY DEF LeftIsDoomed, Open, IsParty
  <2>1. CASE o \in left
    BY <1>1, <2>1 DEF Inv, LeftIsDoomed, Open
  <2>2. CASE o \in OfferIds /\ Open(o) /\ IsParty(c, o) /\ offers[o].room # room
    BY <1>1, <2>2 DEF Open
  <2>. QED BY <2>1, <2>2
<1>. QED BY <1>2, <1>3, <1>4, <1>5 DEF Inv

LEMMA OnLocationSavedStep ==
    ASSUME Inv, NEW c \in Characters, OnLocationSaved(c) PROVE Inv'
<1>1. /\ offers \in [OfferIds -> Offer] /\ moving \in [Characters -> Rooms \cup {NoRoom}]
      /\ moving[c] # NoRoom
      /\ moving' = [moving EXCEPT ![c] = NoRoom]
      /\ UNCHANGED <<economyVars, reading, collected, left>>
  BY DEF Inv, TypeOK, OnLocationSaved
<1>2. \A o \in OfferIds :
        offers'[o] = IF Open(o) /\ IsParty(c, o) /\ offers[o].room # moving[c]
                     THEN [offers[o] EXCEPT !.status = "expired"] ELSE offers[o]
  BY DEF OnLocationSaved
<1>3. offers' \in [OfferIds -> Offer]
  BY <1>1 DEF OnLocationSaved, Offer, Statuses
<1>4. \A o \in OfferIds :
        /\ offers'[o].giver = offers[o].giver /\ offers'[o].recipient = offers[o].recipient
        /\ offers'[o].room = offers[o].room
        /\ \/ /\ offers'[o].status = offers[o].status
              /\ ~(Open(o) /\ IsParty(c, o) /\ offers[o].room # moving[c])
           \/ offers[o].status = "open" /\ offers'[o].status = "expired"
  BY <1>1, <1>2 DEF Offer, Open
<1>. USE DEF economyVars
<1>5. TypeOK' /\ BooksAgree' /\ MovingIsThere'
  BY <1>1, <1>3 DEF Inv, TypeOK, EconomyTypeOK, BooksAgree, MovingIsThere
<1>6. MadeByCharacters'
  BY <1>4 DEF Inv, MadeByCharacters
<1>7. ReadByRecipient'
  BY <1>1, <1>4 DEF Inv, ReadByRecipient, TypeOK
<1>8. OpenOffersTogether'
  <2>. SUFFICES ASSUME NEW o \in OfferIds, offers'[o].status = "open",
                       NEW d \in {offers'[o].giver, offers'[o].recipient}, moving'[d] = NoRoom
                PROVE  place[d] = offers'[o].room
    BY <1>1 DEF OpenOffersTogether, Open
  <2>1. offers[o].status = "open" /\ d \in Characters /\ IsParty(d, o) /\ offers'[o].room = offers[o].room
    BY <1>4 DEF Inv, MadeByCharacters, IsParty
  <2>2. CASE d = c
    <3>1. offers[o].room = moving[c]
      BY <1>4, <2>1, <2>2 DEF Open
    <3>. QED BY <1>1, <2>1, <2>2, <3>1 DEF Inv, MovingIsThere
  <2>3. CASE d # c
    BY <1>1, <2>1, <2>3 DEF Inv, OpenOffersTogether, Open, IsParty
  <2>. QED BY <2>2, <2>3
<1>9. LeftIsDoomed'
  <2>. SUFFICES ASSUME NEW o \in left
                PROVE  /\ offers'[o].status \notin {"none", "accepted"}
                       /\ offers'[o].status = "open" => \E d \in Characters :
                            IsParty(d, o)' /\ moving'[d] # NoRoom /\ moving'[d] # offers'[o].room
    BY <1>1 DEF LeftIsDoomed, Open
  <2>1. o \in OfferIds
    BY DEF Inv, TypeOK
  <2>2. offers'[o].status \notin {"none", "accepted"}
    BY <1>4, <2>1 DEF Inv, LeftIsDoomed
  <2>3. ASSUME offers'[o].status = "open"
        PROVE  \E d \in Characters : IsParty(d, o)' /\ moving'[d] # NoRoom /\ moving'[d] # offers'[o].room
    <3>1. Open(o)
      BY <1>4, <2>1, <2>3 DEF Open
    <3>2. PICK d \in Characters : IsParty(d, o) /\ moving[d] # NoRoom /\ moving[d] # offers[o].room
      BY <3>1 DEF Inv, LeftIsDoomed
    <3>3. d # c
      BY <1>4, <2>1, <2>3, <3>1, <3>2
    <3>. QED BY <1>1, <1>4, <2>1, <3>2, <3>3 DEF IsParty
  <2>. QED BY <2>2, <2>3
<1>. QED BY <1>5, <1>6, <1>7, <1>8, <1>9 DEF Inv

LEMMA CarryOrDropStep ==
    ASSUME Inv, NEW c \in Characters, NEW i \in Items, CarryOrDrop(c, i) PROVE Inv'
<1>. USE DEF CarryOrDrop, exchangeVars
<1>1. TypeOK'
  BY DEF Inv, TypeOK, EconomyTypeOK, ItemPlaces
<1>2. BooksAgree' /\ MadeByCharacters' /\ ReadByRecipient' /\ MovingIsThere'
  BY DEF Inv, BooksAgree, MadeByCharacters, ReadByRecipient, MovingIsThere
<1>3. OpenOffersTogether' /\ LeftIsDoomed'
  BY DEF Inv, OpenOffersTogether, LeftIsDoomed, Open, IsParty
<1>. QED BY <1>1, <1>2, <1>3 DEF Inv

LEMMA DeleteCharacterStep ==
    ASSUME Inv, NEW c \in Characters, DeleteCharacter(c) PROVE Inv'
<1>1. /\ bank' = BurnDeleted(bank, c, bank.purse[c])
      /\ live' = live \ {c}
      /\ carrier' = [i \in Items |-> IF carrier[i] = c THEN Home ELSE carrier[i]]
      /\ reading' = [reading EXCEPT ![c] = NoOffer]
      /\ moving' = [moving EXCEPT ![c] = NoRoom]
      /\ collected' = [collected EXCEPT ![c] = NotCollected]
      /\ UNCHANGED <<frozen, place, plays, left>>
  BY DEF DeleteCharacter, Delete
<1>2. \A o \in OfferIds :
        offers'[o] = IF IsParty(c, o) THEN [offers[o] EXCEPT !.status = "deleted"] ELSE offers[o]
  BY DEF DeleteCharacter, Delete
<1>3. /\ offers \in [OfferIds -> Offer] /\ carrier \in [Items -> ItemPlaces]
      /\ reading \in [Characters -> OfferIds \cup {NoOffer}]
      /\ moving \in [Characters -> Rooms \cup {NoRoom}]
      /\ collected \in [Characters -> Collected \cup {NotCollected}]
      /\ bank.purse[c] \in Nat
  BY EconomyAssumption DEF Inv, TypeOK, EconomyTypeOK
<1>4. GoodBank(bank')
  <2>1. GoodBank(bank)
    BY InvBank
  <2>2. /\ Sound(BurnDeleted(bank, c, bank.purse[c]))
        /\ BurnDeleted(bank, c, bank.purse[c]).missed = bank.missed
        /\ \A d \in Characters : Drift(BurnDeleted(bank, c, bank.purse[c]), d) = Drift(bank, d)
    BY <1>3, <2>1, BurnDeletedSound DEF GoodBank
  <2>. QED BY <1>1, <2>1, <2>2 DEF GoodBank, Committable
<1>5. offers' \in [OfferIds -> Offer]
  BY <1>3 DEF DeleteCharacter, Delete, Offer, Statuses
<1>6. \A o \in OfferIds :
        /\ offers'[o].giver = offers[o].giver /\ offers'[o].recipient = offers[o].recipient
        /\ offers'[o].room = offers[o].room
        /\ \/ offers'[o].status = offers[o].status /\ ~IsParty(c, o)
           \/ offers'[o].status = "deleted"
  BY <1>2, <1>3 DEF Offer
<1>7. TypeOK'
  <2>1. carrier' \in [Items -> ItemPlaces]
    BY <1>1, <1>3, EconomyAssumption DEF ItemPlaces
  <2>2. EconomyTypeOK'
    BY <1>1, <1>4, <2>1, BankStep DEF Inv, TypeOK, EconomyTypeOK
  <2>. QED BY <1>1, <1>3, <1>5, <2>2 DEF Inv, TypeOK
<1>8. BooksAgree'
  BY <1>4, BankStep
<1>9. MadeByCharacters'
  <2>. SUFFICES ASSUME NEW o \in OfferIds
                PROVE  IF offers'[o].status = "none"
                       THEN offers'[o].giver = Nobody /\ offers'[o].recipient = Nobody
                       ELSE offers'[o].giver \in Characters /\ offers'[o].recipient \in Characters
    BY DEF MadeByCharacters
  <2>1. CASE ~IsParty(c, o)
    BY <1>2, <2>1 DEF Inv, MadeByCharacters
  <2>2. CASE IsParty(c, o)
    <3>1. offers'[o].status = "deleted"
      BY <1>6, <2>2
    <3>2. c # Nobody
      BY EconomyAssumption
    <3>3. offers[o].status # "none"
      BY <2>2, <3>2 DEF Inv, MadeByCharacters, IsParty
    <3>. QED BY <1>6, <3>1, <3>3 DEF Inv, MadeByCharacters
  <2>. QED BY <2>1, <2>2
<1>10. ReadByRecipient' /\ MovingIsThere'
  BY <1>1, <1>3, <1>6 DEF Inv, ReadByRecipient, MovingIsThere
<1>11. OpenOffersTogether'
  <2>. SUFFICES ASSUME NEW o \in OfferIds, offers'[o].status = "open",
                       NEW d \in {offers'[o].giver, offers'[o].recipient}, moving'[d] = NoRoom
                PROVE  place'[d] = offers'[o].room
    BY DEF OpenOffersTogether, Open
  <2>1. offers[o].status = "open" /\ ~IsParty(c, o)
    BY <1>6
  <2>2. d # c /\ d \in {offers[o].giver, offers[o].recipient} /\ moving[d] = NoRoom
    BY <1>1, <1>3, <1>6, <2>1 DEF IsParty
  <2>. QED BY <1>1, <1>6, <2>1, <2>2 DEF Inv, OpenOffersTogether, Open
<1>12. LeftIsDoomed'
  <2>. SUFFICES ASSUME NEW o \in left
                PROVE  /\ offers'[o].status \notin {"none", "accepted"}
                       /\ offers'[o].status = "open" => \E d \in Characters :
                            IsParty(d, o)' /\ moving'[d] # NoRoom /\ moving'[d] # offers'[o].room
    BY <1>1 DEF LeftIsDoomed, Open
  <2>1. o \in OfferIds
    BY DEF Inv, TypeOK
  <2>2. offers'[o].status \notin {"none", "accepted"}
    BY <1>6, <2>1 DEF Inv, LeftIsDoomed
  <2>3. ASSUME offers'[o].status = "open"
        PROVE  \E d \in Characters : IsParty(d, o)' /\ moving'[d] # NoRoom /\ moving'[d] # offers'[o].room
    <3>1. Open(o) /\ ~IsParty(c, o)
      BY <1>6, <2>1, <2>3 DEF Open
    <3>2. PICK d \in Characters : IsParty(d, o) /\ moving[d] # NoRoom /\ moving[d] # offers[o].room
      BY <3>1 DEF Inv, LeftIsDoomed
    <3>3. d # c
      BY <3>1, <3>2
    <3>. QED BY <1>1, <1>3, <1>6, <2>1, <3>2, <3>3 DEF IsParty
  <2>. QED BY <2>2, <2>3
<1>. QED BY <1>7, <1>8, <1>9, <1>10, <1>11, <1>12 DEF Inv

-----------------------------------------------------------------------------
LEMMA InvStep == Inv /\ [Next]_vars => Inv'
<1>. SUFFICES ASSUME Inv, [Next]_vars PROVE Inv'
  OBVIOUS
<1>1. CASE UNCHANGED vars
  <2>. USE <1>1 DEF vars, economyVars, exchangeVars
  <2>1. TypeOK'
    BY DEF Inv, TypeOK, EconomyTypeOK
  <2>2. BooksAgree' /\ MadeByCharacters' /\ ReadByRecipient' /\ MovingIsThere'
    BY DEF Inv, BooksAgree, MadeByCharacters, ReadByRecipient, MovingIsThere
  <2>3. OpenOffersTogether' /\ LeftIsDoomed'
    BY DEF Inv, OpenOffersTogether, LeftIsDoomed, Open, IsParty
  <2>. QED BY <2>1, <2>2, <2>3 DEF Inv
<1>2. CASE SetFrozen /\ UNCHANGED exchangeVars
  BY <1>2, SetFrozenStep
<1>3. CASE \E roster \in Rosters : ChangeRoster(roster) /\ UNCHANGED exchangeVars
  BY <1>3, ChangeRosterStep
<1>4. CASE Clock
  BY <1>4, ClockStep DEF Clock
<1>5. ASSUME NEW c \in Characters, Market(c) PROVE Inv'
  <2>1. CASE \E amount \in Amounts : (Credit(c, amount) \/ Debit(c, amount)) /\ UNCHANGED exchangeVars
    BY <2>1, CreditStep, DebitStep
  <2>2. CASE \E r \in Characters, give, want \in Sides : CreateOffer(c, r, give, want)
    BY <2>2, CreateOfferStep
  <2>3. CASE \E r \in Characters, spec \in Sides : Give(c, r, spec)
    BY <2>3, GiveStep
  <2>4. CASE \E o \in OfferIds : AcceptRead(c, o) \/ CancelOffer(c, o)
    BY <2>4, AcceptReadStep, ClockStep
  <2>5. CASE Accept(c)
    BY <2>5, AcceptStep
  <2>6. CASE AcceptRefused(c)
    BY <2>6, AcceptRefusedStep
  <2>. QED BY <1>5, <2>1, <2>2, <2>3, <2>4, <2>5, <2>6 DEF Market
<1>6. ASSUME NEW c \in Characters, World(c) PROVE Inv'
  BY <1>6, MoveStep, OnLocationSavedStep, CarryOrDropStep DEF World
<1>7. ASSUME NEW c \in Characters, DeleteCharacter(c) PROVE Inv'
  BY <1>7, DeleteCharacterStep
<1>. QED BY <1>1, <1>2, <1>3, <1>4, <1>5, <1>6, <1>7 DEF Next, Common

(* Inv is an invariant of Exchange. *)
THEOREM Invariance == Spec => []Inv
<1>. QED BY InvInit, InvStep, PTL DEF Spec

(* Every purse stays in 0..MaxBalance, every offer and every read of one   *)
(* stays well-formed, whatever order the services run in.                  *)
THEOREM TypeCorrect == Spec => []TypeOK
<1>1. Inv => TypeOK
  BY DEF Inv
<1>. QED BY <1>1, Invariance, PTL

(* No money moves unjournaled: each purse is what its character's ledger   *)
(* rows sum to, through trades, gifts, fees, grants and deletions.         *)
THEOREM PurseMatchesLedger == Spec => []BooksAgree
<1>1. Inv => BooksAgree
  BY DEF Inv
<1>. QED BY <1>1, Invariance, PTL

(* An open offer's parties stand in its room, or a save's signal is due.   *)
THEOREM OpenOfferRoom == Spec => []OpenOffersTogether
<1>1. Inv => OpenOffersTogether
  BY DEF Inv
<1>. QED BY <1>1, Invariance, PTL

(* Leave-and-return does not revive an offer: on_location_saved expires it *)
(* before its parties can be together again, unless the process dies.      *)
THEOREM LeavingEndsOffers == Spec => []NoneAcceptedAfterLeaving
<1>1. Inv => NoneAcceptedAfterLeaving
  BY DEF Inv, LeftIsDoomed, NoneAcceptedAfterLeaving
<1>. QED BY <1>1, Invariance, PTL

-----------------------------------------------------------------------------
(***************************************************************************)
(* The reconciliation: no step moves the purses' sum and the ledger's      *)
(* totals apart.                                                           *)
(***************************************************************************)

(* A settlement moves money between purses and burns what it charges. *)
LEMMA SettleGap ==
    ASSUME NEW b, Sound(b), NEW market \in BOOLEAN, NEW offer \in Offer,
           offer.giver \in Characters, offer.recipient \in Characters
    PROVE  Gap(Settle(b, offer, market)) = Gap(b)
<1>. DEFINE g == offer.giver
            r == offer.recipient
            m == offer.give.money
            n == offer.want.money
            b1 == IF market /\ offer.give # Empty THEN ChargeFee(b, "trade", g) ELSE b
            b2 == IF market /\ offer.want # Empty THEN ChargeFee(b1, "trade", r) ELSE b1
            b3 == MoveMoney(b2, g, r, m)
            b4 == MoveMoney(b3, r, g, n)
            b5 == Journal(b4, g, r, m)
            b6 == Journal(b5, r, g, n)
<1>0. Settle(b, offer, market) = b6
  BY DEF Settle
<1>1. m \in Nat /\ n \in Nat /\ "trade" \in FeeKinds
  BY DEF Offer, Specs, FeeKinds
<1>3. Sound(b1) /\ Gap(b1) = Gap(b)
  BY <1>1, ChargeFeeSound, ChargeFeeGap
<1>. HIDE DEF b1
<1>4. Sound(b2) /\ Gap(b2) = Gap(b)
  BY <1>1, <1>3, ChargeFeeSound, ChargeFeeGap
<1>. HIDE DEF b2, g, r, m, n
<1>g. g \in Characters /\ r \in Characters /\ g # Nobody /\ r # Nobody
  BY EconomyAssumption DEF g, r
<1>5. Sound(b3) /\ Gap(b3) = Gap(b)
  BY <1>g, <1>1, <1>4, MoveMoneySound, MoveMoneyGap
<1>. HIDE DEF b3
<1>6. Sound(b4) /\ Gap(b4) = Gap(b)
  BY <1>g, <1>1, <1>5, MoveMoneySound, MoveMoneyGap
<1>. HIDE DEF b4
<1>7. Sound(b5) /\ Gap(b5) = Gap(b)
  <2>1. Sound(b5) /\ Gap(b5) = Gap(b4) + (IF g = Nobody THEN m ELSE 0) - (IF r = Nobody THEN m ELSE 0)
    BY <1>1, <1>6, JournalSound, JournalGap DEF Sound
  <2>2. Gap(b4) \in Int
    BY <1>6, GapInt DEF Sound
  <2>. QED BY <1>g, <1>6, <2>1, <2>2
<1>. HIDE DEF b5
<1>8. Gap(b6) = Gap(b)
  <2>1. Gap(b6) = Gap(b5) + (IF r = Nobody THEN n ELSE 0) - (IF g = Nobody THEN n ELSE 0)
    BY <1>1, <1>7, JournalGap DEF Sound
  <2>2. Gap(b5) \in Int
    BY <1>7, GapInt DEF Sound
  <2>. QED BY <1>g, <1>7, <2>1, <2>2
<1>. QED BY <1>0, <1>8

LEMMA GapStep == Inv /\ [Next]_vars => Gap(bank') = Gap(bank)
<1>. SUFFICES ASSUME Inv, [Next]_vars PROVE Gap(bank') = Gap(bank)
  OBVIOUS
<1>0. Sound(bank)
  BY InvBank DEF GoodBank
<1>1. CASE UNCHANGED bank
  BY <1>1
<1>2. ASSUME NEW c \in Characters, NEW amount \in Amounts, Credit(c, amount) \/ Debit(c, amount)
      PROVE  Gap(bank') = Gap(bank)
  BY <1>0, <1>2, MintGap, BurnGap, EconomyAssumption DEF Credit, Debit
<1>3. ASSUME NEW c \in Characters, Accept(c) PROVE Gap(bank') = Gap(bank)
  <2>. DEFINE o == reading[c]
  <2>1. o # NoOffer /\ bank' = Settle(bank, offers[o], TRUE)
    BY <1>3 DEF Accept, Conclude, Swap
  <2>2. o \in OfferIds /\ offers[o] \in Offer
    BY <2>1 DEF Inv, TypeOK
  <2>3. offers[o].recipient \in Characters /\ offers[o].giver \in Characters
    BY <2>1, <2>2 DEF Inv, ReadByRecipient, MadeByCharacters
  <2>. HIDE DEF o
  <2>. QED BY <1>0, <2>1, <2>2, <2>3, SettleGap
<1>4. ASSUME NEW g \in Characters, NEW r \in Characters, NEW spec \in Sides, Give(g, r, spec)
      PROVE  Gap(bank') = Gap(bank)
  <2>. DEFINE market == spec.money > 0
              gift == [status |-> "accepted", giver |-> g, recipient |-> r, room |-> place[g],
                       give |-> spec, want |-> Empty, lapsed |-> TRUE]
  <2>1. bank' = Settle(bank, gift, market)
    BY <1>4 DEF Give, Swap
  <2>2. spec \in Specs /\ Empty \in Specs /\ place[g] \in Rooms
    BY EconomyAssumption, ExchangeAssumption DEF Empty, Specs, Inv, TypeOK, EconomyTypeOK
  <2>3. gift \in Offer /\ market \in BOOLEAN
    BY <2>2 DEF Offer, Statuses
  <2>4. gift.giver = g /\ gift.recipient = r
    OBVIOUS
  <2>. HIDE DEF gift, market
  <2>. QED BY <1>0, <2>1, <2>3, <2>4, SettleGap
<1>5. ASSUME NEW c \in Characters, DeleteCharacter(c) PROVE Gap(bank') = Gap(bank)
  <2>1. bank.purse[c] \in Nat
    BY EconomyAssumption DEF Inv, TypeOK, EconomyTypeOK
  <2>. QED BY <1>0, <1>5, <2>1, BurnDeletedGap DEF DeleteCharacter, Delete
<1>6. ASSUME NEW c \in Characters, Market(c) PROVE Gap(bank') = Gap(bank)
  BY <1>1, <1>2, <1>3, <1>4, <1>6
     DEF Market, CreateOffer, AcceptRead, CancelOffer, AcceptRefused, economyVars
<1>7. Clock \/ (\E c \in Characters : World(c)) => UNCHANGED bank
  BY DEF Clock, ExpireOffers, Lapse, World, Move, OnLocationSaved, CarryOrDrop, economyVars
<1>. QED BY <1>1, <1>5, <1>6, <1>7 DEF Next, Common, SetFrozen, ChangeRoster, vars, economyVars

(* What was minted less what was burned is what all purses hold, through   *)
(* any trades, gifts, fees, grants and deletions of characters with money, *)
(* while no two deletions and payments interleave.                         *)
THEOREM LedgerReconciles == Spec => []Reconciled
<1>. DEFINE NoGap == Gap(bank) = 0
<1>1. Init => NoGap
  <2>1. Total(EmptyBank.purse, Characters) = 0
    BY TotalZero, EconomyAssumption DEF EmptyBank
  <2>. QED BY <2>1 DEF Init, EconomyInit, Gap, EmptyBank
<1>2. Inv /\ NoGap /\ [Next]_vars => NoGap'
  BY GapStep
<1>3. Inv /\ NoGap => Reconciled
  BY ReconciledMeans DEF Inv, TypeOK, EconomyTypeOK
<1>. HIDE DEF NoGap
<1>. QED BY <1>1, <1>2, <1>3, Invariance, PTL DEF Spec

-----------------------------------------------------------------------------
(***************************************************************************)
(* What an acceptance is.                                                  *)
(***************************************************************************)

(* An offer comes to be accepted by its recipient, or as a gift, and then  *)
(* between two characters of different accounts that hold what it names.   *)
Settled(t, market) ==
    /\ t \in Offer /\ t.giver \in Characters /\ t.recipient \in Characters
    /\ Parties(t.giver, t.recipient)
    /\ Holds(t.giver, t.give) /\ Holds(t.recipient, t.want)
    /\ bank' = Settle(bank, t, market)
    /\ carrier' = Handover(t)

(* Only Accept and Give do, to one offer. *)
LEMMA AcceptSettles ==
    ASSUME Inv, NEW c \in Characters, Accept(c)
    PROVE  \E o \in OfferIds :
             /\ offers[o].status = "open" /\ offers'[o].status = "accepted"
             /\ \A p \in OfferIds \ {o} : offers'[p] = offers[p]
             /\ Settled(offers'[o], TRUE)
             /\ <<offers'[o].give, offers'[o].want, offers'[o].giver, offers'[o].recipient, offers'[o].room>>
                  = <<offers[o].give, offers[o].want, offers[o].giver, offers[o].recipient, offers[o].room>>
<1>. DEFINE o == reading[c]
            t == [offers[o] EXCEPT !.status = "accepted"]
<1>1. /\ o # NoOffer /\ offers[o].status = "open"
      /\ Parties(offers[o].giver, c) /\ Swap(offers[o], TRUE)
      /\ offers' = [offers EXCEPT ![o].status = "accepted"]
  BY DEF Accept, Conclude, Open
<1>2. o \in OfferIds /\ offers \in [OfferIds -> Offer] /\ offers[o] \in Offer
  BY <1>1 DEF Inv, TypeOK
<1>3. offers[o].recipient = c /\ offers[o].giver \in Characters
  BY <1>1, <1>2 DEF Inv, ReadByRecipient, MadeByCharacters
<1>4. /\ t \in Offer /\ t.status = "accepted" /\ t.give = offers[o].give /\ t.want = offers[o].want
      /\ t.giver = offers[o].giver /\ t.recipient = c /\ t.room = offers[o].room
  BY <1>2, <1>3 DEF Offer, Statuses
<1>5. offers'[o] = t /\ \A p \in OfferIds \ {o} : offers'[p] = offers[p]
  BY <1>1, <1>2
<1>6. Settled(t, TRUE)
  <2>. HIDE DEF t, o
  <2>1. Settle(bank, t, TRUE) = Settle(bank, offers[o], TRUE)
    BY <1>3, <1>4 DEF Settle
  <2>2. Handover(t) = Handover(offers[o])
    BY <1>3, <1>4 DEF Handover
  <2>. QED BY <1>1, <1>3, <1>4, <2>1, <2>2 DEF Settled, Swap
<1>. HIDE DEF t, o
<1>. QED BY <1>1, <1>2, <1>3, <1>4, <1>5, <1>6

LEMMA GiveSettles ==
    ASSUME Inv, NEW g \in Characters, NEW r \in Characters, NEW spec \in Sides, Give(g, r, spec)
    PROVE  \E o \in OfferIds :
             /\ offers[o].status = "none" /\ offers'[o].status = "accepted"
             /\ \A p \in OfferIds \ {o} : offers'[p] = offers[p]
             /\ Settled(offers'[o], offers'[o].give.money > 0)
<1>. DEFINE t == [status |-> "accepted", giver |-> g, recipient |-> r, room |-> place[g],
                  give |-> spec, want |-> Empty, lapsed |-> TRUE]
<1>1. PICK o \in OfferIds :
         FreshOffer(o) /\ Swap(t, spec.money > 0) /\ offers' = [offers EXCEPT ![o] = t]
  BY DEF Give
<1>2. Parties(g, r)
  BY DEF Give
<1>3. spec \in Specs /\ Empty \in Specs /\ place[g] \in Rooms /\ offers \in [OfferIds -> Offer]
  BY EconomyAssumption, ExchangeAssumption DEF Empty, Specs, Inv, TypeOK, EconomyTypeOK
<1>4. /\ t \in Offer /\ t.status = "accepted" /\ t.giver = g /\ t.recipient = r
      /\ t.give = spec /\ t.want = Empty
  BY <1>3 DEF Offer, Statuses
<1>5. offers'[o] = t /\ \A p \in OfferIds \ {o} : offers'[p] = offers[p]
  BY <1>1, <1>3
<1>. HIDE DEF t
<1>6. Settled(t, t.give.money > 0)
  BY <1>1, <1>2, <1>4 DEF Settled, Swap
<1>. QED BY <1>1, <1>4, <1>5, <1>6 DEF FreshOffer

(* Every other step accepts nothing, keeps the terms of what was made and  *)
(* the answers that were given, and passes no item between characters.     *)
Kept(o) ==
    /\ offers[o].status \notin {"none", "open"} => offers'[o].status \in {offers[o].status, "deleted"}
    /\ offers[o].status # "none" =>
          <<offers[o].give, offers[o].want, offers[o].giver, offers[o].recipient, offers[o].room>>
        = <<offers'[o].give, offers'[o].want, offers'[o].giver, offers'[o].recipient, offers'[o].room>>

ItemsStay ==
    \A i \in Items : carrier[i] \in Characters /\ carrier'[i] \in Characters => carrier'[i] = carrier[i]

Quiet == ItemsStay /\ \A o \in OfferIds : ~Accepts(o) /\ Kept(o)

LEMMA OffersKept == UNCHANGED offers => \A o \in OfferIds : ~Accepts(o) /\ Kept(o)
BY DEF Accepts, Kept

LEMMA CarrierKept == UNCHANGED carrier => ItemsStay
BY DEF ItemsStay

LEMMA ExpiryQuiet ==
    ASSUME offers \in [OfferIds -> Offer], NEW o \in OfferIds, offers'[o] = ExpireLapsed(offers)[o]
    PROVE  ~Accepts(o) /\ Kept(o)
<1>1. offers'[o] = IF offers[o].status = "open" /\ offers[o].lapsed
                   THEN [offers[o] EXCEPT !.status = "expired"] ELSE offers[o]
  BY DEF ExpireLapsed
<1>2. offers[o] \in Offer
  OBVIOUS
<1>. QED BY <1>1, <1>2 DEF Accepts, Kept, Offer

LEMMA QuietStep ==
    ASSUME Inv, [Next]_vars,
           ~\E c \in Characters : Accept(c),
           ~\E g, r \in Characters, spec \in Sides : Give(g, r, spec)
    PROVE  Quiet
<1>1. offers \in [OfferIds -> Offer] /\ place \in [Characters -> Rooms] /\ carrier \in [Items -> ItemPlaces]
  BY DEF Inv, TypeOK, EconomyTypeOK
<1>2. CASE UNCHANGED <<offers, carrier>>
  BY <1>2, OffersKept, CarrierKept DEF Quiet
<1>3. CASE UNCHANGED carrier /\ offers' = ExpireLapsed(offers)
  BY <1>1, <1>3, CarrierKept, ExpiryQuiet DEF Quiet
<1>4. ASSUME NEW o \in OfferIds, Lapse(o) PROVE Quiet
  <2>1. ASSUME NEW p \in OfferIds PROVE ~Accepts(p) /\ Kept(p)
    <3>1. offers'[p] = offers[p] \/ offers'[p] = [offers[p] EXCEPT !.lapsed = TRUE]
      BY <1>1, <1>4 DEF Lapse
    <3>. QED BY <1>1, <3>1 DEF Accepts, Kept, Offer
  <2>. QED BY <1>4, <2>1, CarrierKept DEF Quiet, Lapse, economyVars
<1>5. ASSUME NEW c \in Characters, NEW o \in OfferIds, CancelOffer(c, o) PROVE Quiet
  <2>1. ASSUME NEW p \in OfferIds PROVE ~Accepts(p) /\ Kept(p)
    <3>1. \/ offers'[p] = offers[p]
          \/ offers[p].status = "open" /\ offers'[p] = [offers[p] EXCEPT !.status = "cancelled"]
      BY <1>1, <1>5 DEF CancelOffer, Open
    <3>. QED BY <1>1, <3>1 DEF Accepts, Kept, Offer
  <2>. QED BY <1>5, <2>1, CarrierKept DEF Quiet, CancelOffer, economyVars
<1>6. ASSUME NEW g \in Characters, NEW r \in Characters, NEW give \in Sides, NEW want \in Sides,
             CreateOffer(g, r, give, want)
      PROVE  Quiet
  <2>. DEFINE made == [status |-> "open", giver |-> g, recipient |-> r, room |-> place[g],
                       give |-> give, want |-> want, lapsed |-> FALSE]
  <2>1. PICK o \in OfferIds : FreshOffer(o) /\ offers' = [ExpireLapsed(offers) EXCEPT ![o] = made]
    BY <1>6 DEF CreateOffer
  <2>2. ExpireLapsed(offers) \in [OfferIds -> Offer] /\ made.status = "open"
    BY <1>1, ExpireLapsedKeeps
  <2>. HIDE DEF made
  <2>3. ASSUME NEW p \in OfferIds PROVE ~Accepts(p) /\ Kept(p)
    <3>1. CASE p = o
      BY <2>1, <2>2, <3>1 DEF Accepts, Kept, FreshOffer
    <3>2. CASE p # o
      BY <1>1, <2>1, <2>2, <3>2, ExpiryQuiet
    <3>. QED BY <3>1, <3>2
  <2>. QED BY <1>6, <2>3, CarrierKept DEF Quiet, CreateOffer, economyVars
<1>7. ASSUME NEW c \in Characters, OnLocationSaved(c) PROVE Quiet
  <2>1. ASSUME NEW p \in OfferIds PROVE ~Accepts(p) /\ Kept(p)
    <3>1. \/ offers'[p] = offers[p]
          \/ offers[p].status = "open" /\ offers'[p] = [offers[p] EXCEPT !.status = "expired"]
      BY <1>1, <1>7 DEF OnLocationSaved, Open
    <3>. QED BY <1>1, <3>1 DEF Accepts, Kept, Offer
  <2>. QED BY <1>7, <2>1, CarrierKept DEF Quiet, OnLocationSaved, economyVars
<1>8. ASSUME NEW c \in Characters, NEW i \in Items, CarryOrDrop(c, i) PROVE Quiet
  <2>1. place[c] \notin Characters /\ carrier' \in {[carrier EXCEPT ![i] = place[c]], [carrier EXCEPT ![i] = c]}
    BY <1>1, <1>8, EconomyAssumption DEF CarryOrDrop
  <2>2. ItemsStay
    BY <1>1, <1>8, <2>1 DEF ItemsStay, CarryOrDrop
  <2>. QED BY <1>8, <2>2, OffersKept DEF Quiet, CarryOrDrop, exchangeVars
<1>9. ASSUME NEW c \in Characters, DeleteCharacter(c) PROVE Quiet
  <2>1. ASSUME NEW p \in OfferIds PROVE ~Accepts(p) /\ Kept(p)
    <3>1. offers'[p] = offers[p] \/ offers'[p] = [offers[p] EXCEPT !.status = "deleted"]
      BY <1>1, <1>9 DEF DeleteCharacter, Delete
    <3>. QED BY <1>1, <3>1 DEF Accepts, Kept, Offer
  <2>2. ItemsStay
    BY <1>1, <1>9, EconomyAssumption DEF ItemsStay, DeleteCharacter, Delete
  <2>. QED BY <2>1, <2>2 DEF Quiet
<1>10. ASSUME NEW c \in Characters, Market(c) PROVE Quiet
  BY <1>2, <1>3, <1>5, <1>6, <1>10 DEF Market, Credit, Debit, AcceptRead, AcceptRefused, economyVars, exchangeVars
<1>11. ASSUME NEW c \in Characters, World(c) PROVE Quiet
  BY <1>2, <1>7, <1>8, <1>11 DEF World, Move
<1>12. CASE Clock
  BY <1>3, <1>4, <1>12 DEF Clock, ExpireOffers, economyVars
<1>. QED BY <1>2, <1>9, <1>10, <1>11, <1>12
         DEF Next, Common, SetFrozen, ChangeRoster, vars, economyVars, exchangeVars

(* So whatever comes to be accepted is settled. *)
LEMMA AcceptanceIsSettled ==
    ASSUME Inv, [Next]_vars, NEW o \in OfferIds, Accepts(o)
    PROVE  Settled(offers'[o], offers[o].status = "open" \/ offers'[o].give.money > 0)
<1>1. CASE \E c \in Characters : Accept(c)
  BY <1>1, AcceptSettles DEF Accepts
<1>2. CASE \E g, r \in Characters, spec \in Sides : Give(g, r, spec)
  BY <1>2, GiveSettles DEF Accepts
<1>. QED BY <1>1, <1>2, QuietStep DEF Quiet
-----------------------------------------------------------------------------
(* No acceptance is between two characters one account then plays.         *)
THEOREM NoSelfDealingAlways == Spec => NoSelfDealing
<1>1. Inv /\ [Next]_vars =>
         \A o \in OfferIds : Accepts(o) => ~SameAccount(offers'[o].giver, offers'[o].recipient)
  BY AcceptanceIsSettled DEF Settled, Parties
<1>. QED BY <1>1, Invariance, PTL DEF Spec, NoSelfDealing

(* An answered offer keeps its answer, a made one its terms. *)
THEOREM AnsweredOnceAlways == Spec => AnsweredOnce
<1>1. ASSUME Inv, [Next]_vars PROVE \A o \in OfferIds : Kept(o)
  <2>1. CASE \E c \in Characters : Accept(c)
    BY <1>1, <2>1, AcceptSettles DEF Kept
  <2>2. CASE \E g, r \in Characters, spec \in Sides : Give(g, r, spec)
    BY <1>1, <2>2, GiveSettles DEF Kept
  <2>. QED BY <1>1, <2>1, <2>2, QuietStep DEF Quiet
<1>. QED BY <1>1, Invariance, PTL DEF Spec, AnsweredOnce, Kept

(* What a settlement does to the purses of two parties, and to others'. *)
LEMMA SettlePurse ==
    ASSUME NEW b, Sound(b), NEW market \in BOOLEAN, NEW t \in Offer,
           t.giver \in Characters, t.recipient \in Characters, t.giver # t.recipient,
           NEW d \in Characters
    PROVE  Settle(b, t, market).purse[d] = b.purse[d] +
             (IF d = t.giver
              THEN t.want.money - t.give.money - (IF market /\ t.give # Empty THEN Fee["trade"] ELSE 0)
              ELSE IF d = t.recipient
              THEN t.give.money - t.want.money - (IF market /\ t.want # Empty THEN Fee["trade"] ELSE 0)
              ELSE 0)
<1>. DEFINE g == t.giver
            r == t.recipient
            m == t.give.money
            n == t.want.money
            feeG == IF market /\ t.give # Empty THEN Fee["trade"] ELSE 0
            feeR == IF market /\ t.want # Empty THEN Fee["trade"] ELSE 0
            b1 == IF market /\ t.give # Empty THEN ChargeFee(b, "trade", g) ELSE b
            b2 == IF market /\ t.want # Empty THEN ChargeFee(b1, "trade", r) ELSE b1
            b3 == MoveMoney(b2, g, r, m)
            b4 == MoveMoney(b3, r, g, n)
            b5 == Journal(b4, g, r, m)
            b6 == Journal(b5, r, g, n)
<1>0. Settle(b, t, market) = b6
  BY DEF Settle
<1>1. m \in Nat /\ n \in Nat /\ "trade" \in FeeKinds /\ Fee["trade"] \in Nat
  BY EconomyAssumption DEF Offer, Specs, FeeKinds
<1>2. b.purse[d] \in Int
  BY DEF Sound, Bank
<1>g. g \in Characters /\ r \in Characters /\ g # r
  OBVIOUS
<1>3. Sound(b1) /\ b1.purse[d] = b.purse[d] - IF d = g THEN feeG ELSE 0
  BY <1>1, <1>2, ChargeFeeSound, ChargeFeePurse
<1>. HIDE DEF b1
<1>4. Sound(b2) /\ b2.purse[d] = b1.purse[d] - IF d = r THEN feeR ELSE 0
  <2>1. b1.purse[d] \in Int
    BY <1>3 DEF Sound, Bank
  <2>. QED BY <1>1, <1>3, <2>1, ChargeFeeSound, ChargeFeePurse
<1>5. feeG \in Nat /\ feeR \in Nat
  BY <1>1
<1>. HIDE DEF b2, feeG, feeR, g, r, m, n
<1>6. Sound(b3) /\ b3.purse[d] = b2.purse[d] - (IF d = g THEN m ELSE 0) + (IF d = r THEN m ELSE 0)
  <2>1. Sound(MoveMoney(b2, g, r, m))
    BY <1>1, <1>4, <1>g, MoveMoneySound
  <2>2. MoveMoney(b2, g, r, m).purse[d]
          = b2.purse[d] - (IF d = g THEN m ELSE 0) + (IF d = r THEN m ELSE 0)
    BY <1>1, <1>4, <1>g, MoveMoneyPurse
  <2>. QED BY <2>1, <2>2
<1>. HIDE DEF b3
<1>7. Sound(b4) /\ b4.purse[d] = b3.purse[d] - (IF d = r THEN n ELSE 0) + (IF d = g THEN n ELSE 0)
  <2>1. Sound(MoveMoney(b3, r, g, n))
    BY <1>1, <1>6, <1>g, MoveMoneySound
  <2>2. MoveMoney(b3, r, g, n).purse[d]
          = b3.purse[d] - (IF d = r THEN n ELSE 0) + (IF d = g THEN n ELSE 0)
    BY <1>1, <1>6, <1>g, MoveMoneyPurse
  <2>. QED BY <2>1, <2>2
<1>. HIDE DEF b4
<1>8. Sound(b5) /\ b5.purse = b4.purse
  BY <1>1, <1>7, <1>g, JournalSound, JournalPurse DEF Sound
<1>. HIDE DEF b5
<1>9. b6.purse = b5.purse
  BY <1>1, <1>8, <1>g, JournalPurse DEF Sound
<1>. HIDE DEF b6
<1>11. b6.purse[d] = b.purse[d] + (IF d = g THEN n - m - feeG ELSE IF d = r THEN m - n - feeR ELSE 0)
  BY <1>1, <1>2, <1>3, <1>4, <1>5, <1>6, <1>7, <1>8, <1>9, <1>g
<1>. QED BY <1>0, <1>11 DEF g, r, m, n, feeG, feeR

(* An acceptance pays, charges and hands over its terms and nothing else. *)
THEOREM SettlesInFullAlways == Spec => SettlesInFull
<1>1. ASSUME Inv, [Next]_vars, NEW o \in OfferIds, Accepts(o)
      PROVE  /\ \A c \in Characters : bank'.purse[c] = bank.purse[c] + Gain(c, o)
             /\ \A i \in offers'[o].give.items : carrier'[i] = offers'[o].recipient
             /\ \A i \in offers'[o].want.items : carrier'[i] = offers'[o].giver
  <2>. DEFINE t == offers'[o]
              market == offers[o].status = "open" \/ t.give.money > 0
  <2>1. Settled(t, market)
    BY <1>1, AcceptanceIsSettled
  <2>. HIDE DEF t
  <2>2. /\ t \in Offer /\ t.giver \in Characters /\ t.recipient \in Characters
        /\ t.giver # t.recipient
        /\ bank' = Settle(bank, t, market)
        /\ carrier' = Handover(t)
    BY <2>1 DEF Settled, Parties
  <2>3. t.give.items \subseteq Items /\ t.want.items \subseteq Items
    BY <2>2 DEF Offer, Specs
  <2>4. \A i \in t.want.items : i \notin t.give.items
    BY <2>1, <2>2 DEF Settled, Holds
  <2>5. \A c \in Characters : bank'.purse[c] = bank.purse[c] + Gain(c, o)
    <3>1. Sound(bank) /\ market \in BOOLEAN
      BY <1>1, InvBank DEF GoodBank
    <3>. HIDE DEF market
    <3>2. ASSUME NEW c \in Characters
          PROVE  bank'.purse[c] = bank.purse[c] +
             (IF c = t.giver
              THEN t.want.money - t.give.money - (IF market /\ t.give # Empty THEN Fee["trade"] ELSE 0)
              ELSE IF c = t.recipient
              THEN t.give.money - t.want.money - (IF market /\ t.want # Empty THEN Fee["trade"] ELSE 0)
              ELSE 0)
      BY <2>2, <3>1, SettlePurse
    <3>. QED BY <3>2 DEF Gain, Fees, t, market
  <2>6. /\ \A i \in t.give.items : carrier'[i] = t.recipient
        /\ \A i \in t.want.items : carrier'[i] = t.giver
    BY <2>2, <2>3, <2>4 DEF Handover
  <2>. QED BY <2>5, <2>6 DEF t
<1>2. Inv /\ [Next]_vars =>
        \A o \in OfferIds : Accepts(o) =>
           /\ \A c \in Characters : bank'.purse[c] = bank.purse[c] + Gain(c, o)
           /\ \A i \in offers'[o].give.items : carrier'[i] = offers'[o].recipient
           /\ \A i \in offers'[o].want.items : carrier'[i] = offers'[o].giver
  BY <1>1
<1>. QED BY <1>2, Invariance, PTL DEF Spec, SettlesInFull

(* An item passes from one character to another only by an acceptance that *)
(* names it.                                                               *)
THEOREM ItemsPassByConsentAlways == Spec => ItemsPassByConsent
<1>1. ASSUME Inv, [Next]_vars, NEW i \in Items,
             carrier[i] \in Characters, carrier'[i] \in Characters, carrier'[i] # carrier[i]
      PROVE  \E o \in OfferIds :
               /\ Accepts(o)
               /\ \/ /\ i \in offers'[o].give.items
                     /\ <<carrier[i], carrier'[i]>> = <<offers'[o].giver, offers'[o].recipient>>
                  \/ /\ i \in offers'[o].want.items
                     /\ <<carrier[i], carrier'[i]>> = <<offers'[o].recipient, offers'[o].giver>>
  <2>1. (\E c \in Characters : Accept(c)) \/ \E g, r \in Characters, spec \in Sides : Give(g, r, spec)
    BY <1>1, QuietStep DEF Quiet, ItemsStay
  <2>2. PICK o \in OfferIds :
           Accepts(o) /\ (Settled(offers'[o], TRUE) \/ Settled(offers'[o], offers'[o].give.money > 0))
    BY <1>1, <2>1, AcceptSettles, GiveSettles DEF Accepts
  <2>. DEFINE t == offers'[o]
  <2>3. Holds(t.giver, t.give) /\ Holds(t.recipient, t.want) /\ carrier' = Handover(t)
    BY <2>2 DEF Settled
  <2>4. \/ i \in t.give.items /\ carrier'[i] = t.recipient /\ carrier[i] = t.giver
        \/ i \in t.want.items /\ carrier'[i] = t.giver /\ carrier[i] = t.recipient
    BY <1>1, <2>3 DEF Handover, Holds
  <2>. QED BY <2>2, <2>4
<1>2. Inv /\ [Next]_vars =>
        \A i \in Items :
          (carrier[i] \in Characters /\ carrier'[i] \in Characters /\ carrier'[i] # carrier[i]) =>
             \E o \in OfferIds :
               /\ Accepts(o)
               /\ \/ /\ i \in offers'[o].give.items
                     /\ <<carrier[i], carrier'[i]>> = <<offers'[o].giver, offers'[o].recipient>>
                  \/ /\ i \in offers'[o].want.items
                     /\ <<carrier[i], carrier'[i]>> = <<offers'[o].recipient, offers'[o].giver>>
  BY <1>1
<1>. QED BY <1>2, Invariance, PTL DEF Spec, ItemsPassByConsent
=============================================================================
