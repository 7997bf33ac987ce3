------------------------------ MODULE Exchange ------------------------------
(***************************************************************************)
(* Player exchanges (evennia_economy/exchange.py, assets.py): unreserved   *)
(* two-sided offers, instant gifts, and the signals that expire an offer   *)
(* when a party leaves the room.  An offer promises nothing until it is    *)
(* accepted: funds, items, rooms, accounts and the freeze are all read     *)
(* again then, and both legs commit together or not at all.                *)
(***************************************************************************)
EXTENDS Economy

CONSTANTS
    OfferIds,       \* bound: 1..n, the Offer rows ever made
    MaxOpenOffers,  \* RP_ECONOMY_MAX_OPEN_OFFERS
    Sides,          \* bound: the asset specs players name
    NoOffer, NotCollected

Specs == [money : Nat, items : SUBSET Items]

Empty == [money |-> 0, items |-> {}]

(* The rows Django's collector has read for a deletion: a purse, the offers. *)
Collected == [seen : Nat, rows : SUBSET OfferIds]

ASSUME ExchangeAssumption ==
    /\ OfferIds \subseteq Nat
    /\ MaxOpenOffers \in Nat
    /\ Sides \subseteq Specs
    /\ NoOffer \notin OfferIds
    /\ NotCollected \notin Collected

VARIABLES
    offers,     \* the Offer table; "none" not yet made, "deleted" cascaded away
    reading,    \* the offer a recipient's accept_offer has read but not locked
    moving,     \* the room in a saved move whose post_save has not run
    collected,  \* what Django has read of the rows it is about to delete
    left        \* history: open offers whose room a party has left

exchangeVars == <<offers, reading, moving, collected, left>>
vars == <<economyVars, exchangeVars>>

Statuses == {"none", "open", "accepted", "expired", "cancelled", "deleted"}

Offer == [status    : Statuses,
          giver     : Characters \cup {Nobody},
          recipient : Characters \cup {Nobody},
          room      : Rooms \cup {NoRoom},
          give      : Specs,
          want      : Specs,
          lapsed    : BOOLEAN]   \* `expires` is in the past

Unmade == [status |-> "none", giver |-> Nobody, recipient |-> Nobody, room |-> NoRoom,
           give |-> Empty, want |-> Empty, lapsed |-> FALSE]

Open(o) == offers[o].status = "open"
IsParty(c, o) == c \in {offers[o].giver, offers[o].recipient}
FreshOffer(o) == offers[o].status = "none" /\ \A p \in OfferIds : p < o => offers[p].status # "none"

(* Mutant of ExpireLapsed: the comparison with now is reversed. *)
ExpireUnlapsed(table) ==
    [o \in OfferIds |-> IF table[o].status = "open" /\ ~table[o].lapsed
                        THEN [table[o] EXCEPT !.status = "expired"] ELSE table[o]]

(* Offer.objects.filter(open, expires__lte=now).update(status="expired") *)
ExpireLapsed(table) ==
    [o \in OfferIds |-> IF table[o].status = "open" /\ table[o].lapsed
                        THEN [table[o] EXCEPT !.status = "expired"] ELSE table[o]]

(* Mutant of Parties: membership is not read again. *)
PartiesOfAnyAccount(c, d) == c # d /\ {c, d} \subseteq live /\ place[c] = place[d]

(* Two characters of different accounts, standing together. *)
Parties(c, d) ==
    /\ c # d
    /\ {c, d} \subseteq live
    /\ ~SameAccount(c, d)
    /\ place[c] = place[d]

(* assets.check: the giver still holds every asset.  Hooks may refuse too. *)
Holds(giver, spec) ==
    /\ bank.purse[giver] >= spec.money
    /\ \A i \in spec.items : carrier[i] = giver

(* assets.move and the "exchange" rows, both legs, after the market's fees. *)
Settle(b, offer, market) ==
    LET g == offer.giver
        r == offer.recipient
        feeG == IF market /\ offer.give # Empty THEN ChargeFee(b, "trade", g) ELSE b
        feeR == IF market /\ offer.want # Empty THEN ChargeFee(feeG, "trade", r) ELSE feeG
        leg1 == MoveMoney(feeR, g, r, offer.give.money)
        leg2 == MoveMoney(leg1, r, g, offer.want.money)
    IN  Journal(Journal(leg2, g, r, offer.give.money), r, g, offer.want.money)

(* Mutant of Handover: the return leg is forgotten. *)
HandoverOneLeg(offer) ==
    [i \in Items |-> IF i \in offer.give.items THEN offer.recipient ELSE carrier[i]]

Handover(offer) ==
    [i \in Items |-> IF i \in offer.give.items THEN offer.recipient
                     ELSE IF i \in offer.want.items THEN offer.giver
                     ELSE carrier[i]]

Swap(offer, market) ==
    /\ Holds(offer.giver, offer.give)
    /\ Holds(offer.recipient, offer.want)
    /\ LET settled == Settle(bank, offer, market) IN Committable(settled) /\ bank' = settled
    /\ carrier' = Handover(offer)

-----------------------------------------------------------------------------

ExchangeInit ==
    /\ offers = [o \in OfferIds |-> Unmade]
    /\ reading = [c \in Characters |-> NoOffer]
    /\ moving = [c \in Characters |-> NoRoom]
    /\ collected = [c \in Characters |-> NotCollected]
    /\ left = {}

(* The giver is below the cap on open offers. *)
BelowOfferCap(table, g) ==
    Cardinality({o \in OfferIds : table[o].status = "open" /\ table[o].giver = g}) < MaxOpenOffers

CreateOffer(g, r, give, want) ==
    /\ give # Empty
    /\ ~frozen
    /\ Parties(g, r)
    /\ LET table == ExpireLapsed(offers)
       IN  /\ BelowOfferCap(table, g)
           /\ Holds(g, give)
           /\ give.items \cap want.items = {}
           /\ \E o \in OfferIds :
                 /\ FreshOffer(o)
                 /\ offers' = [table EXCEPT ![o] =
                        [status |-> "open", giver |-> g, recipient |-> r, room |-> place[g],
                         give |-> give, want |-> want, lapsed |-> FALSE]]
    /\ UNCHANGED <<economyVars, reading, moving, collected, left>>

(* accept_offer before its transaction: expire, then read the row unlocked. *)
AcceptRead(c, o) ==
    /\ c \in live
    /\ reading[c] = NoOffer
    /\ offers[o].status \notin {"none", "deleted"}
    /\ offers[o].recipient = c
    /\ offers' = ExpireLapsed(offers)
    /\ reading' = [reading EXCEPT ![c] = o]
    /\ UNCHANGED <<economyVars, moving, collected, left>>

(* What accept_offer's transaction does once its checks pass. *)
Conclude(c, status) ==
    LET o == reading[c] IN
    /\ Parties(offers[o].giver, c)
    /\ place[c] = offers[o].room
    /\ Swap(offers[o], TRUE)
    /\ offers' = [offers EXCEPT ![o].status = status]
    /\ reading' = [reading EXCEPT ![c] = NoOffer]
    /\ UNCHANGED <<frozen, live, place, plays, moving, collected, left>>

(* Mutant of Accept: the status read before the transaction is trusted. *)
AcceptStale(c) ==
    /\ reading[c] # NoOffer
    /\ ~frozen
    /\ Conclude(c, "accepted")

(* Mutant of Accept: the offer's new status is not saved. *)
AcceptUnsaved(c) ==
    /\ reading[c] # NoOffer
    /\ ~frozen
    /\ Open(reading[c])
    /\ ~offers[reading[c]].lapsed
    /\ Conclude(c, "open")

(* accept_offer's transaction, with the characters and the row locked. *)
Accept(c) ==
    /\ reading[c] # NoOffer
    /\ ~frozen
    /\ Open(reading[c])
    /\ ~offers[reading[c]].lapsed
    /\ Conclude(c, "accepted")

(* The transaction raised, on a check above or in a host's hook. *)
AcceptRefused(c) ==
    /\ reading[c] # NoOffer
    /\ reading' = [reading EXCEPT ![c] = NoOffer]
    /\ UNCHANGED <<economyVars, offers, moving, collected, left>>

(* An item-only gift is no market movement: no fee, and no freeze. *)
Give(g, r, spec) ==
    LET market == spec.money > 0 IN
    /\ spec # Empty
    /\ market => ~frozen
    /\ Parties(g, r)
    /\ \E o \in OfferIds :
          LET gift == [status |-> "accepted", giver |-> g, recipient |-> r, room |-> place[g],
                       give |-> spec, want |-> Empty, lapsed |-> TRUE]
          IN  /\ FreshOffer(o)
              /\ Swap(gift, market)
              /\ offers' = [offers EXCEPT ![o] = gift]
    /\ UNCHANGED <<frozen, live, place, plays, reading, moving, collected, left>>

(* Either party, frozen or not, in one conditional UPDATE. *)
CancelOffer(c, o) ==
    /\ c \in live
    /\ Open(o)
    /\ IsParty(c, o)
    /\ offers' = [offers EXCEPT ![o].status = "cancelled"]
    /\ UNCHANGED <<economyVars, reading, moving, collected, left>>

(* RP_ECONOMY_OFFER_TIMEOUT passes for one offer. *)
Lapse(o) ==
    /\ Open(o)
    /\ ~offers[o].lapsed
    /\ offers' = [offers EXCEPT ![o].lapsed = TRUE]
    /\ UNCHANGED <<economyVars, reading, moving, collected, left>>

(* The batch script's sweep. *)
ExpireOffers ==
    /\ ExpireLapsed(offers) # offers
    /\ offers' = ExpireLapsed(offers)
    /\ UNCHANGED <<economyVars, reading, moving, collected, left>>

(* The character's location is saved; its post_save is still to come. *)
Move(c, room) ==
    /\ c \in live
    /\ moving[c] = NoRoom
    /\ room # place[c]
    /\ place' = [place EXCEPT ![c] = room]
    /\ moving' = [moving EXCEPT ![c] = room]
    /\ left' = left \cup {o \in OfferIds : Open(o) /\ IsParty(c, o) /\ offers[o].room # room}
    /\ UNCHANGED <<bank, frozen, live, plays, carrier, offers, reading, collected>>

(* Mutant of OnLocationSaved: only offers the mover made are expired. *)
OnLocationSavedGiver(c) ==
    /\ moving[c] # NoRoom
    /\ offers' = [o \in OfferIds |->
                     IF Open(o) /\ offers[o].giver = c /\ offers[o].room # moving[c]
                     THEN [offers[o] EXCEPT !.status = "expired"] ELSE offers[o]]
    /\ moving' = [moving EXCEPT ![c] = NoRoom]
    /\ UNCHANGED <<economyVars, reading, collected, left>>

OnLocationSaved(c) ==
    /\ moving[c] # NoRoom
    /\ offers' = [o \in OfferIds |->
                     IF Open(o) /\ IsParty(c, o) /\ offers[o].room # moving[c]
                     THEN [offers[o] EXCEPT !.status = "expired"] ELSE offers[o]]
    /\ moving' = [moving EXCEPT ![c] = NoRoom]
    /\ UNCHANGED <<economyVars, reading, collected, left>>

(* Evennia's own get and drop. *)
CarryOrDrop(c, i) ==
    /\ c \in live
    /\ \/ carrier[i] = c /\ carrier' = [carrier EXCEPT ![i] = place[c]]
       \/ carrier[i] = place[c] /\ carrier' = [carrier EXCEPT ![i] = c]
    /\ UNCHANGED <<bank, frozen, live, place, plays, exchangeVars>>

(* Deletion cascades to the purse, its balance as `seen`, and to offers. *)
Delete(c, seen) ==
    /\ bank' = BurnDeleted(bank, c, seen)
    /\ live' = live \ {c}
    /\ carrier' = [i \in Items |-> IF carrier[i] = c THEN Home ELSE carrier[i]]
    /\ offers' = [o \in OfferIds |-> IF IsParty(c, o)
                     THEN [offers[o] EXCEPT !.status = "deleted"] ELSE offers[o]]
    /\ reading' = [reading EXCEPT ![c] = NoOffer]
    /\ moving' = [moving EXCEPT ![c] = NoRoom]
    /\ collected' = [collected EXCEPT ![c] = NotCollected]
    /\ UNCHANGED <<frozen, place, plays, left>>

PartyRows(c) == {o \in OfferIds : IsParty(c, o)}

(* Deletion with no other transaction between Django's read and its write. *)
DeleteCharacter(c) ==
    /\ c \in live
    /\ collected[c] = NotCollected
    /\ Delete(c, bank.purse[c])

(* Django's collector has read the purse row, outside any transaction. *)
CollectPurse(c) ==
    /\ c \in live
    /\ collected[c] = NotCollected
    /\ bank.purse[c] > 0    \* so the purse row exists
    /\ collected' = [collected EXCEPT ![c] = [seen |-> bank.purse[c], rows |-> PartyRows(c)]]
    /\ UNCHANGED <<economyVars, offers, reading, moving, left>>

DeleteCollected(c) ==
    /\ collected[c] # NotCollected
    /\ collected[c].rows = PartyRows(c)
    /\ Delete(c, collected[c].seen)

(* An offer made since then still refers to the character: the commit fails. *)
DeleteFails(c) ==
    /\ collected[c] # NotCollected
    /\ collected[c].rows # PartyRows(c)
    /\ collected' = [collected EXCEPT ![c] = NotCollected]
    /\ UNCHANGED <<economyVars, offers, reading, moving, left>>

(* A server process dies: what it held in memory is gone, the rows are not. *)
Crash ==
    /\ reading' = [c \in Characters |-> NoOffer]
    /\ moving' = [c \in Characters |-> NoRoom]
    /\ collected' = [c \in Characters |-> NotCollected]
    /\ UNCHANGED <<economyVars, offers, left>>

-----------------------------------------------------------------------------

Market(c) ==
    \/ \E amount \in Amounts : (Credit(c, amount) \/ Debit(c, amount)) /\ UNCHANGED exchangeVars
    \/ \E r \in Characters, give, want \in Sides : CreateOffer(c, r, give, want)
    \/ \E r \in Characters, spec \in Sides : Give(c, r, spec)
    \/ \E o \in OfferIds : AcceptRead(c, o) \/ CancelOffer(c, o)
    \/ Accept(c)
    \/ AcceptRefused(c)

World(c) ==
    \/ \E room \in Rooms : Move(c, room)
    \/ OnLocationSaved(c)
    \/ \E i \in Items : CarryOrDrop(c, i)

Clock == ExpireOffers \/ \E o \in OfferIds : Lapse(o)

Init == EconomyInit /\ plays \in Rosters /\ ExchangeInit

Common ==
    \/ SetFrozen /\ UNCHANGED exchangeVars
    \/ \E roster \in Rosters : ChangeRoster(roster) /\ UNCHANGED exchangeVars
    \/ Clock
    \/ \E c \in Characters : Market(c) \/ World(c)

(* One process: a deletion, once begun, is not interleaved. *)
Next == Common \/ \E c \in Characters : DeleteCharacter(c)

Spec == Init /\ [][Next]_vars

(* Several processes, any of which may die. *)
ConcurrentNext ==
    \/ Common
    \/ Crash
    \/ \E c \in Characters : CollectPurse(c) \/ DeleteCollected(c) \/ DeleteFails(c)

ConcurrentSpec == Init /\ [][ConcurrentNext]_vars
-----------------------------------------------------------------------------
(***************************************************************************)
(* Properties.                                                             *)
(***************************************************************************)

TypeOK ==
    /\ EconomyTypeOK
    /\ offers \in [OfferIds -> Offer]
    /\ reading \in [Characters -> OfferIds \cup {NoOffer}]
    /\ moving \in [Characters -> Rooms \cup {NoRoom}]
    /\ collected \in [Characters -> Collected \cup {NotCollected}]
    /\ left \subseteq OfferIds

(* An open offer's parties are both still in its room, unless the signal   *)
(* of a move just saved has yet to run (on_location_saved).                *)
OpenOffersTogether ==
    \A o \in OfferIds : Open(o) =>
        \A c \in {offers[o].giver, offers[o].recipient} :
            moving[c] = NoRoom => place[c] = offers[o].room

(* "Leaving that room expires the offer immediately, including             *)
(* leave-and-return teleports": no offer one of whose parties ever left is *)
(* accepted, however quickly that party came back.                         *)
NoneAcceptedAfterLeaving == \A o \in left : offers[o].status # "accepted"

(***************************************************************************)
(* The inductive invariant.  TypeOK is not inductive alone: that an offer  *)
(* once made names two characters, and that whoever is accepting one is    *)
(* its recipient, keep Settle on real purses.  A saved move whose signal   *)
(* is pending is what an open offer's absent party is excused by.          *)
(***************************************************************************)
MadeByCharacters ==
    \A o \in OfferIds :
        IF offers[o].status = "none"
        THEN offers[o].giver = Nobody /\ offers[o].recipient = Nobody
        ELSE offers[o].giver \in Characters /\ offers[o].recipient \in Characters

ReadByRecipient ==
    \A c \in Characters : reading[c] # NoOffer =>
        /\ offers[reading[c]].status # "none"
        /\ offers[reading[c]].recipient = c

MovingIsThere == \A c \in Characters : moving[c] # NoRoom => place[c] = moving[c]

(* An open offer that a party has left is about to be expired. *)
LeftIsDoomed ==
    \A o \in left :
        /\ offers[o].status \notin {"none", "accepted"}
        /\ Open(o) => \E c \in Characters :
              IsParty(c, o) /\ moving[c] # NoRoom /\ moving[c] # offers[o].room

(* All of it, checked by TLC and proved in ExchangeProofs. *)
Inv ==
    /\ TypeOK
    /\ BooksAgree
    /\ MadeByCharacters
    /\ ReadByRecipient
    /\ MovingIsThere
    /\ OpenOffersTogether
    /\ LeftIsDoomed

Accepts(o) == offers[o].status # "accepted" /\ offers'[o].status = "accepted"

(* What acceptance is worth to c, by the terms alone. *)
Fees(o, side, market) == IF market /\ side # Empty THEN Fee["trade"] ELSE 0
Gain(c, o) ==
    LET t == offers'[o]
        market == offers[o].status = "open" \/ t.give.money > 0
    IN  IF c = t.giver THEN t.want.money - t.give.money - Fees(o, t.give, market)
        ELSE IF c = t.recipient THEN t.give.money - t.want.money - Fees(o, t.want, market)
        ELSE 0

(* An acceptance settles exactly its terms: both legs, each party's fee,   *)
(* every item, and nothing of anyone else's (_swap commits together).      *)
SettlesInFull ==
    [][\A o \in OfferIds : Accepts(o) =>
         /\ \A c \in Characters : bank'.purse[c] = bank.purse[c] + Gain(c, o)
         /\ \A i \in offers'[o].give.items : carrier'[i] = offers'[o].recipient
         /\ \A i \in offers'[o].want.items : carrier'[i] = offers'[o].giver]_vars

(* No item passes from one character to another but by an offer, accepted  *)
(* in that very step, that names it in the leg of whoever carried it.      *)
ItemsPassByConsent ==
    [][\A i \in Items :
         (carrier[i] \in Characters /\ carrier'[i] \in Characters /\ carrier'[i] # carrier[i]) =>
            \E o \in OfferIds :
               /\ Accepts(o)
               /\ \/ /\ i \in offers'[o].give.items
                     /\ <<carrier[i], carrier'[i]>> = <<offers'[o].giver, offers'[o].recipient>>
                  \/ /\ i \in offers'[o].want.items
                     /\ <<carrier[i], carrier'[i]>> = <<offers'[o].recipient, offers'[o].giver>>]_vars

(* Whoever an account has come to list since the offer was made, no        *)
(* acceptance is between two characters one account then plays.            *)
NoSelfDealing ==
    [][\A o \in OfferIds : Accepts(o) => ~SameAccount(offers'[o].giver, offers'[o].recipient)]_vars

(* An offer is answered once: accepted, expired and cancelled are final    *)
(* (but for its row's deletion), and its terms never change.               *)
AnsweredOnce ==
    [][\A o \in OfferIds :
         /\ offers[o].status \notin {"none", "open"} => offers'[o].status \in {offers[o].status, "deleted"}
         /\ offers[o].status # "none" =>
               <<offers[o].give, offers[o].want, offers[o].giver, offers[o].recipient, offers[o].room>>
             = <<offers'[o].give, offers'[o].want, offers'[o].giver, offers'[o].recipient, offers'[o].room>>]_vars

(* Time passes, and the batch script repeats every minute. *)
FairSpec == Spec /\ \A o \in OfferIds : WF_vars(Lapse(o)) /\ WF_vars(ExpireOffers)

(* No offer stays open for ever, whatever its parties do. *)
OffersEnd == \A o \in OfferIds : Open(o) ~> ~Open(o)
=============================================================================
