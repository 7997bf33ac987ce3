------------------------------ MODULE Economy ------------------------------
(***************************************************************************)
(* The money core of evennia_economy (services.py) and what every service  *)
(* of the package reads: the freeze switch, where characters stand, which  *)
(* accounts play them, and who carries each item.                          *)
(*                                                                         *)
(* A database transaction is one step: each service locks the character    *)
(* rows it touches (lock_characters) before it reads them again, so two    *)
(* transactions on one character are serialised.  What a handler reads     *)
(* before its transaction is a step of its own in the modules below.       *)
(***************************************************************************)
EXTENDS Integers, FiniteSets, FiniteSetsExt

CONSTANTS
    Characters,   \* playable characters, and NPCs (on no account)
    Accounts,     \* player accounts
    Rooms,        \* places a character or a dropped item can be in
    Holdings,     \* stall stock containers
    Items,        \* tradeable objects
    Home,         \* the room Evennia moves a deleted character's things to
    Nobody,       \* the null end of a ledger row: minted from, burned to
    MaxBalance,   \* 2^63 - 1 in the code
    Fee,          \* RP_ECONOMY_FEE_<KIND>
    MintLimit,    \* bound: staff and income never mint more than this
    Amounts,      \* bound: what staff grant or remove at a time
    Rosters,      \* bound: the memberships `plays` takes
    NoRoom        \* the null room

FeeKinds == {"trade", "listing", "sale", "stall_claim", "stall_upkeep",
             "shop_approval", "shop_upkeep", "craft"}

ItemPlaces == Characters \cup Rooms \cup Holdings

ASSUME EconomyAssumption ==
    /\ IsFiniteSet(Characters)
    /\ MaxBalance \in Nat
    /\ Fee \in [FeeKinds -> Nat]
    /\ Home \in Rooms
    /\ Nobody \notin Characters
    /\ Characters \cap Rooms = {}
    /\ Holdings \cap (Characters \cup Rooms) = {}
    /\ Amounts \subseteq Nat
    /\ Rosters \subseteq [Characters -> SUBSET Accounts]
    /\ NoRoom \notin Rooms

VARIABLES
    bank,     \* purses and the ledger's totals, see Bank
    frozen,   \* RP_ECONOMY_FROZEN
    live,     \* characters not deleted
    place,    \* db_location of each character
    plays,    \* accounts listing each character as playable
    carrier   \* db_location of each item

economyVars == <<bank, frozen, live, place, plays, carrier>>

(***************************************************************************)
(* Purses beside the ledger.  Of LedgerEntry the totals that               *)
(* reports.reconciliation sums are kept, in all and by character; `missed` *)
(* counts the conditional UPDATEs that matched no purse: any such miss     *)
(* raises EconomyError, so only a bank with none can be committed.         *)
(***************************************************************************)
Bank == [purse    : [Characters -> Int],
         given    : [Characters -> Nat],   \* sum of rows from this character
         received : [Characters -> Nat],   \* sum of rows to this character
         minted   : Nat,                   \* sum of rows from nobody
         burned   : Nat,                   \* sum of rows to nobody
         missed   : Nat]

EmptyBank == [purse    |-> [c \in Characters |-> 0],
              given    |-> [c \in Characters |-> 0],
              received |-> [c \in Characters |-> 0],
              minted   |-> 0,
              burned   |-> 0,
              missed   |-> 0]

(* Mutant of Adjust: an unconditional UPDATE. *)
AdjustUnchecked(b, c, delta) == [b EXCEPT !.purse[c] = @ + delta]

(* One conditional UPDATE of a purse; out of range raises. *)
Adjust(b, c, delta) ==
    [b EXCEPT !.purse[c] = @ + delta,
              !.missed = @ + IF b.purse[c] + delta \in 0..MaxBalance THEN 0 ELSE 1]

Committable(b) == b.missed = 0

(* One LedgerEntry row. *)
Journal(b, from, to, amount) ==
    [b EXCEPT !.given    = [c \in Characters |-> @[c] + IF c = from THEN amount ELSE 0],
              !.received = [c \in Characters |-> @[c] + IF c = to THEN amount ELSE 0],
              !.minted   = @ + IF from = Nobody THEN amount ELSE 0,
              !.burned   = @ + IF to = Nobody THEN amount ELSE 0]

Mint(b, c, amount) == Journal(Adjust(b, c, amount), Nobody, c, amount)

Burn(b, c, amount) == Journal(Adjust(b, c, -amount), c, Nobody, amount)

(* Mutant of ChargeFee: the fee's ledger row is forgotten. *)
ChargeFeeUnjournaled(b, kind, c) == IF Fee[kind] = 0 THEN b ELSE Adjust(b, c, -Fee[kind])

(* A zero fee writes nothing. *)
ChargeFee(b, kind, c) == IF Fee[kind] = 0 THEN b ELSE Burn(b, c, Fee[kind])

MoveMoney(b, giver, recipient, amount) ==
    IF amount = 0 THEN b ELSE Adjust(Adjust(b, giver, -amount), recipient, amount)

(* Mutant of BurnDeleted: no pre_delete signal. *)
BurnDeletedUnjournaled(b, c, seen) == [b EXCEPT !.purse[c] = 0]

(* The purse row goes with its character: what was read of it is burned. *)
BurnDeleted(b, c, seen) ==
    LET journaled == IF seen = 0 THEN b ELSE Journal(b, c, Nobody, seen)
    IN  [journaled EXCEPT !.purse[c] = 0]

SameAccount(c, d) == plays[c] \cap plays[d] # {}

-----------------------------------------------------------------------------

EconomyInit ==
    /\ bank = EmptyBank
    /\ frozen = FALSE
    /\ live = Characters
    /\ place \in [Characters -> Rooms]
    /\ carrier \in [Items -> Characters]

(* +economy/freeze: runtime.set, seen at once by every reader. *)
SetFrozen ==
    /\ frozen' = ~frozen
    /\ UNCHANGED <<bank, live, place, plays, carrier>>

(* Staff grants and every income service end here. *)
Credit(c, amount) ==
    /\ ~frozen
    /\ c \in live
    /\ amount > 0
    /\ bank.minted + amount <= MintLimit
    /\ LET paid == Mint(bank, c, amount) IN Committable(paid) /\ bank' = paid
    /\ UNCHANGED <<frozen, live, place, plays, carrier>>

(* Staff removals, crafting fees and the system seller end here. *)
Debit(c, amount) ==
    /\ ~frozen
    /\ c \in live
    /\ amount > 0
    /\ LET paid == Burn(bank, c, amount) IN Committable(paid) /\ bank' = paid
    /\ UNCHANGED <<frozen, live, place, plays, carrier>>

(* An account's playable list changes under the economy's feet. *)
ChangeRoster(roster) ==
    /\ plays' = roster
    /\ UNCHANGED <<bank, frozen, live, place, carrier>>

EconomyTypeOK ==
    /\ bank \in Bank /\ Committable(bank)
    /\ \A c \in Characters : bank.purse[c] \in 0..MaxBalance
    /\ frozen \in BOOLEAN
    /\ live \subseteq Characters
    /\ place \in [Characters -> Rooms]
    /\ plays \in [Characters -> SUBSET Accounts]
    /\ carrier \in [Items -> ItemPlaces]

(* Every purse holds what the ledger's rows to and from its character sum   *)
(* to: no service moves money without journaling it in the same            *)
(* transaction, at the same amount, between the same ends.                 *)
BooksAgree == \A c \in Characters : bank.purse[c] = bank.received[c] - bank.given[c]

(* reports.reconciliation: minted less burned is what purses hold, through *)
(* offers, gifts, fees and the deletion of characters with money.          *)
Reconciled == bank.minted - bank.burned = MapThenSumSet(LAMBDA c : bank.purse[c], Characters)
=============================================================================
