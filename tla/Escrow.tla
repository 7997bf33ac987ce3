------------------------------- MODULE Escrow -------------------------------
(***************************************************************************)
(* What stalls and shops promise about an item, whatever container it is   *)
(* in: it keeps its owner while it is on sale, nothing moves it from under *)
(* the listing, and it passes to someone else only if they pay for it or   *)
(* if the shop itself passes to them with its stock.                       *)
(***************************************************************************)
EXTENDS Integers

CONSTANTS Characters, Places, Items

VARIABLES
    title,      \* whose each item is, or the room it lies in
    reserved,   \* the items on sale
    purse

vars == <<title, reserved, purse>>

Init ==
    /\ title \in [Items -> Places]
    /\ reserved = {}
    /\ purse = [c \in Characters |-> 0]

(* The owner puts an item on sale, at a fee at most. *)
Reserve(i) ==
    /\ i \notin reserved
    /\ title[i] \in Characters
    /\ reserved' = reserved \cup {i}
    /\ purse'[title[i]] <= purse[title[i]]
    /\ \A c \in Characters \ {title[i]} : purse'[c] = purse[c]
    /\ UNCHANGED title

(* Items come off sale and are their owner's as before, at no cost. *)
Release ==
    /\ reserved' \subseteq reserved
    /\ UNCHANGED <<title, purse>>

(* The buyer pays; the owner gets no more than that. *)
Sell(i, buyer) ==
    LET seller == title[i]
        paid == purse[buyer] - purse'[buyer]
    IN  /\ i \in reserved
        /\ buyer # seller
        /\ paid > 0
        /\ purse'[seller] <= purse[seller] + paid
        /\ \A c \in Characters \ {buyer, seller} : purse'[c] = purse[c]
        /\ title' = [title EXCEPT ![i] = buyer]
        /\ reserved' = reserved \ {i}

(* A shop passes to a new owner with all that is on sale in it. *)
Convey(from, to) ==
    /\ \E stock \in SUBSET {i \in reserved : title[i] = from} :
          title' = [i \in Items |-> IF i \in stock THEN to ELSE title[i]]
    /\ UNCHANGED <<reserved, purse>>

(* Only what is not on sale is handled otherwise. *)
Handle ==
    /\ \A i \in reserved : title'[i] = title[i]
    /\ UNCHANGED reserved

Next ==
    \/ \E i \in Items : Reserve(i) \/ \E buyer \in Characters : Sell(i, buyer)
    \/ Release
    \/ \E from, to \in Characters : Convey(from, to)
    \/ Handle

Spec == Init /\ [][Next]_vars
=============================================================================
