----------------------------- MODULE MCExchange -----------------------------
(* Small instances of Exchange for TLC. *)
EXTENDS Exchange, TLC

CONSTANTS ann, bob, cat, acct1, acct2, plaza, alley, hat

(* A trade fee of one coin; every other fee is zero, the default. *)
TradeFee == [kind \in FeeKinds |-> IF kind = "trade" THEN 1 ELSE 0]

Coin == [money |-> 1, items |-> {}]
Hat  == [money |-> 0, items |-> {hat}]
Both == [money |-> 1, items |-> {hat}]

SmallSides == {Empty, Coin, Hat}
AllSides == {Empty, Coin, Hat, Both}

(* Each of two characters on an account of their own, or both on one. *)
Apart    == (ann :> {acct1}) @@ (bob :> {acct2})
Together == (ann :> {acct1}) @@ (bob :> {acct1})
ApartOnly == {Apart}
TwoRosters == {Apart, Together}

(* With a third who shares the first one's account, or is an NPC. *)
TrioRosters == {(ann :> {acct1}) @@ (bob :> {acct2}) @@ (cat :> {acct1})}
=============================================================================
