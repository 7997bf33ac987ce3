------------------------------ MODULE MCStalls ------------------------------
(* Small instances of Stalls for TLC. *)
EXTENDS Stalls, TLC

CONSTANTS ann, bob, acct1, acct2, plaza, alley, hat, box1, box2, shop

(* Listing, claim and sale cost a coin in some runs, upkeep in others. *)
SaleFee   == [kind \in FeeKinds |-> IF kind = "sale" THEN 1 ELSE 0]
UpkeepFee == [kind \in FeeKinds |-> IF kind \in {"stall_claim", "stall_upkeep"} THEN 1 ELSE 0]
ListFee   == [kind \in FeeKinds |-> IF kind \in {"listing", "shop_upkeep"} THEN 1 ELSE 0]

Boxes == (1 :> box1) @@ (2 :> box2)
OneBox == 1 :> box1
ToPlaza == [p \in {shop} |-> plaza]
NoShops == [p \in {} |-> plaza]

Apart    == (ann :> {acct1}) @@ (bob :> {acct2})
Together == (ann :> {acct1}) @@ (bob :> {acct1})
ApartOnly == {Apart}
TwoRosters == {Apart, Together}

AnnHasLot == {(ann :> 1) @@ (bob :> 0)}
NoGoods == {[c \in {ann, bob} |-> 0]}
=============================================================================
