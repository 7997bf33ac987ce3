---- MODULE MCCombat ----
(* Three fighters, one against two of one side, for Combat's runs. *)
EXTENDS Combat
CONSTANTS ann, bob, cat, dan

OneAgainstTwo == <<ann, bob, cat>>
Sides == (ann :> "a") @@ (bob :> "b") @@ (cat :> "b")
Bosses == (ann :> 2) @@ (bob :> 1) @@ (cat :> 1)

TwoAgainstTwo == <<bob, cat, ann, dan>>
TwoSides == Sides @@ (dan :> "a")
TwoBosses == Bosses @@ (dan :> 2)
====
