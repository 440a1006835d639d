------------------------------- MODULE MCShop -------------------------------
(* A potion that is sold and forged, a shard to forge with; two hp pieces in  *)
(* one slot, one sold and one forged; one hp skin; coins for one, gems for    *)
(* the other.                                                                 *)
EXTENDS Shop

CONSTANTS potion, shard, moletom, hoodie, golden, brew, sew

MCSlotOf(g) == "torso"
MCHPOf(x) == CASE x = moletom -> 2 [] x = hoodie -> 3 [] x = golden -> 1 [] OTHER -> 0
MCPrice(x) == [currency |-> IF x \in {golden, potion} THEN "gems" ELSE "coins",
               amount   |-> CASE x = moletom -> 2 [] x = brew -> 0 [] OTHER -> 1]
MCNeed(r, i) == CASE r = brew /\ i = shard -> 2
                  [] r = sew /\ i = shard -> 1
                  [] r = sew /\ i = potion -> 1
                  [] OTHER -> 0
MCOutput(r) == IF r = brew THEN potion ELSE hoodie
MCXPOf(i) == IF i = potion THEN 2 ELSE 0
MCStartItems == [i \in {potion, shard} |-> 1]
MCReward == [c \in {"coins", "gems"} |-> IF c = "coins" THEN 2 ELSE 1]
=============================================================================
