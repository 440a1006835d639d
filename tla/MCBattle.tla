------------------------------ MODULE MCBattle ------------------------------
(* Two regions, the second one asking for level 2, with a path of two nodes *)
(* and one of one; numbers small enough for a win, a defeat and a level-up  *)
(* within three fights.                                                     *)
EXTENDS Battle

MCMinLevel(r)      == IF r = "vila" THEN 1 ELSE 2
MCPathLength(r)    == IF r = "vila" THEN 2 ELSE 1
MCNodeEnemy(r, i)  == [hp |-> 2 + i, sp |-> 2]
MCWild(r)          == IF r = "vila" THEN {[hp |-> 1, sp |-> 1], [hp |-> 3, sp |-> 2]}
                                    ELSE {[hp |-> 3, sp |-> 2]}
Base == [cost |-> 0, damage |-> {}, heal |-> 0, exposes |-> FALSE, shield |-> FALSE,
         spGain |-> 0, flee |-> FALSE, limit |-> FALSE, skill |-> ""]
MCCommand == {[Base EXCEPT !.cost = 1, !.damage = {1, 2}],
              [Base EXCEPT !.cost = 1, !.exposes = TRUE],
              [Base EXCEPT !.shield = TRUE, !.spGain = 1],
              [Base EXCEPT !.cost = 2, !.heal = 2, !.damage = {1}, !.skill = "be1"],
              [Base EXCEPT !.damage = {3}, !.limit = TRUE],
              [Base EXCEPT !.flee = TRUE]}
MCPotion     == {[id |-> "sp_potion", stat |-> "sp", amount |-> 1]}
MCStartItems == [i \in {"sp_potion", "null_shard"} |-> IF i = "sp_potion" THEN 1 ELSE 0]
=============================================================================
