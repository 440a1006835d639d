------------------------------- MODULE MCLife -------------------------------
(* A tree of three nodes for two slots, two of them of hp, and the root of    *)
(* another class; node levels cost 1, 2, ... points, as in the game.  A       *)
(* notebook of three levels; an hp upgrade whose second step asks for the       *)
(* second level of the notebook, and a damage upgrade of one step.            *)
EXTENDS Life

CONSTANTS front, back, f1, f2, f3, b1, battery, turbo

MCNode == {f1, f2, f3, b1}
MCClassOf(n) == IF n = b1 THEN back ELSE front
MCPrevious(n) == CASE n = f2 -> f1 [] n = f3 -> f2 [] OTHER -> NoNode
MCCost(l) == l
MCHPAt(n, l) == CASE n = f2 -> 1 + 2 * l
                  [] n = f3 -> 4 * l
                  [] OTHER  -> 0

MCEnhanceCost(l)   == 2 * l - 1
MCLevelBonusHP(l)  == 1 + l
MCSteps(u)         == IF u = battery THEN 2 ELSE 1
MCStepMinLevel(u, k) == k
MCStepCost(u, k)   == k
MCStepHP(u, k)     == IF u = battery THEN 3 * k ELSE 0
=============================================================================
