------------------------------ MODULE MCDeploy ------------------------------
(* Two tabs, two boosters, a short and a long level (the long one needs      *)
(* level 2, which one reward pays for), with and without bonuses.            *)
EXTENDS Deploy, TLC

CONSTANTS backend, tab1, tab2

MCTier(l) == IF l = 1
             THEN [minLevel |-> 1, time |-> 1, xp |-> 3, coins |-> 1, gems |-> 0]
             ELSE [minLevel |-> 2, time |-> 2, xp |-> 5, coins |-> 3, gems |-> 1]

MCBonuses == {[cut |-> 0, xp |-> 0, coins |-> 0],
              [cut |-> 40, xp |-> 50, coins |-> 50]}

\* The tabs are interchangeable.
MCSymmetry == Permutations(Slot)
=============================================================================
