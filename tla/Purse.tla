-------------------------------- MODULE Purse --------------------------------
(***************************************************************************)
(* The coins and gems of one player and the one way a handler takes them   *)
(* (player.Pay): a balance equal to the price pays, and a price never      *)
(* leaves a debt.                                                          *)
(***************************************************************************)
EXTENDS Integers

CONSTANTS Currency,
          Price(_)  \* of what is sold or made: currency and amount

VARIABLE purse      \* coins and gems

Afford(x) == purse[Price(x).currency] >= Price(x).amount

Pay(x) == /\ Afford(x)
          /\ purse' = [purse EXCEPT ![Price(x).currency] = @ - Price(x).amount]

\* What a thing is worth in one currency.
Worth(c, x) == IF Price(x).currency = c THEN Price(x).amount ELSE 0
=============================================================================
