---------------------------- MODULE MCPlayerLock ----------------------------
(***************************************************************************)
(* A small shop on top of WithLocked: a "buy", a "sell" that needs what a  *)
(* buy gives, the request of another user on the same pool, and a page     *)
(* load in another tab.  The row holds the coins, the child tables the     *)
(* items bought and what each has been exchanged for.                      *)
(***************************************************************************)
EXTENDS PlayerReads

CONSTANTS alice, bob, buy, sell, other, me

MCUser == {alice, bob}
MCRequest == {buy, sell, other}
MCUserOf(r) == IF r = other THEN bob ELSE alice
MCReader == {me}
MCReaderUser(q) == alice

Price == 2
MCRow == 0 .. 3
MCKid == 0 .. 2

\* A buy pays Price for an item of table 1, a sell exchanges such an item for
\* a coin and a trophy of table 2; purse and shelves are bounded.
MCAccepts(r, s) ==
  IF r = sell THEN s.kids[1] > 0 /\ s.kids[2] < 2 /\ s.row < 3
              ELSE s.row >= Price /\ s.kids[1] < 2
MCAfter(r, s) ==
  IF r = sell
  THEN [row |-> s.row + 1, kids |-> <<s.kids[1] - 1, s.kids[2] + 1>>]
  ELSE [row |-> s.row - Price, kids |-> <<s.kids[1] + 1, s.kids[2]>>]

\* Bob has no player, or a rich one; Alice has none, or can pay once and has
\* nothing or something to sell.
MCInit ==
  /\ RInit
  /\ \/ /\ db[bob] = [row |-> 2, kids |-> <<1, 0>>]
        /\ db[alice] \in {[row |-> 2, kids |-> <<0, 0>>], [row |-> 2, kids |-> <<1, 0>>]}
     \/ db[bob] = NoPlayer /\ db[alice] = [row |-> 2, kids |-> <<0, 0>>]
     \/ db[bob] = NoPlayer /\ db[alice] = NoPlayer

MCSpec == /\ MCInit /\ [][RNext]_<<vars, rvars>>
          /\ \A r \in Request : WF_<<vars, rvars>>(Progress(r) /\ UNCHANGED rvars)
          /\ \A q \in Reader : WF_<<vars, rvars>>(Read(q) /\ UNCHANGED vars)
=============================================================================
