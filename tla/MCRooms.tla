------------------------------ MODULE MCRooms ------------------------------
(* A rack of two slots for two components; an office of one wall cell and   *)
(* two floor cells, three pieces in two currencies, odd prices to round.    *)
EXTENDS Rooms, TLC

CONSTANTS cpu, ram, poster, desk, chair, natural, neon, basic, gamer

MCCells(z)   == IF z = "wall" THEN 1 ELSE 2
MCZoneOf(f)  == IF f = poster THEN "wall" ELSE "floor"
MCPrice(x)   == [currency |-> IF x \in {poster, chair} THEN "gems" ELSE "coins",
                 amount   |-> CASE x = cpu -> 2 [] x = desk -> 3 [] OTHER -> 1]
MCComfort(f) == CASE f = desk -> 2 [] f = chair -> 1 [] OTHER -> 0
MCLightComfort(l) == IF l = neon THEN 3 ELSE 0
MCPieces(t)  == IF t = basic
                THEN (<<"floor", 0>> :> desk @@ <<"floor", 1>> :> chair @@ <<"wall", 0>> :> poster)
                ELSE (<<"floor", 0>> :> chair @@ <<"wall", 0>> :> poster)
MCMoney == [c \in {"coins", "gems"} |-> IF c = "coins" THEN 7 ELSE 3]
=============================================================================
