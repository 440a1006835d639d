-------------------------------- MODULE Rooms --------------------------------
(***************************************************************************)
(* The two rooms a player furnishes: the server rack, whose components are *)
(* refunded in full, and the office, whose furniture is refunded by half,  *)
(* can be installed by whole templates and unlocks lights by its comfort.  *)
(* Each handler runs in one locked transaction (PlayerLock) and is one     *)
(* step.                                                                   *)
(***************************************************************************)
EXTENDS Purse, FiniteSets, Functions

CONSTANTS Component,        \* what the rack takes
          RackSlots,        \* catalog.Rack.Slots
          Furniture, Zone,
          Cells(_),         \* the number of cells of a zone
          ZoneOf(_),        \* the zone a piece of furniture belongs to
          Comfort(_),       \* of a piece
          Light, FirstLight,
          LightComfort(_),  \* the comfort that unlocks a light
          Template,
          Pieces(_),        \* of a template: a piece for each of some cells
          Money,            \* the balances at first
          Empty,            \* a free slot or cell
          MaxRemoved        \* bound: pieces of furniture ever removed

Slot == 0 .. RackSlots - 1
Cell == UNION {{z} \X (0 .. Cells(z) - 1) : z \in Zone}

ASSUME RoomsAssumption ==
  /\ IsFiniteSet(Furniture) /\ IsFiniteSet(Zone)
  /\ RackSlots \in Nat
  /\ Empty \notin Component \cup Furniture
  /\ \A z \in Zone : Cells(z) \in Nat
  /\ \A f \in Furniture : ZoneOf(f) \in Zone /\ Comfort(f) \in Nat
  /\ \A x \in Component \cup Furniture :
       Price(x).currency \in Currency /\ Price(x).amount \in Nat
  /\ FirstLight \in Light /\ LightComfort(FirstLight) = 0
  /\ \A l \in Light : LightComfort(l) \in Nat
  /\ \A t \in Template : \A c \in DOMAIN Pieces(t) :
       c \in Cell /\ Pieces(t)[c] \in Furniture /\ ZoneOf(Pieces(t)[c]) = c[1]
  /\ Money \in [Currency -> Nat]

VARIABLES rack,     \* player_rack
          office,   \* player_office
          light,    \* players.office_light
          removed   \* how often each piece was removed (ghost)

roomsVars == <<purse, rack, office, light, removed>>

RoomsInit == /\ purse = Money
        /\ rack = [s \in Slot |-> Empty]
        /\ office = [c \in Cell |-> Empty]
        /\ light = FirstLight
        /\ removed = [f \in Furniture |-> 0]

\* officeComfort: the comfort of what is installed.
OfficeComfort(room) ==
  SumFunction([c \in Cell |-> IF room[c] = Empty THEN 0 ELSE Comfort(room[c])])

-----------------------------------------------------------------------------
FreeSlots == {s \in Slot : rack[s] = Empty}

\* The first free slot.
TargetSlot == CHOOSE s \in FreeSlots : \A t \in FreeSlots : s <= t

\* A full rack is refused before the balance.
BuyComponent(k) ==
  /\ FreeSlots # {}
  /\ Pay(k)
  /\ rack' = [rack EXCEPT ![TargetSlot] = k]
  /\ UNCHANGED <<office, light, removed>>

\* The whole price comes back.
RemoveComponent(s) ==
  /\ rack[s] # Empty
  /\ rack' = [rack EXCEPT ![s] = Empty]
  /\ purse' = [purse EXCEPT ![Price(rack[s]).currency] = @ + Price(rack[s]).amount]
  /\ UNCHANGED <<office, light, removed>>
-----------------------------------------------------------------------------
\* A piece is bought into a free cell of its zone.
Install(f, c) ==
  /\ ZoneOf(f) = c[1]
  /\ office[c] = Empty
  /\ Pay(f)
  /\ office' = [office EXCEPT ![c] = f]
  /\ UNCHANGED <<rack, light, removed>>

\* Half the price comes back, rounded down.
Refund(f) == Price(f).amount \div 2

Remove(c) ==
  LET f == office[c]
  IN  /\ f # Empty
      /\ office' = [office EXCEPT ![c] = Empty]
      /\ purse' = [purse EXCEPT ![Price(f).currency] = @ + Refund(f)]
      /\ removed' = [removed EXCEPT ![f] = @ + 1]
      /\ UNCHANGED <<rack, light>>

LightUnlocked(l) == OfficeComfort(office) >= LightComfort(l)

\* A light once set stays when furniture goes.
SetLight(l) == /\ LightUnlocked(l)
               /\ light' = l
               /\ UNCHANGED <<purse, rack, office, removed>>
-----------------------------------------------------------------------------
\* planTemplate: what is missing; any other occupant blocks the template.
Missing(t) == {c \in DOMAIN Pieces(t) : office[c] = Empty}

\* (Fault) The occupied cells are skipped and the rest is installed.
BlockedNever(t) == FALSE

Blocked(t) == \E c \in DOMAIN Pieces(t) : office[c] \notin {Empty, Pieces(t)[c]}

Cost(t, c) == SumFunction([cell \in Missing(t) |-> Worth(c, Pieces(t)[cell])])

Affordable(t) == \A c \in Currency : purse[c] >= Cost(t, c)

\* (Fault) The pieces already there are paid for again.
TemplatePayAll(t) ==
  [c \in Currency |->
     purse[c] - SumFunction([cell \in DOMAIN Pieces(t) |-> Worth(c, Pieces(t)[cell])])]

TemplatePay(t) == [c \in Currency |-> purse[c] - Cost(t, c)]

\* Every piece the room lacks is paid for and installed, or nothing is.
ApplyTemplate(t) ==
  /\ ~Blocked(t)
  /\ Affordable(t)
  /\ purse' = TemplatePay(t)
  /\ office' = [c \in Cell |-> IF c \in Missing(t) THEN Pieces(t)[c] ELSE office[c]]
  /\ UNCHANGED <<rack, light, removed>>

Bound == SumFunction(removed) < MaxRemoved

RoomsNext == \/ \E k \in Component : BuyComponent(k)
        \/ \E s \in Slot : RemoveComponent(s)
        \/ \E c \in Cell : \/ \E f \in Furniture : Install(f, c)
                           \/ Bound /\ Remove(c)
        \/ \E l \in Light : SetLight(l)
        \/ \E t \in Template : ApplyTemplate(t)

RoomsSpec == RoomsInit /\ [][RoomsNext]_roomsVars
-----------------------------------------------------------------------------
RoomsType == /\ purse \in [Currency -> Nat]
          /\ rack \in [Slot -> Component \cup {Empty}]
          /\ office \in [Cell -> Furniture \cup {Empty}]
          /\ light \in Light
          /\ removed \in [Furniture -> Nat]

\* What stands in a slot or a cell is worth, and what a removal costs.
WorthIn(c, x) == IF x = Empty THEN 0 ELSE Worth(c, x)
Loss(c, f) == IF Price(f).currency = c THEN Price(f).amount - Refund(f) ELSE 0

\* Money is neither made nor lost by furnishing: what the player started with is
\* in the purse, in the rooms at full price, or is the half that removals cost; and
\* nothing is bought on credit, in either currency.
FurnishingLedger ==
  \A c \in Currency :
    /\ purse[c] >= 0
    /\ Money[c] = purse[c]
      + SumFunction([s \in Slot |-> WorthIn(c, rack[s])])
      + SumFunction([cell \in Cell |-> WorthIn(c, office[cell])])
      + SumFunction([f \in Furniture |-> Loss(c, f) * removed[f]])

\* A piece leaves its cell by being removed, never by being replaced, and more
\* than one piece comes in at once only as a whole template.
TemplateAllOrNothing ==
  [][LET new == {c \in Cell : office[c] # office'[c]}
     IN  /\ \A c \in new : office[c] = Empty \/ office'[c] = Empty
         /\ Cardinality(new) > 1 =>
              \E t \in Template : \A c \in DOMAIN Pieces(t) : office'[c] = Pieces(t)[c]]_roomsVars
=============================================================================
