-------------------------------- MODULE Shop --------------------------------
(***************************************************************************)
(* The shop, the wardrobe and the forge of one player: items, gear and     *)
(* skins bought, equipped, worn, used up, thrown away or forged.  What is  *)
(* equipped or worn adds its hp to the stored hpMax and hp, and stops      *)
(* adding it when something takes its place, so purse, bag, kit and life   *)
(* must add up over any sequence of calls.  Each handler runs in one       *)
(* locked transaction (PlayerLock) and is one step.                        *)
(***************************************************************************)
EXTENDS Progression, Purse, FiniteSets, Functions

CONSTANTS Item, Gear, Skin, GearSlot, Recipe,
          DefaultSkin,   \* owned by every player, never bought
          NoGear,        \* an empty equipment slot
          SlotOf(_),     \* the slot of a piece of gear
          HPOf(_),       \* the hp bonus of a piece or a skin, 0 for another bonus
          ForSale,       \* what the shop sells
          Need(_, _),    \* the quantity of an item that a recipe takes
          Output(_),     \* the item or the piece a recipe makes
          XPOf(_),       \* the xp an item grants out of combat, 0 for most
          StartItems,    \* the bag of a new player
          Reward,        \* what a battle or a deploy adds to each balance
          MaxRewards     \* bound: rewards and drops

Thing == Item \cup Gear \cup Skin \cup Recipe

ASSUME ShopAssumption ==
  /\ IsFiniteSet(Item) /\ IsFiniteSet(Gear) /\ IsFiniteSet(Skin)
  /\ IsFiniteSet(GearSlot) /\ IsFiniteSet(Recipe)
  /\ NoGear \notin Gear
  /\ Item \cap Gear = {}
  /\ DefaultSkin \in Skin /\ HPOf(DefaultSkin) = 0 /\ HPOf(NoGear) = 0
  /\ \A g \in Gear : SlotOf(g) \in GearSlot
  /\ \A x \in Gear \cup Skin : HPOf(x) \in Nat
  /\ \A x \in Thing : Price(x).currency \in Currency /\ Price(x).amount \in Nat
  /\ ForSale \subseteq (Item \cup Gear \cup Skin) \ {DefaultSkin}
  /\ \A r \in Recipe : Output(r) \in Item \cup Gear
  /\ \A r \in Recipe, i \in Item : Need(r, i) \in Nat
  /\ \A i \in Item : XPOf(i) \in Nat
  /\ StartItems \in [Item -> Nat]
  /\ Reward \in [Currency -> Nat]

VARIABLES items,    \* player_items
          gear,     \* player_gear
          kit,      \* player_equipment: the piece in each slot, or NoGear
          skins,    \* player_skins and the default
          skin,     \* players.skin
          log       \* how often each thing was done (ghost)

vars == <<hero, purse, items, gear, kit, skins, skin, log>>

Deed == {<<"reward", DefaultSkin>>} \cup ({"drop", "buy", "gone"} \X Item)
          \cup ({"forge"} \X Recipe)

Log(what, x) == log' = [log EXCEPT ![<<what, x>>] = @ + 1]

Init == /\ hero = NewHero
        /\ purse = [c \in Currency |-> 0]
        /\ items = StartItems
        /\ gear = {}
        /\ kit = [s \in GearSlot |-> NoGear]
        /\ skins = {DefaultSkin}
        /\ skin = DefaultSkin
        /\ log = [d \in Deed |-> 0]
-----------------------------------------------------------------------------
\* (Fault) The piece that was in the slot goes on counting.
PutInKeepsOld(g) == /\ kit' = [kit EXCEPT ![SlotOf(g)] = g]
                    /\ hero' = ChangeHP(hero, HPOf(g))

\* equip: the piece takes its slot; the one that was there stops counting.
PutIn(g) == /\ kit' = [kit EXCEPT ![SlotOf(g)] = g]
            /\ hero' = ChangeHP(hero, HPOf(g) - HPOf(kit[SlotOf(g)]))

\* wear: the same for the skin.
Wear(s) == /\ skin' = s
           /\ hero' = ChangeHP(hero, HPOf(s) - HPOf(skin))

BuyItem(i) == /\ i \in ForSale
              /\ Pay(i)
              /\ items' = [items EXCEPT ![i] = @ + 1]
              /\ Log("buy", i)
              /\ UNCHANGED <<hero, gear, kit, skins, skin>>

\* A piece is bought once and equipped at once.
BuyGear(g) == /\ g \in ForSale \ gear
              /\ Pay(g)
              /\ gear' = gear \cup {g}
              /\ PutIn(g)
              /\ UNCHANGED <<items, skins, skin, log>>

BuySkin(s) == /\ s \in ForSale \ skins
              /\ Pay(s)
              /\ skins' = skins \cup {s}
              /\ Wear(s)
              /\ UNCHANGED <<items, gear, kit, log>>

\* (Fault) Nothing asks whether the piece is owned.
EquipUnowned(g) == PutIn(g) /\ UNCHANGED <<purse, items, gear, skins, skin, log>>

EquipGear(g) == /\ g \in gear
                /\ PutIn(g)
                /\ UNCHANGED <<purse, items, gear, skins, skin, log>>

UnequipGear(g) == /\ kit[SlotOf(g)] = g
                  /\ kit' = [kit EXCEPT ![SlotOf(g)] = NoGear]
                  /\ hero' = ChangeHP(hero, -HPOf(g))
                  /\ UNCHANGED <<purse, items, gear, skins, skin, log>>

EquipSkin(s) == /\ s \in skins
                /\ Wear(s)
                /\ UNCHANGED <<purse, items, gear, kit, skins, log>>

\* One item turned into xp, by the one level-up rule.
Use(i) == /\ XPOf(i) > 0
          /\ items[i] >= 1
          /\ items' = [items EXCEPT ![i] = @ - 1]
          /\ hero' = GainXP(hero, XPOf(i))
          /\ Log("gone", i)
          /\ UNCHANGED <<purse, gear, kit, skins, skin>>

Discard(i) == /\ items[i] >= 1
              /\ items' = [items EXCEPT ![i] = @ - 1]
              /\ Log("gone", i)
              /\ UNCHANGED <<hero, purse, gear, kit, skins, skin>>
-----------------------------------------------------------------------------
\* A recipe's piece is not owned yet and the bag holds its ingredients.
CanForge(r) == /\ Output(r) \notin gear
               /\ \A i \in Item : items[i] >= Need(r, i)

\* (Fault) The price is checked and not taken.
ForgePaysNothing(r) ==
  /\ CanForge(r)
  /\ Afford(r)
  /\ items' = [i \in Item |-> items[i] - Need(r, i) + (IF i = Output(r) THEN 1 ELSE 0)]
  /\ IF Output(r) \in Gear
     THEN gear' = gear \cup {Output(r)} /\ PutIn(Output(r))
     ELSE UNCHANGED <<gear, kit, hero>>
  /\ Log("forge", r)
  /\ UNCHANGED <<purse, skins, skin>>

\* (Fault) One unit of each ingredient, whatever the recipe says.
ForgeTakesOne(r) ==
  /\ CanForge(r)
  /\ Pay(r)
  /\ items' = [i \in Item |-> items[i] - (IF Need(r, i) > 0 THEN 1 ELSE 0)
                                + (IF i = Output(r) THEN 1 ELSE 0)]
  /\ IF Output(r) \in Gear
     THEN gear' = gear \cup {Output(r)} /\ PutIn(Output(r))
     ELSE UNCHANGED <<gear, kit, hero>>
  /\ Log("forge", r)
  /\ UNCHANGED <<skins, skin>>

\* Ingredients and price for one output; a piece comes out owned and equipped.
Forge(r) ==
  /\ CanForge(r)
  /\ Pay(r)
  /\ items' = [i \in Item |-> items[i] - Need(r, i) + (IF i = Output(r) THEN 1 ELSE 0)]
  /\ IF Output(r) \in Gear
     THEN gear' = gear \cup {Output(r)} /\ PutIn(Output(r))
     ELSE UNCHANGED <<gear, kit, hero>>
  /\ Log("forge", r)
  /\ UNCHANGED <<skins, skin>>
-----------------------------------------------------------------------------
\* A battle or a deploy pays; a battle drops an item and wears the player down.
Earn == /\ log[<<"reward", DefaultSkin>>] < MaxRewards
        /\ purse' = [c \in Currency |-> purse[c] + Reward[c]]
        /\ Log("reward", DefaultSkin)
        /\ UNCHANGED <<hero, items, gear, kit, skins, skin>>

Drop(i) == /\ log[<<"drop", i>>] < MaxRewards
           /\ items' = [items EXCEPT ![i] = @ + 1]
           /\ hero' = [hero EXCEPT !.hp = 1]
           /\ Log("drop", i)
           /\ UNCHANGED <<purse, gear, kit, skins, skin>>

Next == \/ \E i \in Item : BuyItem(i) \/ Use(i) \/ Discard(i) \/ Drop(i)
        \/ \E g \in Gear : BuyGear(g) \/ EquipGear(g) \/ UnequipGear(g)
        \/ \E s \in Skin : BuySkin(s) \/ EquipSkin(s)
        \/ \E r \in Recipe : Forge(r)
        \/ Earn

Spec == Init /\ [][Next]_vars
-----------------------------------------------------------------------------
TypeOK == /\ hero \in Hero
          /\ purse \in [Currency -> Nat]
          /\ items \in [Item -> Nat]
          /\ gear \in SUBSET Gear
          /\ kit \in [GearSlot -> Gear \cup {NoGear}]
          /\ skins \in SUBSET Skin
          /\ skin \in Skin
          /\ log \in [Deed -> Nat]

\* Only owned pieces are equipped, each in its own slot, and the skin on the
\* player's back is one of his.
KitSound ==
  /\ \A s \in GearSlot : kit[s] # NoGear => kit[s] \in gear /\ SlotOf(kit[s]) = s
  /\ skin \in skins

\* The stored hpMax is what the level, the kit and the skin amount to, however
\* often they were swapped, and the life stays between 1 and it.
HPLedger ==
  /\ hero.hpMax = FirstHP + LevelHP * (hero.level - 1) + HPOf(skin)
                    + SumFunction([s \in GearSlot |-> HPOf(kit[s])])
  /\ 1 <= hero.hp /\ hero.hp <= hero.hpMax

Forged == {Output(r) : r \in {q \in Recipe : log[<<"forge", q>>] > 0}}

\* Every coin and gem is in the purse or was spent once on something the player
\* got: no refused or half-done purchase costs, none is free or on credit.
MoneyLedger ==
  \A c \in Currency :
    /\ purse[c] >= 0
    /\ Reward[c] * log[<<"reward", DefaultSkin>>]
      = purse[c]
        + SumFunction([i \in Item |-> Worth(c, i) * log[<<"buy", i>>]])
        + SumFunction([r \in Recipe |-> Worth(c, r) * log[<<"forge", r>>]])
        + SumFunction([g \in gear \ Forged |-> Worth(c, g)])
        + SumFunction([s \in skins \ {DefaultSkin} |-> Worth(c, s)])

\* What the recipes have made of an item.
Made(i) == [r \in Recipe |-> IF Output(r) = i THEN log[<<"forge", r>>] ELSE 0]

\* Every unit of an item is in the bag, was used up or thrown away, or went
\* into a recipe, each came from somewhere, and none is used that is not there.
MaterialsLedger ==
  \A i \in Item :
    /\ items[i] >= 0
    /\ StartItems[i] + log[<<"buy", i>>] + log[<<"drop", i>>] + SumFunction(Made(i))
      = items[i] + log[<<"gone", i>>] + SumFunction([r \in Recipe |-> Need(r, i) * log[<<"forge", r>>]])
=============================================================================
