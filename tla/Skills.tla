------------------------------- MODULE Skills -------------------------------
(***************************************************************************)
(* The class tree and the loadout of one player: unlock a node, put it in  *)
(* a slot, take it out, raise its level.  Only equipped nodes give their   *)
(* passive (AD-019), and hp passives are added to the stored hpMax and hp  *)
(* when they start to count and subtracted when they stop.  Each handler   *)
(* runs in one locked transaction and is one step; Life puts these steps   *)
(* beside the others that change the same numbers.                         *)
(***************************************************************************)
EXTENDS Progression, FiniteSetsExt

CONSTANTS Class,         \* the classes a player may have
          Node,          \* the nodes of all the trees
          NoNode,        \* before the first node of a tree
          ClassOf(_),    \* the class whose tree holds a node
          Previous(_),   \* the node before it in its tree, or NoNode
          MaxNodeLevel,  \* the levels of a node
          Cost(_),       \* the skill points of going up to a level
          HPAt(_, _),    \* the hp of a node at a level, 0 if it gives none
          Slots,         \* catalog.SkillSlots
          NoSlot         \* slot IS NULL

ASSUME SkillsAssumption ==
  /\ Slots \in Nat /\ MaxNodeLevel \in Nat \ {0}
  /\ NoSlot \notin 0 .. Slots - 1 /\ IsFiniteSet(Node)
  /\ \A n \in Node : ClassOf(n) \in Class /\ Previous(n) \in Node \cup {NoNode}
  /\ \A l \in 1 .. MaxNodeLevel : Cost(l) \in Nat
  /\ \A n \in Node, l \in 1 .. MaxNodeLevel : HPAt(n, l) \in Nat

VARIABLES class,  \* the player's class, chosen at onboarding
          level,  \* player_skills.level, 0 for a node without a row
          slot    \* player_skills.slot

skillVars == <<class, level, slot>>

Slot == 0 .. Slots - 1

SkillsInit == /\ class \in Class
              /\ level = [n \in Node |-> 0]
              /\ slot = [n \in Node |-> NoSlot]

Unlocked(n) == level[n] > 0
Equipped(n) == slot[n] # NoSlot
Free        == {i \in Slot : \A n \in Node : slot[n] # i}
FirstFree   == Min(Free)
-----------------------------------------------------------------------------
MayUnlock(n) == /\ class = ClassOf(n)
                /\ ~Unlocked(n)
                /\ Previous(n) # NoNode => Unlocked(Previous(n))

\* Pays level 1 and takes the first free slot, if there is one.
Unlock(n) ==
  /\ MayUnlock(n)
  /\ hero.skillPoints >= Cost(1)
  /\ level' = [level EXCEPT ![n] = 1]
  /\ LET paid == [hero EXCEPT !.skillPoints = @ - Cost(1)]
     IN  IF Free = {}
         THEN hero' = paid /\ UNCHANGED slot
         ELSE /\ slot' = [slot EXCEPT ![n] = FirstFree]
              /\ hero' = ChangeHP(paid, HPAt(n, 1))
  /\ UNCHANGED class

\* (Fault) The first slot is taken as free.
EquipFirst(n) ==
  /\ class = ClassOf(n) /\ Unlocked(n)
  /\ ~Equipped(n) /\ Free # {}
  /\ slot' = [slot EXCEPT ![n] = 0]
  /\ hero' = ChangeHP(hero, HPAt(n, level[n]))
  /\ UNCHANGED <<class, level>>

\* Puts an unlocked node in the first free slot; an equipped one stays.
Equip(n) ==
  /\ class = ClassOf(n) /\ Unlocked(n)
  /\ ~Equipped(n) /\ Free # {}
  /\ slot' = [slot EXCEPT ![n] = FirstFree]
  /\ hero' = ChangeHP(hero, HPAt(n, level[n]))
  /\ UNCHANGED <<class, level>>

\* (Fault) The hp the node came with is taken away, not what it gives now.
UnequipLevel1(n) ==
  /\ class = ClassOf(n) /\ Unlocked(n)
  /\ Equipped(n)
  /\ slot' = [slot EXCEPT ![n] = NoSlot]
  /\ hero' = ChangeHP(hero, -HPAt(n, 1))
  /\ UNCHANGED <<class, level>>

\* Frees the node's slot; an unequipped node is left as it is.
Unequip(n) ==
  /\ class = ClassOf(n) /\ Unlocked(n)
  /\ Equipped(n)
  /\ slot' = [slot EXCEPT ![n] = NoSlot]
  /\ hero' = ChangeHP(hero, -HPAt(n, level[n]))
  /\ UNCHANGED <<class, level>>

\* (Fault) The price of the level the node has, not of the one it gets.
UpgradeAtOldPrice(n) ==
  /\ class = ClassOf(n) /\ Unlocked(n)
  /\ level[n] < MaxNodeLevel
  /\ hero.skillPoints >= Cost(level[n])
  /\ level' = [level EXCEPT ![n] = @ + 1]
  /\ LET paid == [hero EXCEPT !.skillPoints = @ - Cost(level[n])]
     IN  hero' = IF Equipped(n)
                 THEN ChangeHP(paid, HPAt(n, level[n] + 1) - HPAt(n, level[n]))
                 ELSE paid
  /\ UNCHANGED <<class, slot>>

\* Pays the next level; an equipped hp node adds what the level adds.
Upgrade(n) ==
  /\ class = ClassOf(n) /\ Unlocked(n)
  /\ level[n] < MaxNodeLevel
  /\ hero.skillPoints >= Cost(level[n] + 1)
  /\ level' = [level EXCEPT ![n] = @ + 1]
  /\ LET paid == [hero EXCEPT !.skillPoints = @ - Cost(level[n] + 1)]
     IN  hero' = IF Equipped(n)
                 THEN ChangeHP(paid, HPAt(n, level[n] + 1) - HPAt(n, level[n]))
                 ELSE paid
  /\ UNCHANGED <<class, slot>>

SkillStep == \E n \in Node : Unlock(n) \/ Equip(n) \/ Unequip(n) \/ Upgrade(n)
-----------------------------------------------------------------------------
SkillsType == /\ class \in Class
              /\ level \in [Node -> 0 .. MaxNodeLevel]
              /\ slot \in [Node -> Slot \cup {NoSlot}]

\* The loadout is sound: two nodes never share a slot, whatever gaps Unequip
\* leaves, and only unlocked nodes of the player's own class are in it.
LoadoutSound ==
  /\ \A m, n \in Node : slot[m] = slot[n] /\ Equipped(m) => m = n
  /\ \A n \in Node : Equipped(n) => Unlocked(n) /\ ClassOf(n) = class

PaidFor(n) == SumFunction([l \in 1 .. level[n] |-> Cost(l)])

\* Every skill point is either unspent or in a node: one per player level, and
\* no node is bought with points the player does not have.
PointsLedger ==
  /\ hero.skillPoints >= 0
  /\ hero.skillPoints + SumFunction([n \in Node |-> PaidFor(n)]) = hero.level

\* What the skills give to hpMax: the equipped nodes, each at its level.
HPOfNode(n) == IF Equipped(n) THEN HPAt(n, level[n]) ELSE 0
SkillsHP == SumFunction([n \in Node |-> HPOfNode(n)])
=============================================================================
