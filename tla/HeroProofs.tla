----------------------------- MODULE HeroProofs -----------------------------
(***************************************************************************)
(* Proofs about one hero, for any trees, notebooks, looks and prices.      *)
(* First Life: the numbers of the skills, the notebook and the level-ups.  *)
(* Nothing recomputes hpMax, so the ledgers are the inductive invariant:   *)
(* every step changes one node or one upgrade, and the sum over all of     *)
(* them by what that one changes.  Then Avatar: what a body left behind is *)
(* compared with what the picks resolve to for that body, worn or not,     *)
(* which every step keeps, because a pick of a part forgets what was left  *)
(* on it.                                                                  *)
(***************************************************************************)
EXTENDS Life, Avatar, LedgerLemmas

\* The types of Life, with the domain of the steps.
LifeTyped == TypeOK /\ steps \in [Upgrades -> Nat]

\* A free slot is found when there is one.
LEMMA FirstFreeIn ==
  ASSUME Free # {}
  PROVE  FirstFree \in Free
  <1> DEFINE S == Free
  <1>1. S \subseteq Nat /\ S # {}
    BY SkillsAssumption DEF Free, Slot
  <1> HIDE DEF S
  <1>2. PICK m \in S : \A i \in S : m <= i
    BY <1>1, LeastNumber
  <1> QED  BY <1>2 DEF FirstFree, Min, S

-----------------------------------------------------------------------------
\* Two nodes never share a slot, and only unlocked nodes of the class have one.
LEMMA LoadoutNext ==
  ASSUME SkillsType, LoadoutSound, NEW n \in Node,
         Unlock(n) \/ Equip(n) \/ Unequip(n) \/ Upgrade(n)
  PROVE  SkillsType' /\ LoadoutSound'
  <1>1. MaxNodeLevel \in Nat \ {0} /\ Free \subseteq Slot /\ NoSlot \notin Slot
    BY SkillsAssumption DEF Free, Slot
  <1>2. Free # {} => FirstFree \in Free
    BY FirstFreeIn
  <1>3. CASE Unlock(n)
    <2>1. ClassOf(n) = class /\ level[n] = 0 /\ ~Equipped(n)
      BY <1>3 DEF Unlock, MayUnlock, Unlocked, SkillsType, LoadoutSound
    <2>2. level' = [level EXCEPT ![n] = 1] /\ class' = class
      BY <1>3 DEF Unlock
    <2>3. UNCHANGED slot \/ (Free # {} /\ slot' = [slot EXCEPT ![n] = FirstFree])
      BY <1>3 DEF Unlock
    <2>4. SkillsType'
      BY <1>1, <1>2, <2>2, <2>3 DEF SkillsType
    <2>5. LoadoutSound'
      BY <1>1, <1>2, <2>1, <2>2, <2>3 DEF SkillsType, LoadoutSound, Equipped, Unlocked, Free
    <2> QED  BY <2>4, <2>5
  <1>4. CASE Equip(n)
    BY <1>1, <1>2, <1>4 DEF Equip, SkillsType, LoadoutSound, Equipped, Unlocked, Free
  <1>5. CASE Unequip(n)
    BY <1>1, <1>5 DEF Unequip, SkillsType, LoadoutSound, Equipped, Unlocked
  <1>6. CASE Upgrade(n)
    BY <1>1, <1>6 DEF Upgrade, SkillsType, LoadoutSound, Equipped, Unlocked
  <1> QED  BY <1>3, <1>4, <1>5, <1>6
-----------------------------------------------------------------------------
\* What a node at a level has cost, and what one level more adds to it.
LEMMA CostsTo ==
  ASSUME NEW l \in 0 .. MaxNodeLevel
  PROVE  SumFunction([i \in 1 .. l |-> Cost(i)]) \in Int
  <1>1. IsFiniteSet(1 .. l)
    BY SkillsAssumption, FS_Interval
  <1>2. [i \in 1 .. l |-> Cost(i)] \in [1 .. l -> Int]
    BY SkillsAssumption
  <1> QED  BY <1>1, <1>2, SumInt

LEMMA CostsOneMore ==
  ASSUME NEW l \in 0 .. MaxNodeLevel, l < MaxNodeLevel
  PROVE  SumFunction([i \in 1 .. l + 1 |-> Cost(i)])
           = SumFunction([i \in 1 .. l |-> Cost(i)]) + Cost(l + 1)
  <1> DEFINE f == [i \in 1 .. l |-> Cost(i)]
             g == [i \in 1 .. l + 1 |-> Cost(i)]
  <1>1. f \in [1 .. l -> Int] /\ g \in [1 .. l + 1 -> Int]
    BY SkillsAssumption
  <1>2. (\A i \in 1 .. l : g[i] = f[i]) /\ g[l + 1] = Cost(l + 1)
    OBVIOUS
  <1> HIDE DEF f, g
  <1>3. SumFunction(g) = SumFunction(f) + g[l + 1]
    BY <1>1, <1>2, SumExtend
  <1> QED  BY <1>2, <1>3 DEF f, g

\* What the nodes give and what they have cost, node by node and in all.
LEMMA NodeNumbers ==
  ASSUME SkillsType, LoadoutSound
  PROVE  /\ \A n \in Node : HPOfNode(n) \in Nat /\ PaidFor(n) \in Int
         /\ SkillsHP \in Nat
         /\ SumFunction([n \in Node |-> PaidFor(n)]) \in Int
  <1>1. \A n \in Node : HPOfNode(n) \in Nat
    BY SkillsAssumption DEF HPOfNode, SkillsType, LoadoutSound, Unlocked
  <1>2. \A n \in Node : PaidFor(n) \in Int
    BY CostsTo DEF PaidFor, SkillsType
  <1>3. /\ [n \in Node |-> HPOfNode(n)] \in [Node -> Nat]
        /\ [n \in Node |-> PaidFor(n)] \in [Node -> Int]
    BY <1>1, <1>2
  <1>4. SkillsHP \in Nat
    BY <1>3, SkillsAssumption, SumNat DEF SkillsHP
  <1>5. SumFunction([n \in Node |-> PaidFor(n)]) \in Int
    BY <1>3, SkillsAssumption, SumInt
  <1> QED  BY <1>1, <1>2, <1>4, <1>5

\* What a step of node n does: cost points for delta hp, the other nodes as before.
Effect(n, cost, delta) ==
  /\ cost \in Nat /\ cost <= hero.skillPoints /\ delta \in Int
  /\ LET paid == [hero EXCEPT !.skillPoints = hero.skillPoints - cost]
     IN  hero' = ChangeHP(paid, delta) \/ (hero' = paid /\ delta = 0)
  /\ HPOfNode(n)' = HPOfNode(n) + delta
  /\ PaidFor(n)' = PaidFor(n) + cost
  /\ \A m \in Node \ {n} : level'[m] = level[m] /\ slot'[m] = slot[m]

LEMMA SkillEffect ==
  ASSUME LifeTyped, LoadoutSound, NEW n \in Node,
         Unlock(n) \/ Equip(n) \/ Unequip(n) \/ Upgrade(n)
  PROVE  \E cost, delta : Effect(n, cost, delta)
  <1>0. hero \in Hero /\ SkillsType
    BY DEF LifeTyped, TypeOK
  <1>1. SkillsType' /\ LoadoutSound'
    BY <1>0, LoadoutNext
  <1>2. HPOfNode(n) \in Nat /\ PaidFor(n) \in Int
    BY <1>0, NodeNumbers
  <1>3. MaxNodeLevel \in Nat \ {0} /\ NoSlot \notin Slot
    BY SkillsAssumption DEF Slot
  <1>4. hero = [hero EXCEPT !.skillPoints = hero.skillPoints - 0]
    BY <1>0 DEF Hero
  <1>5. Free # {} => FirstFree \in Slot
    BY FirstFreeIn DEF Free
  <1>6. CASE Unlock(n)
    <2>1. level[n] = 0 /\ ~Equipped(n) /\ Cost(1) \in Nat /\ HPAt(n, 1) \in Nat
      BY <1>0, <1>3, <1>6, SkillsAssumption DEF Unlock, MayUnlock, Unlocked, SkillsType, LoadoutSound
    <2>2. level' = [level EXCEPT ![n] = 1] /\ Cost(1) <= hero.skillPoints
      BY <1>0, <1>6, <2>1 DEF Unlock, Hero
    <2>3. level'[n] = 1 /\ \A m \in Node \ {n} : level'[m] = level[m]
      BY <1>0, <2>2 DEF SkillsType
    <2>4. PaidFor(n)' = PaidFor(n) + Cost(1)
      <3>1. PICK k \in Nat : k = level[n] /\ level'[n] = k + 1 /\ Cost(k + 1) = Cost(1)
        BY <2>1, <2>3
      <3>2. k \in 0 .. MaxNodeLevel /\ k < MaxNodeLevel
        BY <1>3, <2>1, <3>1
      <3> QED  BY <3>1, <3>2, CostsOneMore DEF PaidFor
    <2>5. CASE Free = {}
      <3>1. slot' = slot /\ hero' = [hero EXCEPT !.skillPoints = hero.skillPoints - Cost(1)]
        BY <1>0, <1>6, <2>5 DEF Unlock, Hero
      <3>2. HPOfNode(n)' = HPOfNode(n) + 0
        BY <2>1, <3>1 DEF HPOfNode, Equipped
      <3> QED  BY <2>1, <2>2, <2>3, <2>4, <3>1, <3>2 DEF Effect
    <2>6. CASE Free # {}
      <3>1. /\ slot' = [slot EXCEPT ![n] = FirstFree]
            /\ hero' = ChangeHP([hero EXCEPT !.skillPoints = hero.skillPoints - Cost(1)], HPAt(n, 1))
        BY <1>0, <1>6, <2>6 DEF Unlock, Hero
      <3>2. slot'[n] # NoSlot /\ \A m \in Node \ {n} : slot'[m] = slot[m]
        BY <1>0, <1>3, <1>5, <2>6, <3>1 DEF SkillsType
      <3>3. HPOfNode(n)' = HPOfNode(n) + HPAt(n, 1)
        BY <2>1, <2>3, <3>2 DEF HPOfNode, Equipped
      <3> QED  BY <2>1, <2>2, <2>3, <2>4, <3>1, <3>2, <3>3 DEF Effect
    <2> QED  BY <2>5, <2>6
  <1>7. CASE Equip(n)
    <2>1. level[n] \in 1 .. MaxNodeLevel /\ ~Equipped(n) /\ Free # {} /\ level' = level
      BY <1>0, <1>3, <1>7 DEF Equip, Unlocked, SkillsType
    <2>2. slot' = [slot EXCEPT ![n] = FirstFree] /\ hero' = ChangeHP(hero, HPAt(n, level[n]))
      BY <1>7 DEF Equip
    <2>3. slot'[n] # NoSlot /\ \A m \in Node \ {n} : slot'[m] = slot[m]
      BY <1>0, <1>3, <1>5, <2>1, <2>2 DEF SkillsType
    <2>4. HPOfNode(n)' = HPOfNode(n) + HPAt(n, level[n]) /\ HPAt(n, level[n]) \in Nat
      BY <2>1, <2>3, SkillsAssumption DEF HPOfNode, Equipped
    <2>5. PaidFor(n)' = PaidFor(n) + 0
      BY <1>2, <2>1 DEF PaidFor
    <2>6. 0 <= hero.skillPoints
      BY <1>0 DEF Hero
    <2> QED  BY <1>4, <2>1, <2>2, <2>3, <2>4, <2>5, <2>6 DEF Effect
  <1>8. CASE Unequip(n)
    <2>1. level[n] \in 1 .. MaxNodeLevel /\ Equipped(n) /\ level' = level
      BY <1>0, <1>3, <1>8 DEF Unequip, Unlocked, SkillsType
    <2>2. slot' = [slot EXCEPT ![n] = NoSlot] /\ hero' = ChangeHP(hero, -HPAt(n, level[n]))
      BY <1>8 DEF Unequip
    <2>3. slot'[n] = NoSlot /\ \A m \in Node \ {n} : slot'[m] = slot[m]
      BY <1>0, <2>2 DEF SkillsType
    <2>4. HPAt(n, level[n]) \in Nat /\ -HPAt(n, level[n]) \in Int
      BY <2>1, SkillsAssumption
    <2>5. HPOfNode(n)' = HPOfNode(n) + (-HPAt(n, level[n]))
      BY <2>1, <2>3, <2>4 DEF HPOfNode, Equipped
    <2>6. PaidFor(n)' = PaidFor(n) + 0
      BY <1>2, <2>1 DEF PaidFor
    <2>7. 0 <= hero.skillPoints
      BY <1>0 DEF Hero
    <2> QED  BY <1>4, <2>1, <2>2, <2>3, <2>4, <2>5, <2>6, <2>7 DEF Effect
  <1>9. CASE Upgrade(n)
    <2> DEFINE l == level[n]
    <2>0. PICK k \in Nat : k = l
      BY <1>0 DEF SkillsType
    <2>1. /\ k \in 1 .. MaxNodeLevel /\ k < MaxNodeLevel /\ slot' = slot
          /\ level' = [level EXCEPT ![n] = k + 1] /\ Cost(k + 1) <= hero.skillPoints
          /\ Cost(k + 1) \in Nat /\ HPAt(n, k + 1) \in Nat /\ HPAt(n, k) \in Nat
      BY <1>0, <1>3, <1>9, <2>0, SkillsAssumption DEF Upgrade, Unlocked, SkillsType, Hero
    <2>2. level'[n] = k + 1 /\ \A m \in Node \ {n} : level'[m] = level[m]
      BY <1>0, <2>1 DEF SkillsType
    <2>3. PaidFor(n)' = PaidFor(n) + Cost(k + 1)
      BY <2>0, <2>1, <2>2, CostsOneMore DEF PaidFor
    <2> DEFINE paid == [hero EXCEPT !.skillPoints = hero.skillPoints - Cost(k + 1)]
    <2>4. CASE Equipped(n)
      <3>1. hero' = ChangeHP(paid, HPAt(n, k + 1) - HPAt(n, k))
        BY <1>0, <1>9, <2>0, <2>4 DEF Upgrade, Hero
      <3>2. HPOfNode(n)' = HPOfNode(n) + (HPAt(n, k + 1) - HPAt(n, k))
        BY <2>0, <2>1, <2>2, <2>4 DEF HPOfNode, Equipped
      <3> QED  BY <2>1, <2>2, <2>3, <3>1, <3>2 DEF Effect
    <2>5. CASE ~Equipped(n)
      <3>1. hero' = paid
        BY <1>0, <1>9, <2>0, <2>5 DEF Upgrade, Hero
      <3>2. HPOfNode(n)' = HPOfNode(n) + 0
        BY <2>1, <2>5 DEF HPOfNode, Equipped
      <3> QED  BY <2>1, <2>2, <2>3, <3>1, <3>2 DEF Effect
    <2> QED  BY <2>4, <2>5
  <1> QED  BY <1>6, <1>7, <1>8, <1>9

\* The sums move by what the node moves.
LEMMA SkillSums ==
  ASSUME SkillsType, LoadoutSound, SkillsType', LoadoutSound',
         NEW n \in Node, NEW cost, NEW delta, Effect(n, cost, delta)
  PROVE  /\ SkillsHP' = SkillsHP + delta /\ SkillsHP' \in Nat
         /\ SumFunction([m \in Node |-> PaidFor(m)])'
              = SumFunction([m \in Node |-> PaidFor(m)]) + cost
  <1>1. IsFiniteSet(Node) /\ cost \in Int /\ delta \in Int
    BY SkillsAssumption DEF Effect
  <1>2. \A m \in Node : HPOfNode(m) \in Nat /\ PaidFor(m) \in Int
    BY NodeNumbers
  <1>3. \A m \in Node \ {n} : HPOfNode(m)' = HPOfNode(m) /\ PaidFor(m)' = PaidFor(m)
    BY DEF Effect, HPOfNode, Equipped, PaidFor
  <1>4. HPOfNode(n)' = HPOfNode(n) + delta /\ PaidFor(n)' = PaidFor(n) + cost
    BY DEF Effect
  <1>5. \A m \in Node : HPOfNode(m)' \in Nat
    BY SkillsAssumption DEF HPOfNode, Equipped, SkillsType, LoadoutSound, Unlocked
  <1>6. PICK f : f = [m \in Node |-> HPOfNode(m)]
    OBVIOUS
  <1>7. PICK g : g = [m \in Node |-> HPOfNode(m)']
    OBVIOUS
  <1>8. PICK p : p = [m \in Node |-> PaidFor(m)]
    OBVIOUS
  <1>9. PICK q : q = [m \in Node |-> PaidFor(m)']
    OBVIOUS
  <1>10. f \in [Node -> Int] /\ g \in [Node -> Int] /\ g \in [Node -> Nat]
    BY <1>2, <1>5, <1>6, <1>7
  <1>11. p \in [Node -> Int] /\ q \in [Node -> Int]
    <2>1. \A m \in Node : PaidFor(m)' \in Int
      BY <1>1, <1>2, <1>3, <1>4
    <2> QED  BY <1>2, <1>8, <1>9, <2>1
  <1>12. (\A m \in Node \ {n} : g[m] = f[m]) /\ g[n] = f[n] + delta
    BY <1>3, <1>4, <1>6, <1>7
  <1>13. (\A m \in Node \ {n} : q[m] = p[m]) /\ q[n] = p[n] + cost
    BY <1>3, <1>4, <1>8, <1>9
  <1>14. SumFunction(g) = SumFunction(f) - f[n] + g[n] /\ SumFunction(f) \in Int
    BY <1>1, <1>10, <1>12, SumChange, SumInt
  <1>15. SumFunction(q) = SumFunction(p) - p[n] + q[n] /\ SumFunction(p) \in Int
    BY <1>1, <1>11, <1>13, SumChange, SumInt
  <1>16. SumFunction(g) \in Nat
    BY <1>1, <1>10, SumNat
  <1>17. SkillsHP = SumFunction(f) /\ SkillsHP' = SumFunction(g)
    BY <1>6, <1>7 DEF SkillsHP
  <1>18. SumFunction([m \in Node |-> PaidFor(m)])' = SumFunction(q)
    BY <1>9
  <1>19. f[n] \in Int /\ p[n] \in Int
    BY <1>10, <1>11
  <1> QED
    BY <1>1, <1>8, <1>12, <1>13, <1>14, <1>15, <1>16, <1>17, <1>18, <1>19

-----------------------------------------------------------------------------
\* What an upgrade at step k has cost, and what one step more adds to it.
LEMMA StepsTo ==
  ASSUME NEW u \in Upgrades, NEW k \in 0 .. Steps(u)
  PROVE  SumFunction([i \in 1 .. k |-> StepCost(u, i)]) \in Int
  <1>1. IsFiniteSet(1 .. k)
    BY NotebookAssumption, FS_Interval
  <1>2. [i \in 1 .. k |-> StepCost(u, i)] \in [1 .. k -> Int]
    BY NotebookAssumption
  <1> QED  BY <1>1, <1>2, SumInt

LEMMA StepsOneMore ==
  ASSUME NEW u \in Upgrades, NEW k \in 0 .. Steps(u), k < Steps(u)
  PROVE  SumFunction([i \in 1 .. k + 1 |-> StepCost(u, i)])
           = SumFunction([i \in 1 .. k |-> StepCost(u, i)]) + StepCost(u, k + 1)
  <1> DEFINE f == [i \in 1 .. k |-> StepCost(u, i)]
             g == [i \in 1 .. k + 1 |-> StepCost(u, i)]
  <1>1. f \in [1 .. k -> Int] /\ g \in [1 .. k + 1 -> Int]
    BY NotebookAssumption
  <1>2. (\A i \in 1 .. k : g[i] = f[i]) /\ g[k + 1] = StepCost(u, k + 1)
    OBVIOUS
  <1>3. k \in Int /\ 1 <= k + 1
    BY NotebookAssumption
  <1> HIDE DEF f, g
  <1>4. SumFunction(g) = SumFunction(f) + g[k + 1]
    BY <1>1, <1>2, <1>3, SumExtend
  <1> QED  BY <1>2, <1>4 DEF f, g

\* What the levels of the notebook have cost, and one level more.
LEMMA LevelsTo ==
  ASSUME NEW l \in 1 .. Levels
  PROVE  SumFunction([i \in 2 .. l |-> EnhanceCost(i)]) \in Int
  <1>1. IsFiniteSet(2 .. l)
    BY NotebookAssumption, FS_Interval
  <1>2. [i \in 2 .. l |-> EnhanceCost(i)] \in [2 .. l -> Int]
    BY NotebookAssumption
  <1> QED  BY <1>1, <1>2, SumInt

LEMMA LevelsOneMore ==
  ASSUME NEW l \in 1 .. Levels, l < Levels
  PROVE  SumFunction([i \in 2 .. l + 1 |-> EnhanceCost(i)])
           = SumFunction([i \in 2 .. l |-> EnhanceCost(i)]) + EnhanceCost(l + 1)
  <1> DEFINE f == [i \in 2 .. l |-> EnhanceCost(i)]
             g == [i \in 2 .. l + 1 |-> EnhanceCost(i)]
  <1>1. f \in [2 .. l -> Int] /\ g \in [2 .. l + 1 -> Int]
    BY NotebookAssumption
  <1>2. (\A i \in 2 .. l : g[i] = f[i]) /\ g[l + 1] = EnhanceCost(l + 1)
    OBVIOUS
  <1> HIDE DEF f, g
  <1>3. SumFunction(g) = SumFunction(f) + g[l + 1]
    BY <1>1, <1>2, SumExtend
  <1> QED  BY <1>2, <1>3 DEF f, g

\* The notebook is typed, with the domain of its steps.
Written == NotebookType /\ steps \in [Upgrades -> Nat]

\* What the notebook gives and has cost, as numbers.
LEMMA NotebookNumbers ==
  ASSUME Written
  PROVE  /\ \A u \in Upgrades : StepHP(u, steps[u]) \in Nat /\ CostOfUpgrade(u) \in Int
         /\ NotebookHP \in Nat /\ NotebookCost \in Int
  <1>1. \A u \in Upgrades : StepHP(u, steps[u]) \in Nat
    BY NotebookAssumption DEF Written, NotebookType
  <1>2. \A u \in Upgrades : CostOfUpgrade(u) \in Int
    BY StepsTo DEF Written, NotebookType, CostOfUpgrade
  <1>3. /\ [u \in Upgrades |-> StepHP(u, steps[u])] \in [Upgrades -> Nat]
        /\ [u \in Upgrades |-> CostOfUpgrade(u)] \in [Upgrades -> Int]
    BY <1>1, <1>2
  <1>4. SumFunction([u \in Upgrades |-> StepHP(u, steps[u])]) \in Nat
    BY <1>3, NotebookAssumption, SumNat
  <1>5. SumFunction([u \in Upgrades |-> CostOfUpgrade(u)]) \in Int
    BY <1>3, NotebookAssumption, SumInt
  <1>6. LevelBonusHP(notebook) - LevelBonusHP(1) \in Nat
    BY NotebookAssumption DEF Written, NotebookType
  <1>7. SumFunction([l \in 2 .. notebook |-> EnhanceCost(l)]) \in Int
    BY LevelsTo DEF Written, NotebookType
  <1> QED
    BY <1>1, <1>2, <1>4, <1>5, <1>6, <1>7 DEF NotebookHP, NotebookCost

\* What a step of the notebook does: cost coins for delta hp.
Paying(cost, delta) ==
  /\ cost \in Nat /\ cost <= coins /\ delta \in Int
  /\ coins' = coins - cost
  /\ hero' = ChangeHP(hero, delta)
  /\ NotebookHP' = NotebookHP + delta /\ NotebookHP' \in Nat
  /\ NotebookCost' = NotebookCost + cost

LEMMA NotebookEffect ==
  ASSUME Written, NotebookStep
  PROVE  Written' /\ \E cost, delta : Paying(cost, delta)
  <1>1. /\ coins \in Nat /\ notebook \in 1 .. Levels /\ steps \in [Upgrades -> Nat]
        /\ \A u \in Upgrades : steps[u] \in 0 .. Steps(u)
    BY DEF Written, NotebookType
  <1>2. /\ \A u \in Upgrades : StepHP(u, steps[u]) \in Nat /\ CostOfUpgrade(u) \in Int
        /\ NotebookHP \in Nat /\ NotebookCost \in Int
    BY NotebookNumbers
  <1>3. \A u \in Upgrades : Steps(u) \in Nat
    BY NotebookAssumption
  <1>4. CASE Enhance
    <2>1. PICK l \in Nat : l = notebook
      BY <1>1
    <2>2. /\ l \in 1 .. Levels /\ l < Levels /\ notebook' = l + 1 /\ steps' = steps
          /\ LevelBonusHP(l) \in Nat /\ LevelBonusHP(l + 1) \in Nat /\ LevelBonusHP(1) \in Nat
          /\ LevelBonusHP(1) <= LevelBonusHP(l + 1)
          /\ EnhanceCost(l + 1) \in Nat /\ EnhanceCost(l + 1) <= coins
          /\ coins' = coins - EnhanceCost(l + 1)
          /\ hero' = ChangeHP(hero, LevelBonusHP(l + 1) - LevelBonusHP(l))
      BY <1>1, <1>4, <2>1, NotebookAssumption DEF Enhance, Pay
    <2>3. PICK part \in Nat : part = SumFunction([u \in Upgrades |-> StepHP(u, steps[u])])
      <3>1. [u \in Upgrades |-> StepHP(u, steps[u])] \in [Upgrades -> Nat]
        BY <1>2
      <3> QED  BY <3>1, NotebookAssumption, SumNat
    <2>4. SumFunction([u \in Upgrades |-> StepHP(u, steps[u])])' = part
      BY <2>2, <2>3
    <2>5. /\ NotebookHP' = NotebookHP + (LevelBonusHP(l + 1) - LevelBonusHP(l))
          /\ NotebookHP' \in Nat
      BY <2>1, <2>2, <2>3, <2>4 DEF NotebookHP
    <2>6. PICK paid \in Int : paid = SumFunction([u \in Upgrades |-> CostOfUpgrade(u)])
      <3>1. [u \in Upgrades |-> CostOfUpgrade(u)] \in [Upgrades -> Int]
        BY <1>2
      <3> QED  BY <3>1, NotebookAssumption, SumInt
    <2>7. SumFunction([u \in Upgrades |-> CostOfUpgrade(u)])' = paid
      BY <2>2, <2>6 DEF CostOfUpgrade
    <2>8. NotebookCost' = NotebookCost + EnhanceCost(l + 1)
      <3>1. PICK old \in Int : old = SumFunction([i \in 2 .. l |-> EnhanceCost(i)])
        BY <2>2, LevelsTo
      <3>2. SumFunction([i \in 2 .. l + 1 |-> EnhanceCost(i)]) = old + EnhanceCost(l + 1)
        BY <2>2, <3>1, LevelsOneMore
      <3>3. NotebookCost = old + paid
        BY <2>1, <2>6, <3>1 DEF NotebookCost
      <3>4. NotebookCost' = (old + EnhanceCost(l + 1)) + paid
        BY <2>2, <2>7, <3>2 DEF NotebookCost
      <3> QED  BY <2>2, <3>3, <3>4
    <2>9. Written'
      BY <1>1, <2>2, NotebookAssumption DEF Written, NotebookType
    <2> QED  BY <2>2, <2>5, <2>8, <2>9 DEF Paying
  <1>5. ASSUME NEW u \in Upgrades, UpgradeNotebook(u)
        PROVE  Written' /\ \E cost, delta : Paying(cost, delta)
    <2>1. PICK k \in Nat : k = steps[u]
      BY <1>1
    <2>2. /\ k \in 0 .. Steps(u) /\ k < Steps(u) /\ notebook' = notebook
          /\ steps' = [steps EXCEPT ![u] = k + 1]
          /\ StepHP(u, k) \in Nat /\ StepHP(u, k + 1) \in Nat
          /\ StepCost(u, k + 1) \in Nat /\ StepCost(u, k + 1) <= coins
          /\ coins' = coins - StepCost(u, k + 1)
          /\ hero' = ChangeHP(hero, StepHP(u, k + 1) - StepHP(u, k))
      BY <1>1, <1>2, <1>3, <1>5, <2>1, NotebookAssumption DEF UpgradeNotebook, MayStep, Pay
    <2>3. steps'[u] = k + 1 /\ \A v \in Upgrades \ {u} : steps'[v] = steps[v]
      BY <1>1, <2>2
    <2>4. Written'
      BY <1>1, <1>3, <2>2, <2>3 DEF Written, NotebookType
    <2>5. PICK f : f = [v \in Upgrades |-> StepHP(v, steps[v])]
      OBVIOUS
    <2>6. PICK g : g = [v \in Upgrades |-> StepHP(v, steps'[v])]
      OBVIOUS
    <2>7. f \in [Upgrades -> Int] /\ g \in [Upgrades -> Nat] /\ g \in [Upgrades -> Int]
      BY <1>2, <2>2, <2>3, <2>5, <2>6
    <2>8. /\ \A v \in Upgrades \ {u} : g[v] = f[v]
          /\ f[u] = StepHP(u, k) /\ g[u] = StepHP(u, k + 1)
      BY <2>1, <2>3, <2>5, <2>6
    <2>9. /\ SumFunction(g) = SumFunction(f) - f[u] + g[u]
          /\ SumFunction(f) \in Int /\ SumFunction(g) \in Nat
      BY <2>7, <2>8, NotebookAssumption, SumChange, SumInt, SumNat
    <2>10. /\ NotebookHP' = NotebookHP + (StepHP(u, k + 1) - StepHP(u, k))
           /\ NotebookHP' \in Nat
      <3>1. PICK own \in Nat : own = LevelBonusHP(notebook) - LevelBonusHP(1)
        BY <1>1, NotebookAssumption
      <3>2. (LevelBonusHP(notebook) - LevelBonusHP(1))' = own
        BY <2>2, <3>1
      <3>3. NotebookHP = own + SumFunction(f) /\ NotebookHP' = own + SumFunction(g)
        BY <2>5, <2>6, <3>1, <3>2 DEF NotebookHP
      <3> QED  BY <2>2, <2>8, <2>9, <3>3
    <2>11. PICK p : p = [v \in Upgrades |-> CostOfUpgrade(v)]
      OBVIOUS
    <2>12. PICK q : q = [v \in Upgrades |-> CostOfUpgrade(v)']
      OBVIOUS
    <2>13. CostOfUpgrade(u)' = CostOfUpgrade(u) + StepCost(u, k + 1)
      BY <2>1, <2>2, <2>3, StepsOneMore DEF CostOfUpgrade
    <2>14. \A v \in Upgrades \ {u} : CostOfUpgrade(v)' = CostOfUpgrade(v)
      BY <2>3 DEF CostOfUpgrade
    <2>15. p \in [Upgrades -> Int] /\ q \in [Upgrades -> Int]
      <3>1. \A v \in Upgrades : CostOfUpgrade(v)' \in Int
        BY <1>2, <2>2, <2>13, <2>14
      <3> QED  BY <1>2, <2>11, <2>12, <3>1
    <2>16. (\A v \in Upgrades \ {u} : q[v] = p[v]) /\ q[u] = p[u] + StepCost(u, k + 1)
      BY <2>11, <2>12, <2>13, <2>14
    <2>17. SumFunction(q) = SumFunction(p) - p[u] + q[u] /\ SumFunction(p) \in Int /\ p[u] \in Int
      BY <2>15, <2>16, NotebookAssumption, SumChange, SumInt
    <2>18. NotebookCost' = NotebookCost + StepCost(u, k + 1)
      <3>1. PICK own \in Int : own = SumFunction([l \in 2 .. notebook |-> EnhanceCost(l)])
        BY <1>1, LevelsTo
      <3>2. SumFunction([l \in 2 .. notebook |-> EnhanceCost(l)])' = own
        BY <2>2, <3>1
      <3>3. NotebookCost = own + SumFunction(p) /\ NotebookCost' = own + SumFunction(q)
        BY <2>11, <2>12, <3>1, <3>2 DEF NotebookCost
      <3> QED  BY <2>2, <2>16, <2>17, <3>3
    <2> QED  BY <2>2, <2>4, <2>10, <2>18 DEF Paying
  <1> QED  BY <1>4, <1>5 DEF NotebookStep
-----------------------------------------------------------------------------
\* While the loop of GainXP runs, the hero is what some level-ups, all of them
\* paid by the xp, make of the one it began with.
LoopInv == Earning =>
  \E k \in Nat : /\ CostOf(k, start[1].xpMax) <= start[1].xp + start[2]
                 /\ hero = Raised(start[1], start[2], k)

LifeInv == LifeTyped /\ LoadoutSound /\ PointsLedger /\ HPLedger /\ CoinsLedger /\ LoopInv

\* LevelHP for each level.
LEMMA LevelsHP ==
  ASSUME NEW l \in Nat \ {0}
  PROVE  /\ LevelHP * (l - 1) \in Nat
         /\ LevelHP * ((l + 1) - 1) = LevelHP * (l - 1) + LevelHP
  BY ProgressionAssumption

LEMMA LifeInit == Init => LifeInv
  <1> SUFFICES ASSUME Init PROVE LifeInv
    OBVIOUS
  <1>1. LifeTyped
    BY ProgressionAssumption, SkillsAssumption, NotebookAssumption, LifeAssumption
       DEF Init, SkillsInit, NotebookInit, LifeTyped, TypeOK, SkillsType, NotebookType, NewHero, Hero
  <1>2. LoadoutSound
    BY DEF Init, SkillsInit, LoadoutSound, Equipped
  <1>3. hero.level = 1 /\ hero.skillPoints = 1 /\ hero.hpMax = FirstHP /\ hero.hp = FirstHP
    BY DEF Init, NewHero
  <1>4. \A n \in Node : HPOfNode(n) = 0 /\ PaidFor(n) = 0
    <2>1. \A n \in Node : ~Equipped(n) /\ level[n] = 0
      BY DEF Init, SkillsInit, Equipped
    <2>2. [i \in 1 .. 0 |-> Cost(i)] \in [{} -> Int]
      OBVIOUS
    <2> QED  BY <2>1, <2>2, SumEmpty DEF HPOfNode, PaidFor
  <1>5. SkillsHP = 0 /\ SumFunction([n \in Node |-> PaidFor(n)]) = 0
    <2>1. /\ [n \in Node |-> HPOfNode(n)] \in [Node -> Int]
          /\ [n \in Node |-> PaidFor(n)] \in [Node -> Int]
      BY <1>4
    <2> QED  BY <1>4, <2>1, SkillsAssumption, SumZero DEF SkillsHP
  <1>6. PointsLedger
    BY <1>3, <1>5 DEF PointsLedger
  <1>7. notebook = 1 /\ \A u \in Upgrades : steps[u] = 0
    BY DEF Init, NotebookInit
  <1>8. \A u \in Upgrades : StepHP(u, steps[u]) = 0 /\ CostOfUpgrade(u) = 0
    <2>1. \A u \in Upgrades : [i \in 1 .. 0 |-> StepCost(u, i)] \in [{} -> Int]
      OBVIOUS
    <2> QED  BY <1>7, <2>1, NotebookAssumption, SumEmpty DEF CostOfUpgrade
  <1>9. /\ SumFunction([u \in Upgrades |-> StepHP(u, steps[u])]) = 0
        /\ SumFunction([u \in Upgrades |-> CostOfUpgrade(u)]) = 0
    <2>1. /\ [u \in Upgrades |-> StepHP(u, steps[u])] \in [Upgrades -> Int]
          /\ [u \in Upgrades |-> CostOfUpgrade(u)] \in [Upgrades -> Int]
      BY <1>8
    <2> QED  BY <1>8, <2>1, NotebookAssumption, SumZero
  <1>10. SumFunction([l \in 2 .. notebook |-> EnhanceCost(l)]) = 0
    <2>1. [l \in 2 .. 1 |-> EnhanceCost(l)] \in [{} -> Int]
      OBVIOUS
    <2> QED  BY <1>7, <2>1, SumEmpty
  <1>11. HPLedger
    <2>1. NotebookHP = 0
      BY <1>7, <1>9, NotebookAssumption DEF NotebookHP
    <2>2. LevelHP * (1 - 1) = 0
      BY ProgressionAssumption
    <2> QED  BY <1>3, <1>5, <2>1, <2>2, ProgressionAssumption DEF HPLedger
  <1>12. CoinsLedger
    BY <1>9, <1>10, LifeAssumption DEF CoinsLedger, NotebookCost, Init, NotebookInit
  <1>13. LoopInv
    BY DEF LoopInv, Earning, Init
  <1> QED  BY <1>1, <1>2, <1>6, <1>11, <1>12, <1>13 DEF LifeInv

\* A step of a node.
LEMMA SkillNext ==
  ASSUME LifeInv, ~Earning, SkillStep, UNCHANGED <<notebookVars, start, rewards>>
  PROVE  LifeInv'
  <1>1. PICK n \in Node : Unlock(n) \/ Equip(n) \/ Unequip(n) \/ Upgrade(n)
    BY DEF SkillStep
  <1>2. /\ LifeTyped /\ SkillsType /\ LoadoutSound /\ hero \in Hero
        /\ coins' = coins /\ notebook' = notebook /\ steps' = steps
        /\ start' = start /\ rewards' = rewards
    BY DEF LifeInv, LifeTyped, TypeOK, notebookVars
  <1>3. SkillsType' /\ LoadoutSound'
    BY <1>1, <1>2, LoadoutNext
  <1>4. PICK cost, delta : Effect(n, cost, delta)
    BY <1>1, <1>2, SkillEffect
  <1>5. /\ SkillsHP' = SkillsHP + delta /\ SkillsHP' \in Nat /\ SkillsHP \in Nat
        /\ SumFunction([m \in Node |-> PaidFor(m)])'
             = SumFunction([m \in Node |-> PaidFor(m)]) + cost
        /\ SumFunction([m \in Node |-> PaidFor(m)]) \in Int
    BY <1>2, <1>3, <1>4, SkillSums, NodeNumbers
  <1>6. NotebookHP' = NotebookHP /\ NotebookCost' = NotebookCost
    BY <1>2 DEF NotebookHP, NotebookCost, CostOfUpgrade
  <1>7. NotebookHP \in Nat
    BY <1>2, NotebookNumbers DEF LifeTyped, TypeOK, Written
  <1>8. /\ hero.hpMax = FirstHP + LevelHP * (hero.level - 1) + SkillsHP + NotebookHP
        /\ 1 <= hero.hp /\ hero.hp <= hero.hpMax /\ LevelHP * (hero.level - 1) \in Nat
        /\ hero.level \in Nat \ {0} /\ hero.skillPoints \in Nat /\ hero.hpMax \in Int
    BY <1>2, LevelsHP DEF LifeInv, HPLedger, Hero
  <1>9. cost \in Nat /\ cost <= hero.skillPoints /\ delta \in Int
    BY <1>4 DEF Effect
  <1> DEFINE paid == [hero EXCEPT !.skillPoints = hero.skillPoints - cost]
  <1>10. /\ paid \in Hero /\ paid.hp = hero.hp /\ paid.hpMax = hero.hpMax
         /\ paid.level = hero.level /\ paid.skillPoints = hero.skillPoints - cost
    BY <1>2, <1>9 DEF Hero
  <1>11. 1 <= hero.hpMax + delta
    BY <1>5, <1>7, <1>8, <1>9, ProgressionAssumption
  <1>12. hero' = ChangeHP(paid, delta) \/ (hero' = paid /\ delta = 0)
    BY <1>4 DEF Effect
  <1> HIDE DEF paid
  <1>13. /\ hero' \in Hero /\ hero'.level = hero.level
         /\ hero'.skillPoints = hero.skillPoints - cost
         /\ hero'.hpMax = hero.hpMax + delta /\ 1 <= hero'.hp /\ hero'.hp <= hero'.hpMax
    <2>1. CASE hero' = ChangeHP(paid, delta)
      BY <1>8, <1>9, <1>10, <1>11, <2>1, ChangeHPSound
    <2>2. CASE hero' = paid /\ delta = 0
      BY <1>8, <1>10, <2>2
    <2> QED  BY <1>12, <2>1, <2>2
  <1>14. LifeTyped'
    BY <1>2, <1>3, <1>13 DEF LifeTyped, TypeOK, NotebookType
  <1>15. PointsLedger'
    BY <1>5, <1>8, <1>9, <1>13 DEF PointsLedger, LifeInv
  <1>16. HPLedger'
    <2>1. PICK base \in Nat : base = LevelHP * (hero.level - 1) /\ base = LevelHP * (hero'.level - 1)
      BY <1>8, <1>13
    <2> QED  BY <1>5, <1>6, <1>7, <1>8, <1>9, <1>13, <2>1, ProgressionAssumption DEF HPLedger
  <1>17. CoinsLedger'
    BY <1>2, <1>6 DEF LifeInv, CoinsLedger
  <1>18. LoopInv'
    BY <1>2 DEF LoopInv, Earning
  <1> QED  BY <1>3, <1>14, <1>15, <1>16, <1>17, <1>18 DEF LifeInv

\* A step of the notebook.
LEMMA NotebookNext ==
  ASSUME LifeInv, ~Earning, NotebookStep, UNCHANGED <<skillVars, start, rewards>>
  PROVE  LifeInv'
  <1>1. /\ LifeTyped /\ SkillsType /\ LoadoutSound /\ hero \in Hero /\ Written
        /\ class' = class /\ level' = level /\ slot' = slot
        /\ start' = start /\ rewards' = rewards
    BY DEF LifeInv, LifeTyped, TypeOK, skillVars, Written
  <1>2. Written' /\ \E cost, delta : Paying(cost, delta)
    BY <1>1, NotebookEffect
  <1>3. PICK cost, delta : Paying(cost, delta)
    BY <1>2
  <1>4. /\ cost \in Nat /\ cost <= coins /\ delta \in Int /\ coins' = coins - cost
        /\ hero' = ChangeHP(hero, delta)
        /\ NotebookHP' = NotebookHP + delta /\ NotebookHP' \in Nat /\ NotebookHP \in Nat
        /\ NotebookCost' = NotebookCost + cost /\ NotebookCost \in Int /\ coins \in Nat
    BY <1>1, <1>3, NotebookNumbers DEF Paying, Written, NotebookType
  <1>5. /\ SkillsHP' = SkillsHP /\ SkillsHP \in Nat
        /\ SumFunction([m \in Node |-> PaidFor(m)])' = SumFunction([m \in Node |-> PaidFor(m)])
    <2>1. \A m \in Node : PaidFor(m)' = PaidFor(m) /\ HPOfNode(m)' = HPOfNode(m)
      BY <1>1 DEF PaidFor, HPOfNode, Equipped
    <2> QED  BY <1>1, <2>1, NodeNumbers DEF SkillsHP
  <1>6. /\ hero.hpMax = FirstHP + LevelHP * (hero.level - 1) + SkillsHP + NotebookHP
        /\ 1 <= hero.hp /\ hero.hp <= hero.hpMax /\ LevelHP * (hero.level - 1) \in Nat
    BY <1>1, LevelsHP DEF LifeInv, HPLedger, Hero
  <1>7. 1 <= hero.hpMax + delta
    BY <1>4, <1>5, <1>6, ProgressionAssumption
  <1>8. /\ hero' \in Hero /\ hero'.level = hero.level
        /\ hero'.skillPoints = hero.skillPoints
        /\ hero'.hpMax = hero.hpMax + delta /\ 1 <= hero'.hp /\ hero'.hp <= hero'.hpMax
    BY <1>1, <1>4, <1>6, <1>7, ChangeHPSound
  <1>9. LifeTyped'
    BY <1>1, <1>2, <1>8 DEF LifeTyped, TypeOK, Written, SkillsType
  <1>10. LoadoutSound'
    BY <1>1 DEF LoadoutSound, Equipped, Unlocked
  <1>11. PointsLedger'
    BY <1>5, <1>8 DEF PointsLedger, LifeInv
  <1>12. HPLedger'
    <2>1. PICK base \in Nat : base = LevelHP * (hero.level - 1) /\ base = LevelHP * (hero'.level - 1)
      BY <1>6, <1>8
    <2> QED  BY <1>4, <1>5, <1>6, <1>8, <2>1, ProgressionAssumption DEF HPLedger
  <1>13. CoinsLedger'
    BY <1>1, <1>4 DEF LifeInv, CoinsLedger
  <1>14. LoopInv'
    BY <1>1 DEF LoopInv, Earning
  <1> QED  BY <1>9, <1>10, <1>11, <1>12, <1>13, <1>14 DEF LifeInv

\* The level-ups of a reward: one turn more pays the price of the next level.
LEMMA RaisedOneMore ==
  ASSUME NEW h \in Hero, NEW xp \in Nat, NEW k \in Nat,
         CostOf(k, h.xpMax) <= h.xp + xp, NEW g, g = Raised(h, xp, k)
  PROVE  /\ g.xp = h.xp + xp - CostOf(k, h.xpMax) /\ g.xpMax = h.xpMax + 2 * HalfXP * k
         /\ CostOf(k + 1, h.xpMax) = CostOf(k, h.xpMax) + g.xpMax
         /\ CostOf(k, h.xpMax) \in Nat /\ g.xpMax \in Nat
  <1>1. h.xpMax \in Nat \ {0} /\ h.xp \in Nat /\ 2 * HalfXP * k \in Nat
    BY ProgressionAssumption DEF Hero
  <1>2. g.xp = h.xp + xp - CostOf(k, h.xpMax) /\ g.xpMax = h.xpMax + 2 * HalfXP * k
    BY DEF Raised
  <1>3. CostOf(1, g.xpMax) = g.xpMax
    BY <1>1, <1>2, ProgressionAssumption DEF CostOf
  <1>4. CostOf(k + 1, h.xpMax) = CostOf(k, h.xpMax) + CostOf(1, h.xpMax + 2 * HalfXP * k)
    BY <1>1, CostAdds
  <1>5. CostOf(k, h.xpMax) \in Nat
    BY <1>1, CostGrows
  <1> QED  BY <1>1, <1>2, <1>3, <1>4, <1>5

\* A step of the hero alone: what the nodes and the notebook give and cost stays.
LEMMA HeroAlone ==
  ASSUME LifeInv, UNCHANGED <<skillVars, notebook, steps>>,
         hero' \in Hero, coins' \in Nat, rewards' \in 0 .. MaxRewards,
         coins' - coins = Reward * rewards' - Reward * rewards,
         start' = <<>> \/ start' \in Hero \X Nat,
         hero'.skillPoints - hero.skillPoints = hero'.level - hero.level,
         hero'.hpMax - hero.hpMax = LevelHP * (hero'.level - 1) - LevelHP * (hero.level - 1),
         1 <= hero'.hp, hero'.hp <= hero'.hpMax,
         LoopInv'
  PROVE  LifeInv'
  <1>1. /\ class' = class /\ level' = level /\ slot' = slot
        /\ notebook' = notebook /\ steps' = steps
        /\ hero \in Hero /\ SkillsType /\ LoadoutSound /\ Written /\ coins \in Nat
    BY DEF skillVars, LifeInv, LifeTyped, TypeOK, Written, NotebookType
  <1>2. PICK total \in Int : /\ total = SumFunction([n \in Node |-> PaidFor(n)])
                             /\ SumFunction([n \in Node |-> PaidFor(n)])' = total
    <2>1. \A n \in Node : PaidFor(n)' = PaidFor(n)
      BY <1>1 DEF PaidFor
    <2>2. SumFunction([n \in Node |-> PaidFor(n)]) \in Int
      BY <1>1, NodeNumbers
    <2> QED  BY <2>1, <2>2
  <1>3. SkillsHP' = SkillsHP /\ SkillsHP \in Nat
    <2>1. \A n \in Node : HPOfNode(n)' = HPOfNode(n)
      BY <1>1 DEF HPOfNode, Equipped
    <2> QED  BY <1>1, <2>1, NodeNumbers DEF SkillsHP
  <1>4. /\ NotebookHP' = NotebookHP /\ NotebookHP \in Nat
        /\ NotebookCost' = NotebookCost /\ NotebookCost \in Int
    BY <1>1, NotebookNumbers DEF NotebookHP, NotebookCost, CostOfUpgrade
  <1>5. LifeTyped' /\ LoadoutSound'
    BY <1>1 DEF LifeInv, LifeTyped, TypeOK, SkillsType, NotebookType, LoadoutSound, Equipped, Unlocked
  <1>6. PointsLedger'
    <2>1. hero.skillPoints \in Nat /\ hero.level \in Nat /\ hero'.skillPoints \in Nat /\ hero'.level \in Nat
      BY <1>1 DEF Hero
    <2>2. hero.skillPoints + total = hero.level
      BY <1>2 DEF LifeInv, PointsLedger
    <2>3. hero'.skillPoints + total = hero'.level
      BY <1>2, <2>1, <2>2
    <2> QED  BY <1>2, <2>1, <2>3 DEF PointsLedger
  <1>7. HPLedger'
    <2>1. PICK old \in Nat, new \in Nat : /\ old = LevelHP * (hero.level - 1)
                                          /\ new = LevelHP * (hero'.level - 1)
      BY <1>1, LevelsHP DEF Hero
    <2>2. hero.hpMax = FirstHP + old + SkillsHP + NotebookHP
      BY <2>1 DEF LifeInv, HPLedger
    <2>3. hero'.hpMax \in Int /\ hero.hpMax \in Int /\ hero'.hpMax - hero.hpMax = new - old
      BY <1>1, <2>1 DEF Hero
    <2>4. hero'.hpMax = FirstHP + new + SkillsHP + NotebookHP
      <3>1. /\ FirstHP \in Nat /\ SkillsHP \in Nat /\ NotebookHP \in Nat
            /\ old \in Nat /\ new \in Nat
        BY <1>3, <1>4, ProgressionAssumption
      <3> QED  BY <2>2, <2>3, <3>1
    <2> QED  BY <1>3, <1>4, <2>1, <2>4 DEF HPLedger
  <1>8. CoinsLedger'
    <2>1. PICK old \in Nat, new \in Nat : old = Reward * rewards /\ new = Reward * rewards'
      <3>1. rewards \in Nat /\ rewards' \in Nat /\ Reward \in Nat
        BY LifeAssumption DEF LifeInv, LifeTyped, TypeOK
      <3>2. \A a, b \in Nat : a * b \in Nat
        OBVIOUS
      <3>3. Reward * rewards \in Nat /\ Reward * rewards' \in Nat
        BY ONLY <3>1, <3>2
      <3> QED  BY <3>3
    <2>2. coins + NotebookCost = old
      BY <2>1 DEF LifeInv, CoinsLedger
    <2>3. coins' - coins = new - old
      BY <2>1
    <2>4. coins' + NotebookCost = new
      BY ONLY <1>1, <1>4, <2>1, <2>2, <2>3, coins' \in Nat
    <2> QED  BY <1>4, <2>1, <2>4 DEF CoinsLedger
  <1> QED  BY <1>5, <1>6, <1>7, <1>8 DEF LifeInv

LEMMA EarnNext ==
  ASSUME LifeInv, NEW xp \in RewardXP, Earn(xp)
  PROVE  LifeInv'
  <1>1. /\ hero \in Hero /\ coins \in Nat /\ rewards \in 0 .. MaxRewards
        /\ 1 <= hero.hp /\ hero.hp <= hero.hpMax /\ xp \in Nat
        /\ Reward \in Nat /\ MaxRewards \in Nat
    BY LifeAssumption DEF LifeInv, LifeTyped, TypeOK, NotebookType, HPLedger
  <1>2. /\ start' = <<hero, xp>> /\ rewards' = rewards + 1 /\ coins' = coins + Reward
        /\ UNCHANGED <<skillVars, notebook, steps>> /\ rewards' \in 0 .. MaxRewards
        /\ hero' = [hero EXCEPT !.xp = hero.xp + xp]
    BY <1>1 DEF Earn, Gain, Hero
  <1>3. /\ hero' \in Hero /\ hero'.level = hero.level /\ hero'.skillPoints = hero.skillPoints
        /\ hero'.hpMax = hero.hpMax /\ hero'.hp = hero.hp
    BY <1>1, <1>2 DEF Hero
  <1>4. hero' = Raised(hero, xp, 0) /\ CostOf(0, hero.xpMax) <= hero.xp + xp
    <2>1. CostOf(0, hero.xpMax) = 0
      BY <1>1, ProgressionAssumption DEF CostOf, Hero
    <2> QED  BY <1>1, <1>2, <2>1, ProgressionAssumption DEF Raised, Hero
  <1>5. LoopInv'
    BY <1>2, <1>4 DEF LoopInv
  <1>6. coins' - coins = Reward * rewards' - Reward * rewards
    <2>1. Reward * (rewards + 1) = Reward * rewards + Reward /\ Reward * rewards \in Nat
      BY <1>1
    <2> QED  BY <1>1, <1>2, <2>1
  <1>7. /\ hero'.skillPoints - hero.skillPoints = hero'.level - hero.level
        /\ hero'.hpMax - hero.hpMax = LevelHP * (hero'.level - 1) - LevelHP * (hero.level - 1)
    <2>1. PICK base \in Nat : /\ base = LevelHP * (hero.level - 1)
                              /\ base = LevelHP * (hero'.level - 1)
      BY <1>1, <1>3, LevelsHP DEF Hero
    <2> QED  BY <1>1, <1>3, <2>1 DEF Hero
  <1> QED  BY <1>1, <1>2, <1>3, <1>5, <1>6, <1>7, HeroAlone

LEMMA TurnNext ==
  ASSUME LifeInv, Turn, UNCHANGED <<skillVars, notebookVars, rewards>>
  PROVE  LifeInv'
  <1>1. /\ hero \in Hero /\ coins \in Nat /\ rewards \in 0 .. MaxRewards
        /\ 1 <= hero.hp /\ hero.hp <= hero.hpMax /\ Earning
        /\ start \in Hero \X Nat /\ start' = start
        /\ coins' = coins /\ rewards' = rewards /\ UNCHANGED <<skillVars, notebook, steps>>
    BY DEF LifeInv, LifeTyped, TypeOK, NotebookType, HPLedger, Turn, Earning, notebookVars
  <1>2. /\ hero.xpMax <= hero.xp
        /\ hero' = [level |-> hero.level + 1, xp |-> hero.xp - hero.xpMax,
                    xpMax |-> hero.xpMax + 2 * HalfXP, hpMax |-> hero.hpMax + LevelHP,
                    hp |-> hero.hpMax + LevelHP, skillPoints |-> hero.skillPoints + 1]
    BY <1>1 DEF Turn, Hero
  <1>3. HalfXP \in Nat /\ LevelHP \in Nat /\ 2 * HalfXP \in Nat
    BY ProgressionAssumption
  <1>4. /\ hero' \in Hero /\ hero'.level = hero.level + 1
        /\ hero'.skillPoints = hero.skillPoints + 1
        /\ hero'.hpMax = hero.hpMax + LevelHP /\ hero'.hp = hero.hpMax + LevelHP
    BY <1>1, <1>2, <1>3 DEF Hero
  <1>5. LoopInv'
    <2>1. PICK h \in Hero, xp \in Nat : start = <<h, xp>>
      BY <1>1
    <2>2. PICK k \in Nat : CostOf(k, h.xpMax) <= h.xp + xp /\ hero = Raised(h, xp, k)
      BY <1>1, <2>1 DEF LifeInv, LoopInv
    <2>3. /\ hero.xp = h.xp + xp - CostOf(k, h.xpMax) /\ hero.xpMax = h.xpMax + 2 * HalfXP * k
          /\ CostOf(k + 1, h.xpMax) = CostOf(k, h.xpMax) + hero.xpMax
          /\ CostOf(k, h.xpMax) \in Nat /\ hero.xpMax \in Nat
      BY <2>2, RaisedOneMore
    <2>4. h.xp \in Nat /\ h.hpMax \in Int /\ h.level \in Nat /\ h.skillPoints \in Nat
          /\ h.xpMax \in Nat
      BY DEF Hero
    <2>5. CostOf(k + 1, h.xpMax) <= h.xp + xp
      BY <1>2, <2>3, <2>4
    <2>6. hero' = Raised(h, xp, k + 1)
      <3>1. /\ 2 * HalfXP * (k + 1) = 2 * HalfXP * k + 2 * HalfXP
            /\ LevelHP * (k + 1) = LevelHP * k + LevelHP
            /\ 2 * HalfXP * k \in Nat /\ LevelHP * k \in Nat
        BY <1>3
      <3>2. /\ hero.level = h.level + k /\ hero.hpMax = h.hpMax + LevelHP * k
            /\ hero.skillPoints = h.skillPoints + k
        BY <2>2 DEF Raised
      <3>3. /\ hero.xp - hero.xpMax = h.xp + xp - CostOf(k + 1, h.xpMax)
            /\ hero.xpMax + 2 * HalfXP = h.xpMax + 2 * HalfXP * (k + 1)
        BY <1>3, <2>3, <2>4, <3>1
      <3>4. /\ hero.level + 1 = h.level + (k + 1)
            /\ hero.skillPoints + 1 = h.skillPoints + (k + 1)
        BY <2>4, <3>2
      <3>5. hero.hpMax + LevelHP = h.hpMax + LevelHP * (k + 1)
        BY <1>3, <2>4, <3>1, <3>2
      <3> QED  BY <1>2, <3>3, <3>4, <3>5 DEF Raised
    <2> QED  BY <1>1, <2>1, <2>5, <2>6 DEF LoopInv, Earning
  <1>6. /\ hero'.skillPoints - hero.skillPoints = hero'.level - hero.level
        /\ hero'.hpMax - hero.hpMax = LevelHP * (hero'.level - 1) - LevelHP * (hero.level - 1)
    <2>1. PICK base \in Nat : /\ base = LevelHP * (hero.level - 1)
                              /\ base + LevelHP = LevelHP * (hero'.level - 1)
      BY <1>1, <1>4, LevelsHP DEF Hero
    <2> QED  BY <1>1, <1>3, <1>4, <2>1 DEF Hero
  <1>7. coins' - coins = Reward * rewards' - Reward * rewards
    <2>1. Reward * rewards \in Nat
      BY <1>1, LifeAssumption
    <2> QED  BY <1>1, <2>1
  <1>8. 1 <= hero'.hp /\ hero'.hp <= hero'.hpMax
    BY <1>1, <1>3, <1>4 DEF Hero
  <1> QED  BY <1>1, <1>4, <1>5, <1>6, <1>7, <1>8, HeroAlone

\* A fight, and the end of the loop below, change no number of a ledger.
LEMMA FightNext ==
  ASSUME LifeInv, ~Earning, Fight
  PROVE  LifeInv'
  <1>1. /\ hero \in Hero /\ coins \in Nat /\ rewards \in 0 .. MaxRewards
        /\ 1 <= hero.hp /\ hero.hp <= hero.hpMax
        /\ start = <<>> \/ start \in Hero \X Nat
    BY DEF LifeInv, LifeTyped, TypeOK, NotebookType, HPLedger
  <1>2. PICK hp \in {1, hero.hpMax} : hero' = [hero EXCEPT !.hp = hp]
    BY DEF Fight
  <1>3. /\ coins' = coins /\ rewards' = rewards /\ start' = start
        /\ UNCHANGED <<skillVars, notebook, steps>>
    BY DEF Fight, notebookVars
  <1>4. /\ hero' \in Hero /\ hero'.level = hero.level /\ hero'.hpMax = hero.hpMax
        /\ hero'.skillPoints = hero.skillPoints /\ 1 <= hero'.hp /\ hero'.hp <= hero'.hpMax
    BY <1>1, <1>2 DEF Hero
  <1>5. LoopInv'
    BY <1>3 DEF LoopInv, Earning
  <1>6. /\ hero'.skillPoints - hero.skillPoints = hero'.level - hero.level
        /\ hero'.hpMax - hero.hpMax = LevelHP * (hero'.level - 1) - LevelHP * (hero.level - 1)
    <2>1. PICK base \in Nat : /\ base = LevelHP * (hero.level - 1)
                              /\ base = LevelHP * (hero'.level - 1)
      BY <1>1, <1>4, LevelsHP DEF Hero
    <2> QED  BY <1>1, <1>4, <2>1 DEF Hero
  <1>7. coins' - coins = Reward * rewards' - Reward * rewards
    <2>1. Reward * rewards \in Nat
      BY <1>1, LifeAssumption
    <2> QED  BY <1>1, <1>3, <2>1
  <1> QED  BY <1>1, <1>3, <1>4, <1>5, <1>6, <1>7, HeroAlone

LEMMA NothingMoves ==
  ASSUME LifeInv, UNCHANGED <<hero, skillVars, notebookVars, rewards>>,
         UNCHANGED start \/ start' = <<>>
  PROVE  LifeInv'
  <1>1. /\ hero' = hero
        /\ class' = class /\ level' = level /\ slot' = slot
        /\ coins' = coins /\ notebook' = notebook /\ steps' = steps /\ rewards' = rewards
    BY DEF skillVars, notebookVars
  <1>2. LifeTyped' /\ LoadoutSound' /\ LoopInv'
    BY <1>1 DEF LifeInv, LifeTyped, TypeOK, SkillsType, NotebookType, LoadoutSound, Equipped,
                Unlocked, LoopInv, Earning
  <1>3. \A n \in Node : PaidFor(n)' = PaidFor(n) /\ HPOfNode(n)' = HPOfNode(n)
    BY <1>1 DEF PaidFor, HPOfNode, Equipped
  <1>4. PointsLedger'
    BY <1>1, <1>3 DEF LifeInv, PointsLedger
  <1>5. HPLedger' /\ CoinsLedger'
    BY <1>1, <1>3 DEF LifeInv, HPLedger, CoinsLedger, SkillsHP, NotebookHP, NotebookCost,
                      CostOfUpgrade
  <1> QED  BY <1>2, <1>4, <1>5 DEF LifeInv

LEMMA LifeNext == LifeInv /\ [Next]_vars => LifeInv'
  <1> SUFFICES ASSUME LifeInv, [Next]_vars PROVE LifeInv'
    OBVIOUS
  <1>1. CASE ~Earning /\ SkillStep /\ UNCHANGED <<notebookVars, start, rewards>>
    BY <1>1, SkillNext
  <1>2. CASE ~Earning /\ NotebookStep /\ UNCHANGED <<skillVars, start, rewards>>
    BY <1>2, NotebookNext
  <1>3. ASSUME NEW xp \in RewardXP, Earn(xp) PROVE LifeInv'
    BY <1>3, EarnNext
  <1>4. CASE Level
    <2>1. UNCHANGED <<skillVars, notebookVars, rewards>>
      BY <1>4 DEF Level
    <2>2. CASE Turn
      BY <2>1, <2>2, TurnNext
    <2>3. CASE Done
      BY <2>1, <2>3, NothingMoves DEF Done
    <2> QED  BY <1>4, <2>2, <2>3 DEF Level
  <1>5. CASE ~Earning /\ Fight
    BY <1>5, FightNext
  <1>6. CASE UNCHANGED vars
    BY <1>6, NothingMoves DEF vars
  <1> QED  BY <1>1, <1>2, <1>3, <1>4, <1>5, <1>6 DEF Next

LEMMA LifeAlways == Spec => []LifeInv
  BY LifeInit, LifeNext, PTL DEF Spec

\* skills.Unlock, Equip and Unequip: whatever gaps the loadout gets, two nodes
\* never share a slot, and only unlocked nodes of the player's class have one.
THEOREM LoadoutStaysSound == Spec => []LoadoutSound
  <1>1. LifeInv => LoadoutSound
    BY DEF LifeInv
  <1> QED  BY <1>1, LifeAlways, PTL

\* skills.Unlock and Upgrade, player.GainXP: every skill point that a level gave
\* is unspent or in a node, at the price of its level, during level-ups too.
THEOREM PointsAddUp == Spec => []PointsLedger
  <1>1. LifeInv => PointsLedger
    BY DEF LifeInv
  <1> QED  BY <1>1, LifeAlways, PTL

\* player.ChangeHP and its callers: the stored hpMax, changed by differences only,
\* is what the level, the loadout and the notebook of now amount to, and the life
\* stays between 1 and it.
THEOREM HPAddsUp == Spec => []HPLedger
  <1>1. LifeInv => HPLedger
    BY DEF LifeInv
  <1> QED  BY <1>1, LifeAlways, PTL

\* notebook.Enhance and Upgrade: the coins are the rewards less what the levels
\* and the steps have cost, each once and at its own price.
THEOREM CoinsAddUp == Spec => []CoinsLedger
  <1>1. LifeInv => CoinsLedger
    BY DEF LifeInv
  <1> QED  BY <1>1, LifeAlways, PTL

\* player.GainXP: the loop, for any number of turns, leaves what the closed form
\* says, so a reward may be one step elsewhere.
THEOREM LoopEndsAsGainXP == Spec => LoopIsGainXP
  <1>1. ASSUME LifeInv, Done PROVE hero = GainXP(start[1], start[2])
    <2>1. start \in Hero \X Nat /\ Earning
      BY <1>1 DEF LifeInv, LifeTyped, TypeOK, Done, Earning
    <2>2. PICK h \in Hero, xp \in Nat : start = <<h, xp>>
      BY <2>1
    <2>3. PICK k \in Nat : CostOf(k, h.xpMax) <= h.xp + xp /\ hero = Raised(h, xp, k)
      BY <1>1, <2>1, <2>2 DEF LifeInv, LoopInv
    <2>4. /\ hero.xp = h.xp + xp - CostOf(k, h.xpMax)
          /\ CostOf(k + 1, h.xpMax) = CostOf(k, h.xpMax) + hero.xpMax
          /\ CostOf(k, h.xpMax) \in Nat /\ hero.xpMax \in Nat
      BY <2>3, RaisedOneMore
    <2>5. h.xp + xp < CostOf(k + 1, h.xpMax)
      BY <1>1, <2>4 DEF Done, Ended, Hero
    <2>6. LevelsFor(h, xp) = k
      BY <2>3, <2>5, LevelsUnique
    <2> QED  BY <2>2, <2>3, <2>6 DEF GainXP
  <1>2. LifeInv /\ [Next]_vars => [Done => hero = GainXP(start[1], start[2])]_<<hero, start>>
    BY <1>1
  <1> QED  BY <1>2, LifeAlways, PTL DEF Spec, LoopIsGainXP
-----------------------------------------------------------------------------
\* Every stored pick is an option of its part, not of gear, free or bought:
\* what MayChoose asks but for the body, which may have changed since.
PicksOwned ==
  \A p \in Part : picks[p] # NoOption =>
     /\ PartOf(picks[p]) = p
     /\ picks[p] \notin GearOnly
     /\ Price(picks[p]) > 0 => picks[p] \in looks

\* LookComesBack of every body, the one of the moment or not.
LeftResolves ==
  \A b \in Body, p \in Part :
     left[b][p] # NoOption => left[b][p] = Resolve(b, picks)[p]

\* The looks bought have been paid for, each once.
LooksPaid == /\ IsFiniteSet(looks)
             /\ purse + SumFunction([o \in looks |-> Price(o)]) = Coins

LooksInv == AvatarType /\ PicksOwned /\ LeftResolves /\ LooksPaid

\* Resolving always finds an option.
LEMMA ResolveType ==
  ASSUME NEW b \in Body, NEW ps \in [Part -> Option \cup {NoOption}]
  PROVE  Resolve(b, ps) \in [Part -> Option]
  BY AvatarAssumption DEF Resolve, Fits

LEMMA LooksInit == AvatarInit => LooksInv
  <1> SUFFICES ASSUME AvatarInit PROVE LooksInv  OBVIOUS
  <1>1. AvatarType          BY AvatarAssumption DEF AvatarInit, AvatarType
  <1>2. PicksOwned      BY DEF AvatarInit, PicksOwned, MayChoose, Fits
  <1>3. LeftResolves    BY DEF AvatarInit, LeftResolves
  <1>4. LooksPaid
    <2>1. looks = {} /\ purse = Coins
      BY DEF AvatarInit
    <2>2. PICK f : f = [o \in looks |-> Price(o)]
      OBVIOUS
    <2>3. f \in [{} -> Int]
      BY <2>1, <2>2
    <2>4. SumFunction(f) = 0
      BY <2>3, SumEmpty
    <2> QED  BY <2>1, <2>2, <2>4, FS_EmptySet, AvatarAssumption DEF LooksPaid
  <1> QED  BY <1>1, <1>2, <1>3, <1>4 DEF LooksInv

LEMMA UpdateInv ==
  ASSUME LooksInv, NEW ask \in Ask, Update(ask)
  PROVE  LooksInv'
  <1> USE DEF LooksInv
  <1>0. PICK parts \in SUBSET Part : ask \in [parts -> Option]
    BY DEF Ask
  <1>1. DOMAIN ask = parts
    BY <1>0
  <1>2. AvatarType'
    BY <1>0, <1>1 DEF AvatarType, Update, Picked
  <1>3. PicksOwned'
    BY <1>0, <1>1 DEF PicksOwned, AvatarType, Update, MayChoose, Fits
  <1>4. LeftResolves'
    BY <1>0, <1>1 DEF LeftResolves, AvatarType, Update, Picked, Resolve
  <1>5. LooksPaid'
    BY DEF LooksPaid, Update
  <1> QED  BY <1>2, <1>3, <1>4, <1>5

LEMMA BuyInv ==
  ASSUME LooksInv, NEW o \in Option, Buy(o)
  PROVE  LooksInv'
  <1> USE DEF LooksInv
  <1>0. PartOf(o) \in Part /\ o \notin GearOnly
    BY AvatarAssumption DEF Buy
  <1>1. AvatarType'
    <2>1. purse' \in 0 .. Coins
      BY AvatarAssumption DEF AvatarType, Buy
    <2>2. picks' \in [Part -> Option \cup {NoOption}]
      BY <1>0 DEF AvatarType, Buy
    <2>3. left' \in [Body -> [Part -> Option \cup {NoOption}]]
      BY DEF AvatarType, Buy, Picked
    <2> QED  BY <2>1, <2>2, <2>3 DEF AvatarType, Buy
  <1>2. PicksOwned'
    BY <1>0 DEF PicksOwned, AvatarType, Buy
  <1>3. LeftResolves'
    BY <1>0 DEF LeftResolves, AvatarType, Buy, Picked, Resolve
  <1>4. LooksPaid'
    <2>1. /\ o \notin looks /\ looks' = looks \cup {o} /\ purse' = purse - Price(o)
          /\ purse \in Int /\ Price(o) \in Nat /\ IsFiniteSet(looks)
      BY AvatarAssumption DEF Buy, AvatarType, LooksPaid
    <2>2. PICK f : f = [x \in looks |-> Price(x)]
      OBVIOUS
    <2>3. PICK g : g = [x \in looks \cup {o} |-> Price(x)]
      OBVIOUS
    <2>4. f \in [looks -> Int] /\ g \in [looks \cup {o} -> Int]
      BY <2>1, <2>2, <2>3, AvatarAssumption DEF AvatarType
    <2>5. (\A x \in looks : g[x] = f[x]) /\ g[o] = Price(o)
      BY <2>2, <2>3
    <2>6. SumFunction(g) = SumFunction(f) + g[o]
      <3>1. IsFiniteSet(looks) /\ o \notin looks
        BY <2>1
      <3> QED  BY ONLY <2>4, <2>5, <3>1, SumAdd
    <2>7. SumFunction(f) \in Int /\ purse + SumFunction(f) = Coins
      BY <2>1, <2>2, <2>4, SumInt DEF LooksPaid
    <2>8. [x \in looks |-> Price(x)]' = g
      BY <2>1, <2>3
    <2>9. IsFiniteSet(looks)'
      BY <2>1, FS_AddElement
    <2> QED  BY <2>1, <2>5, <2>6, <2>7, <2>8, <2>9 DEF LooksPaid
  <1> QED  BY <1>1, <1>2, <1>3, <1>4

\* The picks stay, so what any other body left resolves as before.
LEMMA ChangeBodyInv ==
  ASSUME LooksInv, NEW b \in Body, ChangeBody(b)
  PROVE  LooksInv'
  <1> USE DEF LooksInv
  <1>1. Appearance \in [Part -> Option]
    BY ResolveType DEF AvatarType, Appearance
  <1>2. AvatarType'
    BY <1>1, AvatarAssumption DEF AvatarType, ChangeBody, SetBody
  <1>3. PicksOwned'
    BY DEF PicksOwned, ChangeBody, SetBody
  <1>4. LeftResolves'
    BY DEF LeftResolves, AvatarType, ChangeBody, SetBody, Resolve, Appearance
  <1>5. LooksPaid'
    BY DEF LooksPaid, ChangeBody
  <1> QED  BY <1>2, <1>3, <1>4, <1>5

LEMMA LooksNext == LooksInv /\ [AvatarNext]_avatarVars => LooksInv'
  <1> SUFFICES ASSUME LooksInv, [AvatarNext]_avatarVars PROVE LooksInv'  OBVIOUS
  <1>1. ASSUME NEW ask \in Ask, Update(ask) PROVE LooksInv'
    BY <1>1, UpdateInv
  <1>2. ASSUME NEW o \in Option, Buy(o) PROVE LooksInv'
    BY <1>2, BuyInv
  <1>3. ASSUME NEW b \in Body, ChangeBody(b) PROVE LooksInv'
    BY <1>3, ChangeBodyInv
  <1>4. CASE UNCHANGED avatarVars
    BY <1>4 DEF avatarVars, LooksInv, AvatarType, PicksOwned, LeftResolves, Resolve, LooksPaid
  <1> QED  BY <1>1, <1>2, <1>3, <1>4 DEF AvatarNext

\* A hero that changes back to a body (ChangeBody, SetBody) wears what it wore
\* when it left it, wherever nothing was picked since.
THEOREM ComesBack == AvatarSpec => []LookComesBack
  <1>1. LooksInv => LookComesBack
    BY DEF LooksInv, AvatarType, LeftResolves, LookComesBack, Appearance
  <1> QED  BY LooksInit, LooksNext, <1>1, PTL DEF AvatarSpec

\* Whatever was picked, bought and changed, the hero wears only options of their
\* part that its body can wear and that are free or bought, and each of those was
\* paid for once (ResolveAppearance, Update, Buy).
THEOREM LooksStaySound == AvatarSpec => []LooksSound
  <1>1. LooksInv => WearsOwn
    <2> SUFFICES ASSUME LooksInv, NEW p \in Part
                 PROVE  MayChoose(p, Appearance[p], body, looks)
      BY DEF WearsOwn
    <2> DEFINE pick == picks[p]
               worn == IF pick \in Option /\ Fits(pick, p, body) THEN pick
                                                                ELSE Default(body, p)
    <2>1. Appearance[p] = worn
      BY DEF Appearance, Resolve
    <2>2. CASE worn = pick /\ pick \in Option /\ Fits(pick, p, body)
      BY <2>1, <2>2, AvatarAssumption DEF LooksInv, PicksOwned, MayChoose
    <2>3. CASE worn = Default(body, p)
      BY <2>1, <2>3, AvatarAssumption DEF LooksInv, AvatarType, MayChoose, Fits
    <2> QED  BY <2>2, <2>3
  <1>2. LooksInv => purse >= 0 /\ purse + SumFunction([o \in looks |-> Price(o)]) = Coins
    BY DEF LooksInv, AvatarType, LooksPaid
  <1>3. LooksInv => LooksSound
    BY <1>1, <1>2 DEF LooksSound
  <1> QED  BY LooksInit, LooksNext, <1>3, PTL DEF AvatarSpec
=============================================================================
