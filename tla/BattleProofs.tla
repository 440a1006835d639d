---------------------------- MODULE BattleProofs ----------------------------
(***************************************************************************)
(* Proofs about Battle for any regions, paths, commands and rewards.  The  *)
(* invariants of the fight and of the path are inductive together with the *)
(* type of the row of battles; the path argument is that progress only     *)
(* grows, so a node that was open when its fight began is still open when  *)
(* the fight is won.                                                       *)
(***************************************************************************)
EXTENDS Battle, LedgerLemmas

\* The row of battles and what it refers to are well typed.
FightTyped == /\ region \in Region
              /\ progress \in [Region -> Nat]
              /\ fight \in Fight \cup {NoFight}

FightInv == FightTyped /\ WonIffDown /\ PathSound

-----------------------------------------------------------------------------
\* A path node is a pair of a region and a position on its path.
LEMMA NodeParts ==
  ASSUME NEW n \in Node
  PROVE  /\ n[1] \in Region /\ n[2] \in Nat /\ n[2] < PathLength(n[1])
         /\ n = <<n[1], n[2]>>
<1>1. PICK r \in Region : n \in {r} \X (0 .. PathLength(r) - 1)
  BY DEF Node
<1>2. n[1] = r /\ n[2] \in 0 .. PathLength(r) - 1 /\ n = <<n[1], n[2]>>
  BY <1>1
<1>3. PathLength(r) \in Nat
  BY BattleAssumption
<1> QED
  BY <1>2, <1>3

\* The damage of a hit is an integer, whatever the percentages round to.
LEMMA DealtInt ==
  ASSUME NEW base \in Nat, NEW weak \in BOOLEAN, NEW bonus \in Nat
  PROVE  Dealt(base, weak, bonus) \in Int
<1>1. \A a, pct \in Int : Percent(a, pct) \in Int
  BY DEF Percent
<1>2. WeakPercent \in Int
  BY BattleAssumption
<1>3. (IF weak THEN Percent(base, WeakPercent) ELSE base) \in Int
  BY <1>1, <1>2
<1> DEFINE hit == IF weak THEN Percent(base, WeakPercent) ELSE base
<1>4. Dealt(base, weak, bonus) = Percent(hit, 100 + bonus)
  BY DEF Dealt
<1>5. hit \in Int /\ 100 + bonus \in Int
  BY <1>3
<1> HIDE DEF hit
<1> QED
  BY <1>1, <1>4, <1>5

\* The player's side of a turn leaves the row well typed, and it touches
\* neither the region, nor the node, nor the status.
LEMMA StruckTyped ==
  ASSUME NEW c \in Command, NEW dealt \in Int, fight \in Fight, fight.sp >= c.cost
  PROVE  /\ Struck(c, dealt) \in Fight
         /\ Struck(c, dealt).region = fight.region
         /\ Struck(c, dealt).node = fight.node
         /\ Struck(c, dealt).status = fight.status
<1>1. c.cost \in Nat /\ c.spGain \in Nat /\ c.exposes \in BOOLEAN
  BY BattleAssumption
<1> DEFINE hp == IF dealt < fight.hp THEN fight.hp - dealt ELSE 0
           weak == c.exposes \/ (fight.weak /\ c.damage = {})
           sp == Least(fight.spMax, fight.sp - c.cost + c.spGain)
<1>2. hp \in Nat /\ sp \in Nat
  BY <1>1 DEF Fight, Least
<1>3. weak \in BOOLEAN
  BY <1>1 DEF Fight
<1>4. Struck(c, dealt) = [[[fight EXCEPT !.hp = hp] EXCEPT !.weak = weak] EXCEPT !.sp = sp]
  BY DEF Struck, Fight
<1> HIDE DEF hp, weak, sp
<1> QED
  BY <1>2, <1>3, <1>4 DEF Fight

\* The end of a turn keeps the invariant, given the row the player's side left.
LEMMA EndTurnKeeps ==
  ASSUME FightInv, fight # NoFight, fight.status = "active",
         NEW f \in Fight, NEW h, NEW bag, NEW shield,
         f.region = fight.region, f.node = fight.node, f.status = "active",
         EndTurn(f, h, bag, shield)
  PROVE  FightInv'
<1>1. /\ region \in Region /\ progress \in [Region -> Nat] /\ fight \in Fight
      /\ \A r \in Region : progress[r] <= PathLength(r) /\ PathLength(r) \in Nat
      /\ f.node # NoNode => f.node[1] = f.region /\ f.node[2] <= progress[f.region]
  BY BattleAssumption DEF FightInv, FightTyped, PathSound
<1>2. f.node # NoNode => /\ f.node \in Node /\ f.node[1] \in Region
                         /\ f.node[2] \in Nat /\ f.node[2] < PathLength(f.node[1])
  BY NodeParts DEF Fight
<1>3. CASE Victory(f, h, bag)
  <2>1. /\ f.hp = 0 /\ fight' = [f EXCEPT !.status = "won"]
        /\ progress' = Advanced(f.node) /\ region' = region
    BY <1>3 DEF Victory
  <2>2. /\ fight' \in Fight /\ fight'.status = "won" /\ fight'.hp = 0
        /\ fight'.node = f.node /\ fight'.region = f.region
    BY <2>1 DEF Fight
  <2>3. /\ progress' \in [Region -> Nat]
        /\ \A r \in Region : progress'[r] <= PathLength(r)
        /\ f.node # NoNode => f.node[2] < progress'[f.region]
    <3>1. CASE f.node # NoNode /\ progress[f.node[1]] = f.node[2]
      BY <1>1, <1>2, <2>1, <3>1 DEF Advanced
    <3>2. CASE ~(f.node # NoNode /\ progress[f.node[1]] = f.node[2])
      BY <1>1, <1>2, <2>1, <3>2 DEF Advanced
    <3> QED
      BY <3>1, <3>2
  <2>4. FightTyped'
    BY <1>1, <2>1, <2>2, <2>3 DEF FightTyped
  <2>5. WonIffDown' /\ PathSound'
    BY <1>1, <1>2, <2>2, <2>3 DEF WonIffDown, PathSound
  <2> QED
    BY <2>4, <2>5 DEF FightInv
<1>4. CASE Survive(f, h, bag, shield)
  <2>1. PICK counter \in CounterBlow, bonus \in BonusRegen :
          fight' = [f EXCEPT !.sp = Least(f.spMax, f.sp + SPRegen + bonus)]
    BY <1>4 DEF Survive, Fight
  <2>2. f.hp > 0 /\ region' = region /\ progress' = progress
    BY <1>4 DEF Survive
  <2>3. Least(f.spMax, f.sp + SPRegen + bonus) \in Nat
    BY BattleAssumption DEF Fight, Least
  <2>4. /\ fight' \in Fight /\ fight'.status = "active" /\ fight'.hp = f.hp
        /\ fight'.node = f.node /\ fight'.region = f.region
    BY <2>1, <2>3 DEF Fight
  <2> QED
    BY <1>1, <2>2, <2>4 DEF FightInv, FightTyped, WonIffDown, PathSound
<1>5. CASE Defeat(f, h, bag, shield)
  BY <1>1, <1>5, BattleAssumption DEF Defeat, FightInv, FightTyped, WonIffDown, PathSound
<1> QED
  BY <1>3, <1>4, <1>5 DEF EndTurn

\* A fight that is opened is new: alive, and on an open node or on none.
LEMMA OpenKeeps ==
  ASSUME FightInv, NEW e \in Enemy, NEW n \in Node \cup {NoNode}, Open(e, n),
         n # NoNode => n[1] = region /\ n[2] <= progress[region]
  PROVE  FightInv'
<1>1. PICK bonus \in BonusSP :
        fight' = [region |-> region, node |-> n, hp |-> e.hp, sp |-> e.sp + bonus,
                  spMax |-> e.sp + bonus, weak |-> FALSE, status |-> "active"]
  BY DEF Open
<1>2. e.hp \in Nat \ {0} /\ e.sp + bonus \in Nat /\ region \in Region
  BY BattleAssumption DEF Enemy, FightInv, FightTyped
<1>3. fight' \in Fight
  BY <1>1, <1>2 DEF Fight
<1>4. fight'.hp # 0 /\ fight'.status = "active" /\ fight'.node = n /\ fight'.region = region
  BY <1>1, <1>2
<1>5. region' = region /\ progress' = progress
  BY DEF Open
<1> QED
  BY <1>3, <1>4, <1>5 DEF FightInv, FightTyped, WonIffDown, PathSound

\* The row a turn starts from, when there is a fight to play.
LEMMA PlayableActive ==
  ASSUME FightInv, Playable
  PROVE  fight \in Fight /\ fight # NoFight /\ fight.status = "active"
BY DEF FightInv, FightTyped, Playable, Fight

\* What a command or a potion hands to the end of the turn.
LEMMA PlayEndsTurn ==
  ASSUME FightInv, NEW c \in Command, Play(c)
  PROVE  \E f \in Fight : /\ f.region = fight.region /\ f.node = fight.node
                          /\ f.status = "active"
                          /\ \E h, bag, shield : EndTurn(f, h, bag, shield)
<1>1. fight \in Fight /\ fight.status = "active"
  BY PlayableActive DEF Play
<1>2. fight.sp >= c.cost
  BY DEF Play, MayPlay
<1>3. c.damage \subseteq Nat
  BY BattleAssumption
<1>4. PICK base \in (IF c.damage = {} THEN {0} ELSE c.damage), bonus \in BonusDamage :
        \E h : EndTurn(Struck(c, Dealt(base, fight.weak, bonus)), h, items, c.shield)
  BY DEF Play
<1>5. base \in Nat /\ bonus \in Nat /\ fight.weak \in BOOLEAN
  BY <1>1, <1>3, BattleAssumption DEF Fight
<1>6. Dealt(base, fight.weak, bonus) \in Int
  BY <1>5, DealtInt
<1> QED
  BY <1>1, <1>2, <1>4, <1>6, StruckTyped

LEMMA UseItemEndsTurn ==
  ASSUME FightInv, NEW p \in Potion, UseItem(p)
  PROVE  \E f \in Fight : /\ f.region = fight.region /\ f.node = fight.node
                          /\ f.status = "active"
                          /\ \E h, bag, shield : EndTurn(f, h, bag, shield)
<1>1. fight \in Fight /\ fight.status = "active"
  BY PlayableActive DEF UseItem
<1> DEFINE sp == IF p.stat = "sp" THEN Least(fight.spMax, fight.sp + p.amount) ELSE fight.sp
           f == [fight EXCEPT !.sp = sp]
<1>2. sp \in Nat
  BY <1>1, BattleAssumption DEF Fight, Least
<1>3. /\ f \in Fight /\ f.region = fight.region /\ f.node = fight.node
      /\ f.status = "active"
  <2> HIDE DEF sp
  <2> QED
    BY <1>1, <1>2 DEF Fight
<1>4. \E h, bag : EndTurn(f, h, bag, FALSE)
  BY <1>1 DEF UseItem, Fight
<1> QED
  BY <1>3, <1>4

LEMMA FightInvInit == Init => FightInv
<1> SUFFICES ASSUME Init PROVE FightInv
  OBVIOUS
<1>1. \A r \in Region : PathLength(r) \in Nat
  BY BattleAssumption
<1> QED
  BY <1>1, BattleAssumption DEF Init, FightInv, FightTyped, WonIffDown, PathSound

LEMMA FightInvNext == FightInv /\ [Next]_vars => FightInv'
<1> SUFFICES ASSUME FightInv, [Next]_vars PROVE FightInv'
  OBVIOUS
<1>1. CASE StartWild
  <2>1. PICK e \in Wild(region) : Open(e, NoNode)
    BY <1>1 DEF StartWild
  <2>2. e \in Enemy
    BY BattleAssumption DEF FightInv, FightTyped
  <2> QED
    BY <2>1, <2>2, OpenKeeps
<1>2. ASSUME NEW n \in Node, StartNode(n) PROVE FightInv'
  <2>1. NodeEnemy(n[1], n[2]) \in Enemy /\ n # NoNode
    BY BattleAssumption
  <2>2. n[1] = region /\ n[2] <= progress[region] /\ Open(NodeEnemy(n[1], n[2]), n)
    BY <1>2 DEF StartNode
  <2> QED
    BY <2>1, <2>2, OpenKeeps
<1>3. ASSUME NEW c \in Command, Flee(c) PROVE FightInv'
  BY <1>3 DEF Flee, FightInv, FightTyped, WonIffDown, PathSound
<1>4. ASSUME NEW c \in Command, Play(c) PROVE FightInv'
  BY <1>4, PlayEndsTurn, EndTurnKeeps, PlayableActive DEF Play
<1>5. ASSUME NEW p \in Potion, UseItem(p) PROVE FightInv'
  BY <1>5, UseItemEndsTurn, EndTurnKeeps, PlayableActive DEF UseItem
<1>6. ASSUME NEW r \in Region, Travel(r) PROVE FightInv'
  BY <1>6 DEF Travel, FightInv, FightTyped, WonIffDown, PathSound
<1>7. ASSUME NEW s \in Skill, Reequip(s) PROVE FightInv'
  BY <1>7 DEF Reequip, FightInv, FightTyped, WonIffDown, PathSound
<1>8. CASE UNCHANGED vars
  BY <1>8 DEF vars, FightInv, FightTyped, WonIffDown, PathSound
<1> QED
  BY <1>1, <1>2, <1>3, <1>4, <1>5, <1>6, <1>7, <1>8 DEF Next

LEMMA FightInvAlways == Spec => []FightInv
BY FightInvInit, FightInvNext, PTL DEF Spec
-----------------------------------------------------------------------------
\* battle.turn, Start and Travel: whatever is travelled, replayed or abandoned,
\* a fight's node was open, a beaten node is cleared and a path ends at its boss.
THEOREM PathStaysSound == Spec => []PathSound
<1>1. FightInv => PathSound
  BY DEF FightInv
<1> QED
  BY <1>1, FightInvAlways, PTL

\* EndTurn: the row says won exactly when the enemy has no life left.
THEOREM WonMeansDown == Spec => []WonIffDown
<1>1. FightInv => WonIffDown
  BY DEF FightInv
<1> QED
  BY <1>1, FightInvAlways, PTL

\* AdvanceProgress: a path moves one node at a time, by beating its frontier.
THEOREM PathAdvancesInOrder == Spec => FrontierOnly
<1> DEFINE A == \A r \in Region : progress'[r] # progress[r] =>
                  /\ progress'[r] = progress[r] + 1
                  /\ fight.node = <<r, progress[r]>>
                  /\ fight.status = "active" /\ fight'.status = "won"
<1>1. ASSUME FightInv, fight # NoFight, fight.status = "active",
             NEW f \in Fight, NEW h, NEW bag, NEW shield,
             f.node = fight.node, EndTurn(f, h, bag, shield)
      PROVE  A
  <2>1. CASE Victory(f, h, bag)
    <3>1. progress \in [Region -> Nat]
      BY <1>1 DEF FightInv, FightTyped
    <3>2. fight'.status = "won" /\ progress' = Advanced(f.node)
      BY <2>1 DEF Victory, Fight
    <3>3. CASE f.node # NoNode /\ progress[f.node[1]] = f.node[2]
      <4>1. f.node \in Node
        BY <3>3 DEF Fight
      <4>2. f.node[1] \in Region /\ f.node[2] \in Nat /\ f.node = <<f.node[1], f.node[2]>>
        BY <4>1, NodeParts
      <4> QED
        BY <1>1, <3>1, <3>2, <3>3, <4>2 DEF Advanced
    <3>4. CASE ~(f.node # NoNode /\ progress[f.node[1]] = f.node[2])
      BY <3>2, <3>4 DEF Advanced
    <3> QED
      BY <3>3, <3>4
  <2>2. CASE Survive(f, h, bag, shield) \/ Defeat(f, h, bag, shield)
    BY <2>2 DEF Survive, Defeat
  <2> QED
    BY <1>1, <2>1, <2>2 DEF EndTurn
<1>2. FightInv /\ [Next]_vars => [A]_vars
  <2> SUFFICES ASSUME FightInv, [Next]_vars, ~ UNCHANGED vars PROVE A
    OBVIOUS
  <2> HIDE DEF A
  <2>1. CASE progress' = progress
    BY <2>1 DEF A
  <2>2. ASSUME NEW c \in Command, Play(c) PROVE A
    BY <1>1, <2>2, PlayEndsTurn, PlayableActive DEF Play
  <2>3. ASSUME NEW p \in Potion, UseItem(p) PROVE A
    BY <1>1, <2>3, UseItemEndsTurn, PlayableActive DEF UseItem
  <2>4. \/ progress' = progress
        \/ \E c \in Command : Play(c)
        \/ \E p \in Potion : UseItem(p)
    BY DEF Next, StartWild, StartNode, Open, Flee, Travel, Reequip
  <2> QED
    BY <2>1, <2>2, <2>3, <2>4
<1>3. Spec => [][A]_vars
  BY <1>2, FightInvAlways, PTL DEF Spec
<1> QED
  BY <1>3 DEF FrontierOnly
-----------------------------------------------------------------------------
\* Every fight started is worth one victory, and the one going on is not paid.
PaidInv == FightInv /\ coins \in Nat /\ started \in Nat /\ PaidPerFight

\* A turn pays only when it ends the fight as won.
LEMMA EndTurnPays ==
  ASSUME FightInv, NEW f \in Fight, NEW h, NEW bag, NEW shield,
         f.status = "active", EndTurn(f, h, bag, shield)
  PROVE  \/ coins' = coins + VictoryCoins /\ ~Unpaid'
         \/ coins' = coins
<1>1. CASE Victory(f, h, bag)
  BY <1>1 DEF Victory, Unpaid, Fight
<1>2. CASE Survive(f, h, bag, shield) \/ Defeat(f, h, bag, shield)
  BY <1>2 DEF Survive, Defeat
<1> QED
  BY <1>1, <1>2 DEF EndTurn

\* A turn is played in a fight that has not paid.
LEMMA TurnPays ==
  ASSUME PaidInv, Playable, started' = started,
         \/ coins' = coins + VictoryCoins /\ ~Unpaid'
         \/ coins' = coins
  PROVE  coins' \in Nat /\ PaidPerFight'
<1>1. Unpaid /\ VictoryCoins \in Nat
  BY PlayableActive, BattleAssumption DEF PaidInv, Unpaid
<1>2. coins \in Nat /\ coins + VictoryCoins <= VictoryCoins * started
  BY <1>1 DEF PaidInv, PaidPerFight
<1> DEFINE worth == VictoryCoins * started
<1>3. worth \in Nat /\ worth' = worth
  BY <1>1 DEF PaidInv
<1> HIDE DEF worth
<1>4. coins' \in Nat /\ coins' + (IF Unpaid' THEN VictoryCoins ELSE 0) <= worth
  BY <1>1, <1>2, <1>3 DEF worth
<1> QED
  BY <1>3, <1>4 DEF PaidPerFight, worth

LEMMA PaidInvInit == Init => PaidInv
<1> SUFFICES ASSUME Init PROVE PaidInv
  OBVIOUS
<1>1. coins = 0 /\ started = 0 /\ ~Unpaid /\ VictoryCoins * 0 = 0
  BY BattleAssumption DEF Init, Unpaid
<1> QED
  BY <1>1, FightInvInit DEF PaidInv, PaidPerFight

LEMMA PaidInvNext == PaidInv /\ [Next]_vars => PaidInv'
<1> SUFFICES ASSUME PaidInv, [Next]_vars PROVE PaidInv'
  OBVIOUS
<1>1. FightInv /\ FightInv'
  BY FightInvNext DEF PaidInv
<1>2. /\ VictoryCoins \in Nat /\ coins \in Nat /\ started \in Nat
      /\ coins <= VictoryCoins * started
  <2>1. VictoryCoins \in Nat /\ coins \in Nat /\ started \in Nat
    BY BattleAssumption DEF PaidInv
  <2> QED
    BY <2>1 DEF PaidInv, PaidPerFight
<1>3. ASSUME NEW e, NEW n, Open(e, n) PROVE PaidInv'
  <2>1. started' = started + 1 /\ coins' = coins
    BY <1>3 DEF Open
  <2>2. VictoryCoins * started' = VictoryCoins * started + VictoryCoins
    BY <1>2, <2>1
  <2>3. coins' + (IF Unpaid' THEN VictoryCoins ELSE 0) <= VictoryCoins * started'
    BY <1>2, <2>1, <2>2
  <2> QED
    BY <1>1, <1>2, <2>1, <2>3 DEF PaidInv, PaidPerFight
<1>4. CASE StartWild
  BY <1>3, <1>4 DEF StartWild
<1>5. ASSUME NEW n \in Node, StartNode(n) PROVE PaidInv'
  BY <1>3, <1>5 DEF StartNode
<1>6. ASSUME NEW c \in Command, Flee(c) PROVE PaidInv'
  BY <1>1, <1>2, <1>6 DEF Flee, PaidInv, PaidPerFight, Unpaid
<1>7. ASSUME NEW c \in Command, Play(c) PROVE PaidInv'
  <2>1. Playable /\ started' = started
    BY <1>7 DEF Play
  <2>2. coins' \in Nat /\ PaidPerFight'
    BY <1>1, <1>7, <2>1, PlayEndsTurn, EndTurnPays, TurnPays
  <2> QED
    BY <1>1, <1>2, <2>1, <2>2 DEF PaidInv
<1>8. ASSUME NEW p \in Potion, UseItem(p) PROVE PaidInv'
  <2>1. Playable /\ started' = started
    BY <1>8 DEF UseItem
  <2>2. coins' \in Nat /\ PaidPerFight'
    BY <1>1, <1>8, <2>1, UseItemEndsTurn, EndTurnPays, TurnPays
  <2> QED
    BY <1>1, <1>2, <2>1, <2>2 DEF PaidInv
<1>9. ASSUME coins' = coins, started' = started, fight' = fight PROVE PaidInv'
  BY <1>1, <1>2, <1>9 DEF PaidInv, PaidPerFight, Unpaid
<1> QED
  BY <1>4, <1>5, <1>6, <1>7, <1>8, <1>9 DEF Next, Travel, Reequip, vars

\* EndTurn and Start: however turns are resent and nodes are replayed, no more
\* is paid than one victory for each fight started, and none for the open one.
THEOREM NeverPaidTwice == Spec => []PaidPerFight
<1>1. PaidInv => PaidPerFight
  BY DEF PaidInv
<1> QED
  BY <1>1, PaidInvInit, PaidInvNext, PTL DEF Spec
-----------------------------------------------------------------------------
\* The player's side of the row: a sound hero, the bags, the bar, the sp.
PlayerInv == /\ SoundHero(hero)
             /\ items \in [ItemId -> Nat]
             /\ power \in 0 .. MaxPower
             /\ fight # NoFight => fight.sp <= fight.spMax
             /\ VictoryCoins * TotalXP(hero) = VictoryXP * coins
             /\ equipped \subseteq Skill

\* What the player's side hands to the end of its turn.
Handed(f, h, bag) == /\ f.sp <= f.spMax
                     /\ SoundHero(h) /\ TotalXP(h) = TotalXP(hero)
                     /\ bag \in [ItemId -> Nat]

\* A blow takes no life back, shielded or not.
LEMMA BlowNat ==
  ASSUME NEW counter \in CounterBlow, NEW shield
  PROVE  Blow(counter, shield) \in Nat
BY BattleAssumption DEF Blow

\* A victory pays its xp and its coins together.
LEMMA PaidTogether ==
  ASSUME NEW x \in Int, NEW y \in Int, VictoryCoins * x = VictoryXP * y
  PROVE  VictoryCoins * (x + VictoryXP) = VictoryXP * (y + VictoryCoins)
<1>1. VictoryCoins \in Int /\ VictoryXP \in Int
  BY BattleAssumption
<1>2. /\ VictoryCoins * (x + VictoryXP) = VictoryCoins * x + VictoryCoins * VictoryXP
      /\ VictoryXP * (y + VictoryCoins) = VictoryXP * y + VictoryXP * VictoryCoins
      /\ VictoryCoins * VictoryXP = VictoryXP * VictoryCoins
  BY <1>1
<1> QED
  BY <1>2

\* TotalXP is a number.
LEMMA TotalXPInt ==
  ASSUME NEW h, SoundHero(h)
  PROVE  TotalXP(h) \in Int
<1>1. h.level - 1 \in Nat /\ h.xp \in Nat
  BY DEF SoundHero, Hero
<1>2. CostOf(h.level - 1, FirstXP) \in Nat
  BY <1>1, CostGrows, ProgressionAssumption
<1> QED
  BY <1>1, <1>2 DEF TotalXP

\* The end of a turn keeps the player's side of the row.
LEMMA EndTurnSound ==
  ASSUME NEW f \in Fight, NEW h, NEW bag, NEW shield, Handed(f, h, bag),
         coins \in Nat, VictoryCoins * TotalXP(hero) = VictoryXP * coins,
         equipped \subseteq Skill, equipped' = equipped, power' \in 0 .. MaxPower,
         EndTurn(f, h, bag, shield)
  PROVE  PlayerInv'
<1>1. /\ SoundHero(h) /\ TotalXP(h) = TotalXP(hero) /\ bag \in [ItemId -> Nat]
      /\ f.sp <= f.spMax /\ f.sp \in Nat /\ f.spMax \in Nat
      /\ h.hp \in Nat /\ h.hpMax \in Int /\ h.hp <= h.hpMax /\ 1 <= h.hp
  BY DEF Handed, Fight, SoundHero, Hero
<1>2. CASE Victory(f, h, bag)
  <2>1. VictoryXP \in Nat
    BY BattleAssumption
  <2>2. hero' = GainXP(h, VictoryXP) /\ coins' = coins + VictoryCoins
    BY <1>2 DEF Victory
  <2>3. SoundHero(hero') /\ TotalXP(hero') = TotalXP(hero) + VictoryXP
    BY <1>1, <2>1, <2>2, GainXPSound
  <2>4. SoundHero(hero)' /\ TotalXP(hero)' = TotalXP(hero) + VictoryXP
    BY <2>3 DEF SoundHero, TotalXP
  <2>5. VictoryCoins * TotalXP(hero)' = VictoryXP * coins'
    <3>1. TotalXP(hero) \in Int
      BY <1>1, TotalXPInt
    <3> QED
      BY <2>2, <2>4, <3>1, PaidTogether
  <2>6. items' \in [ItemId -> Nat]
    <3>1. PICK drops \in SUBSET {Loot, PotionDrop} :
            items' = [i \in ItemId |-> IF i \in drops THEN bag[i] + 1 ELSE bag[i]]
      BY <1>2 DEF Victory
    <3> QED
      BY <1>1, <3>1
  <2>7. fight'.sp <= fight'.spMax
    BY <1>1, <1>2 DEF Victory, Fight
  <2> QED
    BY <2>4, <2>5, <2>6, <2>7 DEF PlayerInv
<1>3. CASE Survive(f, h, bag, shield)
  <2>1. PICK counter \in CounterBlow, bonus \in BonusRegen :
          /\ h.hp > Blow(counter, shield)
          /\ hero' = [h EXCEPT !.hp = h.hp - Blow(counter, shield)]
          /\ fight' = [f EXCEPT !.sp = Least(f.spMax, f.sp + SPRegen + bonus)]
    BY <1>3 DEF Survive, Fight, Handed, SoundHero, Hero
  <2>2. items' = bag /\ coins' = coins
    BY <1>3 DEF Survive
  <2> DEFINE life == h.hp - Blow(counter, shield)
  <2>3. life \in Int /\ 1 <= life /\ life <= h.hpMax
    BY <1>1, <2>1, BlowNat
  <2>4. SoundHero(hero') /\ TotalXP(hero') = TotalXP(hero)
    BY <1>1, <2>1, <2>3, LifeSound
  <2>5. SoundHero(hero)' /\ TotalXP(hero)' = TotalXP(hero)
    BY <2>4 DEF SoundHero, TotalXP
  <2>6. fight'.sp <= fight'.spMax
    <3>1. Least(f.spMax, f.sp + SPRegen + bonus) <= f.spMax
      BY <1>1, BattleAssumption DEF Least
    <3> QED
      BY <2>1, <3>1 DEF Fight
  <2> QED
    BY <1>1, <2>2, <2>5, <2>6 DEF PlayerInv
<1>4. CASE Defeat(f, h, bag, shield)
  <2>1. hero' = [h EXCEPT !.hp = h.hpMax] /\ fight' = NoFight /\ items' = bag /\ coins' = coins
    BY <1>4 DEF Defeat
  <2>2. SoundHero(hero') /\ TotalXP(hero') = TotalXP(hero)
    BY <1>1, <2>1, LifeSound
  <2>3. SoundHero(hero)' /\ TotalXP(hero)' = TotalXP(hero)
    BY <2>2 DEF SoundHero, TotalXP
  <2> QED
    BY <1>1, <2>1, <2>3 DEF PlayerInv
<1> QED
  BY <1>2, <1>3, <1>4 DEF EndTurn

\* Healing or restoring, as a command or a potion does, before the enemy's turn.
LEMMA HealedSound ==
  ASSUME SoundHero(hero), NEW amount \in Nat
  PROVE  LET h == [hero EXCEPT !.hp = Least(hero.hpMax, hero.hp + amount)]
         IN  SoundHero(h) /\ TotalXP(h) = TotalXP(hero)
<1> DEFINE life == Least(hero.hpMax, hero.hp + amount)
<1>1. life \in Int /\ 1 <= life /\ life <= hero.hpMax
  BY DEF SoundHero, Hero, Least
<1> HIDE DEF life
<1>2. /\ SoundHero([hero EXCEPT !.hp = life])
      /\ TotalXP([hero EXCEPT !.hp = life]) = TotalXP(hero)
  BY <1>1, LifeSound
<1> QED
  BY <1>2 DEF life

\* What a command hands to the end of its turn.
LEMMA PlayHands ==
  ASSUME FightInv, PlayerInv, NEW c \in Command, Play(c)
  PROVE  \E f \in Fight : \E h, bag, shield : Handed(f, h, bag) /\ EndTurn(f, h, bag, shield)
<1>1. fight \in Fight /\ fight # NoFight /\ fight.sp >= c.cost
  BY PlayableActive DEF Play, MayPlay
<1>2. c.damage \subseteq Nat /\ c.heal \in Nat /\ c.cost \in Nat /\ c.spGain \in Nat
  BY BattleAssumption
<1> DEFINE h == [hero EXCEPT !.hp = Least(hero.hpMax, hero.hp + c.heal)]
<1>3. PICK base \in (IF c.damage = {} THEN {0} ELSE c.damage), bonus \in BonusDamage :
        EndTurn(Struck(c, Dealt(base, fight.weak, bonus)), h, items, c.shield)
  <2>1. h = [hero EXCEPT !.hp = Least(hero.hpMax, @ + c.heal)]
    BY DEF PlayerInv, SoundHero, Hero
  <2> HIDE DEF h
  <2> QED
    BY <2>1 DEF Play
<1>4. base \in Nat /\ bonus \in Nat /\ fight.weak \in BOOLEAN
  BY <1>1, <1>2, <1>3, BattleAssumption DEF Fight
<1>5. Dealt(base, fight.weak, bonus) \in Int
  BY <1>4, DealtInt
<1> DEFINE dealt == Dealt(base, fight.weak, bonus)
           f == Struck(c, dealt)
<1>6. SoundHero(h) /\ TotalXP(h) = TotalXP(hero)
  BY <1>2, HealedSound DEF PlayerInv
<1> HIDE DEF h, dealt
<1>7. f \in Fight
  BY <1>1, <1>5, StruckTyped DEF dealt
<1>8. f.sp <= f.spMax
  <2>1. fight.sp \in Nat /\ fight.spMax \in Nat
    BY <1>1 DEF Fight
  <2>2. Least(fight.spMax, fight.sp - c.cost + c.spGain) <= fight.spMax
    BY <1>2, <2>1 DEF Least
  <2> QED
    BY <1>1, <2>2 DEF Struck, Fight
<1>9. Handed(f, h, items)
  <2> HIDE DEF f
  <2> QED
    BY <1>6, <1>8 DEF Handed, PlayerInv
<1> QED
  BY <1>3, <1>7, <1>9 DEF dealt

\* What a potion hands to the end of its turn.
LEMMA UseItemHands ==
  ASSUME FightInv, PlayerInv, NEW p \in Potion, UseItem(p)
  PROVE  \E f \in Fight : \E h, bag, shield : Handed(f, h, bag) /\ EndTurn(f, h, bag, shield)
<1>1. fight \in Fight /\ fight # NoFight /\ fight.sp <= fight.spMax
  BY PlayableActive DEF UseItem, PlayerInv
<1>2. p.id \in ItemId /\ p.amount \in Nat /\ items \in [ItemId -> Nat] /\ items[p.id] > 0
  BY BattleAssumption DEF UseItem, PlayerInv
<1> DEFINE f == [fight EXCEPT !.sp = IF p.stat = "sp" THEN Least(fight.spMax, fight.sp + p.amount)
                                     ELSE fight.sp]
           h == [hero EXCEPT !.hp = IF p.stat = "hp" THEN Least(hero.hpMax, hero.hp + p.amount)
                                    ELSE hero.hp]
           bag == [items EXCEPT ![p.id] = items[p.id] - 1]
<1>3. EndTurn(f, h, bag, FALSE)
  BY <1>1, <1>2 DEF UseItem, Fight, PlayerInv, SoundHero, Hero
<1>4. bag \in [ItemId -> Nat]
  BY <1>2
<1>5. SoundHero(h) /\ TotalXP(h) = TotalXP(hero)
  <2>1. CASE p.stat = "hp"
    BY <1>2, <2>1, HealedSound DEF PlayerInv
  <2>2. CASE p.stat # "hp"
    BY <2>2, LifeSound DEF PlayerInv, SoundHero, Hero
  <2> QED
    BY <2>1, <2>2
<1>6. f \in Fight /\ f.sp <= f.spMax
  <2> DEFINE sp == IF p.stat = "sp" THEN Least(fight.spMax, fight.sp + p.amount) ELSE fight.sp
  <2>1. sp \in Nat /\ sp <= fight.spMax
    BY <1>1, <1>2 DEF Fight, Least
  <2> HIDE DEF sp
  <2>2. f = [fight EXCEPT !.sp = sp]
    BY DEF sp
  <2> QED
    BY <1>1, <2>1, <2>2 DEF Fight
<1> HIDE DEF f, h, bag
<1> QED
  BY <1>3, <1>4, <1>5, <1>6 DEF Handed

\* The limit bar stays in its range: a limit empties it, a hit fills it up.
LEMMA PowerBounded ==
  ASSUME NEW c \in Command, power \in 0 .. MaxPower
  PROVE  PowerAfter(c) \in 0 .. MaxPower
BY BattleAssumption DEF PowerAfter, Least

RowInv == PaidInv /\ PlayerInv

LEMMA RowInvInit == Init => RowInv
<1> SUFFICES ASSUME Init PROVE RowInv
  OBVIOUS
<1>1. PaidInv
  BY PaidInvInit
<1>2. SoundHero(hero) /\ TotalXP(hero) = 0
  BY NewHeroSound DEF Init
<1>3. VictoryCoins * 0 = VictoryXP * 0
  BY BattleAssumption
<1>4. PlayerInv
  BY <1>2, <1>3, BattleAssumption DEF Init, PlayerInv
<1> QED
  BY <1>1, <1>4 DEF RowInv

LEMMA RowInvNext == RowInv /\ [Next]_vars => RowInv'
<1> SUFFICES ASSUME RowInv, [Next]_vars PROVE RowInv'
  OBVIOUS
<1>1. PaidInv' /\ PaidInv /\ FightInv /\ FightInv' /\ PlayerInv /\ coins \in Nat
  BY PaidInvNext, FightInvNext DEF RowInv, PaidInv
<1>2. SUFFICES PlayerInv'
  BY <1>1 DEF RowInv
<1>3. ASSUME hero' = hero, coins' = coins, items' = items, power' = power,
             fight' # NoFight => fight'.sp <= fight'.spMax,
             equipped' \subseteq Skill
      PROVE  PlayerInv'
  BY <1>1, <1>3 DEF PlayerInv, SoundHero, TotalXP
<1>4. ASSUME NEW e \in Enemy, NEW n \in Node \cup {NoNode}, Open(e, n) PROVE PlayerInv'
  <2>1. PICK bonus \in BonusSP :
          fight' = [region |-> region, node |-> n, hp |-> e.hp, sp |-> e.sp + bonus,
                    spMax |-> e.sp + bonus, weak |-> FALSE, status |-> "active"]
    BY <1>4 DEF Open
  <2>2. e.sp + bonus \in Nat
    BY BattleAssumption DEF Enemy
  <2>3. fight'.sp <= fight'.spMax
    BY <2>1, <2>2
  <2> QED
    BY <1>1, <1>3, <1>4, <2>3 DEF Open, PlayerInv
<1>5. CASE StartWild
  <2>1. PICK e \in Wild(region) : Open(e, NoNode)
    BY <1>5 DEF StartWild
  <2>2. e \in Enemy
    BY <1>1, BattleAssumption DEF FightInv, FightTyped
  <2> QED
    BY <1>4, <2>1, <2>2
<1>6. ASSUME NEW n \in Node, StartNode(n) PROVE PlayerInv'
  BY <1>4, <1>6, BattleAssumption DEF StartNode
<1>7. ASSUME NEW c \in Command, Flee(c) PROVE PlayerInv'
  BY <1>1, <1>3, <1>7 DEF Flee, PlayerInv
<1>8. ASSUME NEW c \in Command, Play(c) PROVE PlayerInv'
  <2>1. equipped' = equipped /\ power' \in 0 .. MaxPower
    BY <1>1, <1>8, PowerBounded DEF Play, PlayerInv
  <2> QED
    BY <1>1, <1>8, <2>1, PlayHands, EndTurnSound DEF PlayerInv
<1>9. ASSUME NEW p \in Potion, UseItem(p) PROVE PlayerInv'
  <2>1. equipped' = equipped /\ power' = power
    BY <1>9 DEF UseItem
  <2> QED
    BY <1>1, <1>9, <2>1, UseItemHands, EndTurnSound DEF PlayerInv
<1>10. ASSUME NEW r \in Region, Travel(r) PROVE PlayerInv'
  BY <1>1, <1>3, <1>10 DEF Travel, PlayerInv
<1>11. ASSUME NEW s \in Skill, Reequip(s) PROVE PlayerInv'
  BY <1>1, <1>3, <1>11 DEF Reequip, PlayerInv
<1>12. CASE UNCHANGED vars
  BY <1>1, <1>3, <1>12 DEF vars, PlayerInv
<1> QED
  BY <1>5, <1>6, <1>7, <1>8, <1>9, <1>10, <1>11, <1>12 DEF Next

LEMMA RowInvAlways == Spec => []RowInv
BY RowInvInit, RowInvNext, PTL DEF Spec

\* battle.go: the life stays between 1 and hpMax, the limit bar and the sp in
\* their ranges and the bags above zero, whatever turns are played.
THEOREM RangesKept == Spec => []TypeOK
<1>1. RowInv => TypeOK
  BY DEF RowInv, PaidInv, PlayerInv, FightInv, FightTyped, SoundHero, Hero, TypeOK
<1> QED
  BY <1>1, RowInvAlways, PTL

\* EndTurn and Start: a fight pays at most once, and the xp that all levels and
\* the bar hold is what the victories that paid the coins have given.
THEOREM PaidOnceAndWhole == Spec => []PaidOnce
<1>1. RowInv => PaidOnce
  BY DEF RowInv, PaidInv, PlayerInv, PaidOnce
<1> QED
  BY <1>1, RowInvAlways, PTL
=============================================================================
