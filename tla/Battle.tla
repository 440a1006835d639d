------------------------------- MODULE Battle -------------------------------
(***************************************************************************)
(* One player's bug fight and journey: start or resume a fight, play a     *)
(* command or a potion, travel.  A fight is one row, keyed by the player,  *)
(* that outlives the page and the region it was started in; a win pays     *)
(* once and opens the next node of a region's path (AD-021).  Each handler *)
(* runs in one locked transaction and is one step.                         *)
(***************************************************************************)
EXTENDS Progression, FiniteSets

CONSTANTS Region, Home,       \* the regions, and the one of the defeated
          MinLevel(_),        \* the level a region asks for
          PathLength(_),      \* the nodes of a region's path, boss included
          NodeEnemy(_, _),    \* the enemy [hp, sp] of a node
          Wild(_),            \* EnemiesIn: the enemies a random fight draws
          Command,            \* the commands, as records of the catalog
          Potion,             \* the items with restore: [id, stat, amount]
          Loot, PotionDrop,   \* what a victory may drop
          StartItems,         \* the items of a new player, by id
          CounterBlow,        \* the counter-attacks the enemy draws from
          SPRegen, WeakPercent, VictoryXP, VictoryCoins,
          MaxPower, PerHit, PerCrit,
          BonusSP, BonusRegen, BonusDamage,  \* what Bonus may add up to
          NoFight, NoNode,
          MaxFights           \* bound: fights started

Node == UNION {{r} \X (0 .. PathLength(r) - 1) : r \in Region}
ItemId == DOMAIN StartItems

Enemy == [hp : Nat \ {0}, sp : Nat]

ASSUME BattleAssumption ==
  /\ Home \in Region /\ MinLevel(Home) = 1
  /\ \A r \in Region : PathLength(r) \in Nat /\ Wild(r) \subseteq Enemy
  /\ \A n \in Node : NodeEnemy(n[1], n[2]) \in Enemy
  /\ \A c \in Command : c.cost \in Nat /\ c.heal \in Nat /\ c.spGain \in Nat
  /\ \A c \in Command : c.damage \subseteq Nat /\ {c.exposes, c.limit} \subseteq BOOLEAN
  /\ \A p \in Potion : p.id \in ItemId /\ p.amount \in Nat
  /\ StartItems \in [ItemId -> Nat]
  /\ BonusSP \cup BonusRegen \cup BonusDamage \cup CounterBlow \subseteq Nat
  /\ {SPRegen, WeakPercent, VictoryXP, VictoryCoins, MaxPower, PerHit, PerCrit} \subseteq Nat
  /\ NoNode \notin Node

\* A row of battles.  sp and hp are kept within their ranges by the turns.
Fight == [region : Region, node : Node \cup {NoNode}, hp : Nat, sp : Nat,
          spMax : Nat, weak : BOOLEAN, status : {"active", "won"}]

ASSUME NoFightAssumption == NoFight \notin Fight

VARIABLES power,     \* players.power, the limit bar
          coins,     \* what victories paid (gems go with them)
          region,    \* players.region
          items,     \* player_items
          progress,  \* region_progress.cleared
          equipped,  \* the skills in the loadout
          fight,     \* the row of battles, or NoFight
          started    \* (auxiliary) the fights started so far

vars == <<hero, power, coins, region, items, progress, equipped, fight, started>>

Skill == {c.skill : c \in Command} \ {""}
Least(a, b) == IF a < b THEN a ELSE b

Init == /\ hero = NewHero
        /\ power = 0 /\ coins = 0 /\ started = 0
        /\ region = Home
        /\ items = StartItems
        /\ progress = [r \in Region |-> 0]
        /\ equipped = {}
        /\ fight = NoFight
-----------------------------------------------------------------------------
\* A new fight, which replaces whatever row there was.
Open(e, n) ==
  /\ started < MaxFights
  /\ \E bonus \in BonusSP :
       fight' = [region |-> region, node |-> n, hp |-> e.hp, sp |-> e.sp + bonus,
                 spMax |-> e.sp + bonus, weak |-> FALSE, status |-> "active"]
  /\ started' = started + 1
  /\ UNCHANGED <<hero, power, coins, region, items, progress, equipped>>

\* An active fight of this region is answered as it is: nothing changes.
Resumes == fight # NoFight /\ fight.region = region /\ fight.status = "active"

\* A random encounter: one of the region's enemies, never a boss.
StartWild == ~Resumes /\ \E e \in Wild(region) : Open(e, NoNode)

\* (Fault) The node behind a locked one can be fought.
StartAnyNode(n) == /\ n[1] = region
                   /\ ~Resumes
                   /\ Open(NodeEnemy(n[1], n[2]), n)

\* A node of this region's path, up to the first one not yet beaten.
StartNode(n) == /\ n[1] = region
                /\ ~Resumes
                /\ n[2] <= progress[region]
                /\ Open(NodeEnemy(n[1], n[2]), n)
-----------------------------------------------------------------------------
\* (Fault) Every win of a node advances the path, a replay too.
AdvancedAlways(n) ==
  IF n = NoNode THEN progress ELSE [progress EXCEPT ![n[1]] = @ + 1]

\* The path after a win of node n: only the frontier moves it.
Advanced(n) ==
  IF n # NoNode /\ progress[n[1]] = n[2]
  THEN [progress EXCEPT ![n[1]] = n[2] + 1]
  ELSE progress

\* (Fault) The reward is paid but the fight is not marked as won.
VictoryUnmarked(f, h, bag) ==
  /\ f.hp = 0
  /\ fight' = f
  /\ hero' = GainXP(h, VictoryXP)
  /\ coins' = coins + VictoryCoins
  /\ items' = bag
  /\ progress' = Advanced(f.node)
  /\ UNCHANGED region

\* The enemy is down: rewards, drops and the path; the row stays as won.
Victory(f, h, bag) ==
  /\ f.hp = 0
  /\ fight' = [f EXCEPT !.status = "won"]
  /\ hero' = GainXP(h, VictoryXP)
  /\ coins' = coins + VictoryCoins
  /\ \E drops \in SUBSET {Loot, PotionDrop} :
       items' = [i \in ItemId |-> IF i \in drops THEN bag[i] + 1 ELSE bag[i]]
  /\ progress' = Advanced(f.node)
  /\ UNCHANGED region

\* The blow of a counter-attack that a shield halves, rounding half up.
Blow(counter, shield) == IF shield THEN (counter + 1) \div 2 ELSE counter

\* The counter-attack leaves the hero standing and the fight goes on.
Survive(f, h, bag, shield) ==
  /\ f.hp > 0
  /\ \E counter \in CounterBlow, bonus \in BonusRegen :
       /\ h.hp > Blow(counter, shield)
       /\ hero' = [h EXCEPT !.hp = @ - Blow(counter, shield)]
       /\ fight' = [f EXCEPT !.sp = Least(f.spMax, @ + SPRegen + bonus)]
  /\ items' = bag
  /\ UNCHANGED <<coins, region, progress>>

\* The counter-attack ends the fight: back home, with a full life.
Defeat(f, h, bag, shield) ==
  /\ f.hp > 0
  /\ \E counter \in CounterBlow : h.hp <= Blow(counter, shield)
  /\ hero' = [h EXCEPT !.hp = h.hpMax]
  /\ region' = Home /\ fight' = NoFight /\ items' = bag
  /\ UNCHANGED <<coins, progress>>

EndTurn(f, h, bag, shield) == \/ Victory(f, h, bag)
                              \/ Survive(f, h, bag, shield)
                              \/ Defeat(f, h, bag, shield)
-----------------------------------------------------------------------------
\* (Fault) A turn is played in a fight already won.
PlayableWhenWon == fight # NoFight

\* There is a fight and it is not over; its region is not looked at.
Playable == fight # NoFight /\ fight.status # "won"

\* The class of a limit command is the player's, or it is not in Command.
MayPlay(c) == /\ c.skill # "" => c.skill \in equipped
              /\ c.limit => power >= MaxPower
              /\ fight.sp >= c.cost

\* Hit: the drawn damage with the exposed weakness, then with the bonus.
Dealt(base, weak, bonus) ==
  Percent(IF weak THEN Percent(base, WeakPercent) ELSE base, 100 + bonus)

\* (Fault) A limit command refills the bar it has just emptied.
PowerRefilled(c) ==
  (IF c.limit THEN 0 ELSE power)
    + (IF c.damage = {} THEN 0 ELSE IF fight.weak THEN PerCrit ELSE PerHit)

\* The limit bar after the command: emptied by a limit, filled by a hit.
PowerAfter(c) ==
  IF c.limit THEN 0
  ELSE IF c.damage = {} THEN power
  ELSE Least(MaxPower, power + (IF fight.weak THEN PerCrit ELSE PerHit))

\* The fight after the command's cost, hit, exposure and sp gain.
Struck(c, dealt) ==
  [fight EXCEPT
     !.hp   = IF dealt < @ THEN @ - dealt ELSE 0,
     !.weak = c.exposes \/ (@ /\ c.damage = {}),
     !.sp   = Least(fight.spMax, @ - c.cost + c.spGain)]

Flee(c) == /\ Playable /\ MayPlay(c) /\ c.flee
           /\ fight' = NoFight
           /\ UNCHANGED <<hero, power, coins, region, items, progress, equipped, started>>

\* The command's damage, scaled by the level of its skill, is in c already.
Play(c) ==
  /\ Playable /\ MayPlay(c) /\ ~c.flee
  /\ \E base \in (IF c.damage = {} THEN {0} ELSE c.damage), bonus \in BonusDamage :
       LET healed == [hero EXCEPT !.hp = Least(hero.hpMax, @ + c.heal)]
       IN  EndTurn(Struck(c, Dealt(base, fight.weak, bonus)), healed, items, c.shield)
  /\ power' = PowerAfter(c)
  /\ UNCHANGED <<equipped, started>>

\* A potion instead of a command; the enemy takes its turn.
UseItem(p) ==
  /\ Playable /\ items[p.id] > 0
  /\ LET f   == [fight EXCEPT !.sp = IF p.stat = "sp" THEN Least(fight.spMax, @ + p.amount) ELSE @]
         h   == [hero EXCEPT !.hp = IF p.stat = "hp" THEN Least(hero.hpMax, @ + p.amount) ELSE @]
         bag == [items EXCEPT ![p.id] = @ - 1]
     IN  EndTurn(f, h, bag, FALSE)
  /\ UNCHANGED <<power, equipped, started>>
-----------------------------------------------------------------------------
\* To any region of the level, a fight or not.
Travel(r) == /\ hero.level >= MinLevel(r)
             /\ region' = r
             /\ UNCHANGED <<hero, power, coins, items, progress, equipped, fight, started>>

\* skills.Equip or Unequip, from another tab, at any time of a fight.
Reequip(s) == /\ equipped' = IF s \in equipped THEN equipped \ {s} ELSE equipped \cup {s}
              /\ UNCHANGED <<hero, power, coins, region, items, progress, fight, started>>

Next == \/ StartWild
        \/ \E n \in Node : StartNode(n)
        \/ \E c \in Command : Flee(c) \/ Play(c)
        \/ \E p \in Potion : UseItem(p)
        \/ \E r \in Region : Travel(r)
        \/ \E s \in Skill : Reequip(s)

Spec == Init /\ [][Next]_vars
-----------------------------------------------------------------------------
\* The types, with the ranges the turn arithmetic has to keep.
TypeOK ==
  /\ hero \in Hero /\ hero.hp \in 1 .. hero.hpMax
  /\ power \in 0 .. MaxPower
  /\ coins \in Nat /\ started \in Nat
  /\ region \in Region
  /\ items \in [ItemId -> Nat]
  /\ progress \in [Region -> Nat]
  /\ equipped \subseteq Skill
  /\ fight \in Fight \cup {NoFight}
  /\ fight # NoFight => fight.sp <= fight.spMax

\* The path is sound whatever is travelled, replayed or abandoned: a fight's
\* node is of the fight's region and was open, a beaten node is cleared, and
\* no path is cleared past its boss.
PathSound ==
  /\ \A r \in Region : progress[r] <= PathLength(r)
  /\ fight # NoFight /\ fight.node # NoNode =>
       /\ fight.node[1] = fight.region
       /\ fight.node[2] <= progress[fight.region]
       /\ fight.status = "won" => fight.node[2] < progress[fight.region]

\* A path advances one node at a time, by beating its first uncleared node.
FrontierOnly ==
  [][\A r \in Region : progress'[r] # progress[r] =>
       /\ progress'[r] = progress[r] + 1
       /\ fight.node = <<r, progress[r]>>
       /\ fight.status = "active" /\ fight'.status = "won"]_vars

\* A fight that has not paid yet, and may still be won.
Unpaid == fight # NoFight /\ fight.status = "active"
PaidPerFight == coins + (IF Unpaid THEN VictoryCoins ELSE 0) <= VictoryCoins * started

\* A fight pays at most once, the one going on has not paid yet, and xp and
\* coins come together: no retry or replayed turn collects a victory again.
PaidOnce == PaidPerFight /\ VictoryCoins * TotalXP(hero) = VictoryXP * coins

\* A fight is won exactly when its enemy is down: no fight is stuck with a
\* dead enemy, none is over with a live one.
WonIffDown == fight # NoFight => (fight.status = "won" <=> fight.hp = 0)

\* The plan's answer to "where one fights": in the player's region.  The turn
\* handler does not look at the region, so a fight goes on after a travel.
FoughtInRegion ==
  [][fight # NoFight /\ fight' # fight /\ fight' # NoFight /\ started' = started
       => fight.region = region]_vars
=============================================================================
