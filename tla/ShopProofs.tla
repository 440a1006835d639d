----------------------------- MODULE ShopProofs -----------------------------
(***************************************************************************)
(* Theorems about what a player buys: the shop and the forge, then the two *)
(* rooms, for any catalog, prices and length of play.  The ledgers hold    *)
(* because each handler changes one number of each sum by what it takes    *)
(* from the purse, the bag or the life; ShopInv and RoomsInv say what else *)
(* has to be known for that, above all that a forged piece is owned, so    *)
(* that it is never bought as well, and that a hero's life fits its level. *)
(***************************************************************************)
EXTENDS Shop, Rooms, LedgerLemmas

\* One term of a sum grows by d.
LEMMA SumRaise ==
  ASSUME NEW S, IsFiniteSet(S), NEW x \in S, NEW d \in Int,
         NEW f \in [S -> Int], NEW g \in [S -> Int],
         g[x] = f[x] + d, \A y \in S \ {x} : g[y] = f[y]
  PROVE  SumFunction(g) = SumFunction(f) + d
  <1>1. SumFunction(g) = SumFunction(f) - f[x] + g[x]
    BY SumChange
  <1>2. SumFunction(f) \in Int /\ f[x] \in Int
    BY SumInt
  <1> QED  BY <1>1, <1>2
-----------------------------------------------------------------------------
\* What the pieces in a kit give to hpMax, and all that is equipped and worn.
KitHP(k) == SumFunction([s \in GearSlot |-> HPOf(k[s])])
Bonus(s, k) == HPOf(s) + KitHP(k)

\* The stored hpMax is the level's and the bonus of what counts now.
Fits(h, bonus) == SoundHero(h) /\ h.hpMax = FirstHP + LevelHP * (h.level - 1) + bonus

\* A forged piece is owned.
ForgedIsOwned == Forged \cap Gear \subseteq gear

ShopInv == /\ TypeOK
           /\ Fits(hero, Bonus(skin, kit))
           /\ KitSound
           /\ ForgedIsOwned
           /\ MoneyLedger
           /\ MaterialsLedger

LEMMA KitHPs ==
  ASSUME NEW k \in [GearSlot -> Gear \cup {NoGear}]
  PROVE  /\ [s \in GearSlot |-> HPOf(k[s])] \in [GearSlot -> Nat]
         /\ KitHP(k) \in Nat
  <1>1. \A g \in Gear \cup {NoGear} : HPOf(g) \in Nat
    BY ShopAssumption
  <1>2. PICK f : f = [s \in GearSlot |-> HPOf(k[s])]
    OBVIOUS
  <1>3. f \in [GearSlot -> Nat]
    BY <1>1, <1>2
  <1>4. SumFunction(f) \in Nat
    BY <1>3, SumNat, ShopAssumption
  <1> QED  BY <1>2, <1>3, <1>4 DEF KitHP

\* One slot of the kit changes.
LEMMA KitHPMoves ==
  ASSUME NEW k \in [GearSlot -> Gear \cup {NoGear}], NEW t \in GearSlot,
         NEW g \in Gear \cup {NoGear}
  PROVE  KitHP([k EXCEPT ![t] = g]) = KitHP(k) + (HPOf(g) - HPOf(k[t]))
  <1>1. PICK m : m = [k EXCEPT ![t] = g]
    OBVIOUS
  <1>2. m \in [GearSlot -> Gear \cup {NoGear}]
    BY <1>1
  <1>3. PICK a : a = [s \in GearSlot |-> HPOf(k[s])]
    OBVIOUS
  <1>4. PICK b : b = [s \in GearSlot |-> HPOf(m[s])]
    OBVIOUS
  <1>5. a \in [GearSlot -> Nat] /\ b \in [GearSlot -> Nat]
    BY <1>2, <1>3, <1>4, KitHPs
  <1>6. a \in [GearSlot -> Int] /\ b \in [GearSlot -> Int]
    BY <1>5
  <1>7. \A s \in GearSlot \ {t} : b[s] = a[s]
    BY <1>1, <1>3, <1>4
  <1>8. SumFunction(b) = SumFunction(a) - a[t] + b[t]
    BY <1>6, <1>7, SumChange, ShopAssumption
  <1>9. a[t] = HPOf(k[t]) /\ b[t] = HPOf(g)
    BY <1>1, <1>3, <1>4
  <1>10. SumFunction(a) \in Int /\ a[t] \in Int /\ b[t] \in Int
    BY <1>6, SumInt, ShopAssumption
  <1>11. KitHP(k) = SumFunction(a) /\ KitHP(m) = SumFunction(b)
    BY <1>3, <1>4 DEF KitHP
  <1> QED  BY <1>1, <1>8, <1>9, <1>10, <1>11

\* A bonus that changes by delta changes the hero by delta.
LEMMA FitsAfter ==
  ASSUME NEW h, NEW old \in Nat, NEW new \in Nat, Fits(h, old)
  PROVE  Fits(ChangeHP(h, new - old), new)
  <1>0. PICK delta \in Int : delta = new - old
    OBVIOUS
  <1>1. /\ h \in Hero /\ h.hp <= h.hpMax
        /\ h.level \in Nat \ {0} /\ h.hpMax \in Int
    BY DEF Fits, SoundHero, Hero
  <1>2. PICK base \in Nat : base = LevelHP * (h.level - 1)
    <2>1. h.level - 1 \in Nat /\ LevelHP \in Nat
      BY <1>1, ProgressionAssumption
    <2> QED  BY <2>1
  <1>3. h.hpMax = FirstHP + base + old
    BY <1>2 DEF Fits
  <1>4. 1 <= h.hpMax + delta /\ h.hpMax + delta = FirstHP + base + new
    BY <1>0, <1>3, ProgressionAssumption
  <1>5. PICK g : g = ChangeHP(h, delta)
    OBVIOUS
  <1>6. /\ g \in Hero
        /\ g.hpMax = h.hpMax + delta /\ 1 <= g.hp /\ g.hp <= g.hpMax
        /\ g.level = h.level /\ g.xp = h.xp /\ g.xpMax = h.xpMax
    BY <1>1, <1>4, <1>5, ChangeHPSound
  <1>7. SoundHero(g)
    BY <1>6 DEF Fits, SoundHero
  <1> QED  BY <1>0, <1>2, <1>4, <1>5, <1>6, <1>7 DEF Fits

LEMMA PutInFits ==
  ASSUME TypeOK, Fits(hero, Bonus(skin, kit)), NEW g \in Gear, PutIn(g)
  PROVE  /\ kit' \in [GearSlot -> Gear \cup {NoGear}]
         /\ Fits(hero', Bonus(skin, kit'))
  <1>1. PICK k \in [GearSlot -> Gear \cup {NoGear}] : k = kit
    BY DEF TypeOK
  <1>2. SlotOf(g) \in GearSlot /\ kit' = [k EXCEPT ![SlotOf(g)] = g]
    BY <1>1, ShopAssumption DEF PutIn
  <1>3. PICK m \in [GearSlot -> Gear \cup {NoGear}] : m = kit'
    BY <1>2
  <1>4. KitHP(m) = KitHP(k) + (HPOf(g) - HPOf(k[SlotOf(g)]))
    BY <1>2, <1>3, KitHPMoves
  <1>5. KitHP(m) \in Nat /\ KitHP(k) \in Nat
    BY KitHPs
  <1>6. HPOf(skin) \in Nat /\ HPOf(g) \in Nat /\ HPOf(k[SlotOf(g)]) \in Nat
    BY <1>2, ShopAssumption DEF TypeOK
  <1>7. Bonus(skin, m) - Bonus(skin, k) = HPOf(g) - HPOf(k[SlotOf(g)])
    BY <1>4, <1>5, <1>6 DEF Bonus
  <1>8. Bonus(skin, m) \in Nat /\ Bonus(skin, k) \in Nat
    BY <1>5, <1>6 DEF Bonus
  <1>9. hero' = ChangeHP(hero, Bonus(skin, m) - Bonus(skin, k))
    BY <1>1, <1>7 DEF PutIn
  <1> QED  BY <1>1, <1>3, <1>8, <1>9, FitsAfter

LEMMA WearFits ==
  ASSUME TypeOK, Fits(hero, Bonus(skin, kit)), NEW s \in Skin, Wear(s)
  PROVE  Fits(hero', Bonus(s, kit))
  <1>1. HPOf(skin) \in Nat /\ HPOf(s) \in Nat /\ KitHP(kit) \in Nat
    BY KitHPs, ShopAssumption DEF TypeOK
  <1>2. /\ Bonus(s, kit) \in Nat /\ Bonus(skin, kit) \in Nat
        /\ Bonus(s, kit) - Bonus(skin, kit) = HPOf(s) - HPOf(skin)
    BY <1>1 DEF Bonus
  <1>3. hero' = ChangeHP(hero, Bonus(s, kit) - Bonus(skin, kit))
    BY <1>2 DEF Wear
  <1> QED  BY <1>2, <1>3, FitsAfter

LEMMA UnequipFits ==
  ASSUME TypeOK, Fits(hero, Bonus(skin, kit)), NEW g \in Gear, UnequipGear(g)
  PROVE  /\ kit' \in [GearSlot -> Gear \cup {NoGear}]
         /\ Fits(hero', Bonus(skin, kit'))
  <1>1. PICK k \in [GearSlot -> Gear \cup {NoGear}] : k = kit
    BY DEF TypeOK
  <1>2. SlotOf(g) \in GearSlot /\ kit' = [k EXCEPT ![SlotOf(g)] = NoGear] /\ k[SlotOf(g)] = g
    BY <1>1, ShopAssumption DEF UnequipGear
  <1>3. PICK m \in [GearSlot -> Gear \cup {NoGear}] : m = kit'
    BY <1>2
  <1>4. KitHP(m) = KitHP(k) + (HPOf(NoGear) - HPOf(g))
    <2>1. NoGear \in Gear \cup {NoGear}
      OBVIOUS
    <2>2. KitHP([k EXCEPT ![SlotOf(g)] = NoGear]) = KitHP(k) + (HPOf(NoGear) - HPOf(k[SlotOf(g)]))
      BY <1>2, <2>1, KitHPMoves
    <2> QED  BY <1>2, <1>3, <2>2
  <1>5. KitHP(m) \in Nat /\ KitHP(k) \in Nat
    BY KitHPs
  <1>6. HPOf(skin) \in Nat /\ HPOf(g) \in Nat /\ HPOf(NoGear) = 0
    BY ShopAssumption DEF TypeOK
  <1>7. Bonus(skin, m) - Bonus(skin, k) = -HPOf(g)
    BY <1>4, <1>5, <1>6 DEF Bonus
  <1>8. Bonus(skin, m) \in Nat /\ Bonus(skin, k) \in Nat
    BY <1>5, <1>6 DEF Bonus
  <1>9. hero' = ChangeHP(hero, Bonus(skin, m) - Bonus(skin, k))
    BY <1>1, <1>7 DEF UnequipGear
  <1> QED  BY <1>1, <1>3, <1>8, <1>9, FitsAfter

\* Experience and fights leave the bonus alone.
LEMMA UseFits ==
  ASSUME NEW b \in Nat, Fits(hero, b), NEW xp \in Nat
  PROVE  Fits(GainXP(hero, xp), b)
  <1>1. PICK g : g = GainXP(hero, xp)
    OBVIOUS
  <1>2. /\ SoundHero(g) /\ g.hpMax = hero.hpMax + LevelHP * (g.level - hero.level)
    BY <1>1, GainXPSound DEF Fits
  <1>3. g.level \in Int /\ hero.level \in Int /\ LevelHP \in Int /\ FirstHP \in Int /\ hero.hpMax \in Int
    BY <1>2, ProgressionAssumption DEF Fits, SoundHero, Hero
  <1>4. hero.hpMax = FirstHP + LevelHP * (hero.level - 1) + b
    BY DEF Fits
  <1>5. \A l, m, n \in Int : l * (m - 1) + l * (n - m) = l * (n - 1)
    OBVIOUS
  <1>6. \A l, m \in Int : l * m \in Int
    OBVIOUS
  <1>7. PICK p \in Int : p = LevelHP * (hero.level - 1)
    BY <1>3, <1>6
  <1>8. PICK q \in Int : q = LevelHP * (g.level - hero.level)
    BY <1>3, <1>6
  <1>9. p + q = LevelHP * (g.level - 1)
    BY <1>3, <1>5, <1>7, <1>8
  <1>10. g.hpMax = FirstHP + (p + q) + b
    BY <1>2, <1>3, <1>4, <1>7, <1>8
  <1> QED  BY <1>1, <1>2, <1>9, <1>10 DEF Fits

LEMMA DropFits ==
  ASSUME NEW b \in Nat, Fits(hero, b)
  PROVE  Fits([hero EXCEPT !.hp = 1], b)
  <1>1. SoundHero([hero EXCEPT !.hp = 1])
    BY LifeSound DEF Fits, SoundHero, Hero
  <1> QED  BY <1>1 DEF Fits, SoundHero, Hero

-----------------------------------------------------------------------------
\* What the log counts.
LEMMA Deeds ==
  /\ <<"reward", DefaultSkin>> \in Deed
  /\ \A i \in Item : <<"buy", i>> \in Deed /\ <<"drop", i>> \in Deed /\ <<"gone", i>> \in Deed
  /\ \A r \in Recipe : <<"forge", r>> \in Deed
  BY DEF Deed

LEMMA LogAdds ==
  ASSUME log \in [Deed -> Nat], NEW what, NEW x, <<what, x>> \in Deed, Log(what, x)
  PROVE  /\ log' \in [Deed -> Nat]
         /\ log'[<<what, x>>] = log[<<what, x>>] + 1
         /\ \A d \in Deed : d # <<what, x>> => log'[d] = log[d]
  BY DEF Log

\* player.Pay: no balance goes below zero, and only one changes.
LEMMA PriceTaken ==
  ASSUME purse \in [Currency -> Nat], NEW x, Pay(x),
         Price(x).currency \in Currency, Price(x).amount \in Nat
  PROVE  /\ purse' \in [Currency -> Nat]
         /\ \A c \in Currency : Worth(c, x) \in Nat /\ purse'[c] = purse[c] - Worth(c, x)
  <1>1. PICK k \in Currency : k = Price(x).currency
    OBVIOUS
  <1>2. PICK n \in Nat : n = Price(x).amount
    OBVIOUS
  <1>3. purse[k] >= n /\ purse' = [purse EXCEPT ![k] = purse[k] - n]
    BY <1>1, <1>2 DEF Pay, Afford
  <1>4. \A c \in Currency : Worth(c, x) = IF k = c THEN n ELSE 0
    BY <1>1, <1>2 DEF Worth
  <1> QED  BY <1>3, <1>4

LEMMA PayTakes ==
  ASSUME purse \in [Currency -> Nat], NEW x \in Thing, Pay(x)
  PROVE  /\ purse' \in [Currency -> Nat]
         /\ \A c \in Currency : Worth(c, x) \in Nat /\ purse'[c] = purse[c] - Worth(c, x)
  BY PriceTaken, ShopAssumption

LEMMA Worths ==
  ASSUME NEW c \in Currency, NEW x \in Thing
  PROVE  Worth(c, x) \in Nat
  BY ShopAssumption DEF Worth

ItemCost(c, l) == SumFunction([i \in Item |-> Worth(c, i) * l[<<"buy", i>>]])
ForgeCost(c, l) == SumFunction([r \in Recipe |-> Worth(c, r) * l[<<"forge", r>>]])
SetCost(c, S) == SumFunction([x \in S |-> Worth(c, x)])

\* A purchase counted adds its price.
LEMMA BuyCounts ==
  ASSUME NEW c \in Currency, NEW l \in [Deed -> Nat], NEW m \in [Deed -> Nat], NEW x \in Item,
         m[<<"buy", x>>] = l[<<"buy", x>>] + 1,
         \A d \in Deed : d # <<"buy", x>> => m[d] = l[d]
  PROVE  ItemCost(c, m) = ItemCost(c, l) + Worth(c, x)
  <1>1. \A y \in Item : <<"buy", y>> \in Deed /\ Worth(c, y) \in Nat
    BY Deeds, Worths DEF Thing
  <1>2. PICK f : f = [y \in Item |-> Worth(c, y) * l[<<"buy", y>>]]
    OBVIOUS
  <1>3. PICK g : g = [y \in Item |-> Worth(c, y) * m[<<"buy", y>>]]
    OBVIOUS
  <1>4. f \in [Item -> Int] /\ g \in [Item -> Int]
    <2>1. \A p, q \in Nat : p * q \in Int
      OBVIOUS
    <2>2. \A y \in Item : l[<<"buy", y>>] \in Nat /\ m[<<"buy", y>>] \in Nat
      BY <1>1
    <2>3. \A y \in Item : f[y] \in Int /\ g[y] \in Int
      BY ONLY <1>1, <1>2, <1>3, <2>1, <2>2
    <2> QED  BY ONLY <1>2, <1>3, <2>3
  <1>5. g[x] = f[x] + Worth(c, x)
    <2>1. \A p, q \in Nat : p * (q + 1) = p * q + p
      OBVIOUS
    <2>2. l[<<"buy", x>>] \in Nat /\ Worth(c, x) \in Nat
      BY <1>1
    <2>3. Worth(c, x) * m[<<"buy", x>>] = Worth(c, x) * l[<<"buy", x>>] + Worth(c, x)
      BY <2>1, <2>2
    <2> QED  BY <1>2, <1>3, <2>3
  <1>6. \A y \in Item \ {x} : g[y] = f[y]
    BY <1>1, <1>2, <1>3
  <1>7. SumFunction(g) = SumFunction(f) + Worth(c, x)
    <2>1. IsFiniteSet(Item) /\ x \in Item /\ Worth(c, x) \in Int
      BY <1>1, ShopAssumption
    <2> QED  BY ONLY <1>4, <1>5, <1>6, <2>1, SumRaise
  <1> QED  BY <1>2, <1>3, <1>7 DEF ItemCost

\* So does a forging counted.
LEMMA ForgeCounts ==
  ASSUME NEW c \in Currency, NEW l \in [Deed -> Nat], NEW m \in [Deed -> Nat], NEW x \in Recipe,
         m[<<"forge", x>>] = l[<<"forge", x>>] + 1,
         \A d \in Deed : d # <<"forge", x>> => m[d] = l[d]
  PROVE  ForgeCost(c, m) = ForgeCost(c, l) + Worth(c, x)
  <1>1. \A y \in Recipe : <<"forge", y>> \in Deed /\ Worth(c, y) \in Nat
    BY Deeds, Worths DEF Thing
  <1>2. PICK f : f = [y \in Recipe |-> Worth(c, y) * l[<<"forge", y>>]]
    OBVIOUS
  <1>3. PICK g : g = [y \in Recipe |-> Worth(c, y) * m[<<"forge", y>>]]
    OBVIOUS
  <1>4. f \in [Recipe -> Int] /\ g \in [Recipe -> Int]
    <2>1. \A p, q \in Nat : p * q \in Int
      OBVIOUS
    <2>2. \A y \in Recipe : l[<<"forge", y>>] \in Nat /\ m[<<"forge", y>>] \in Nat
      BY <1>1
    <2>3. \A y \in Recipe : f[y] \in Int /\ g[y] \in Int
      BY ONLY <1>1, <1>2, <1>3, <2>1, <2>2
    <2> QED  BY ONLY <1>2, <1>3, <2>3
  <1>5. g[x] = f[x] + Worth(c, x)
    <2>1. \A p, q \in Nat : p * (q + 1) = p * q + p
      OBVIOUS
    <2>2. l[<<"forge", x>>] \in Nat /\ Worth(c, x) \in Nat
      BY <1>1
    <2>3. Worth(c, x) * m[<<"forge", x>>] = Worth(c, x) * l[<<"forge", x>>] + Worth(c, x)
      BY <2>1, <2>2
    <2> QED  BY <1>2, <1>3, <2>3
  <1>6. \A y \in Recipe \ {x} : g[y] = f[y]
    BY <1>1, <1>2, <1>3
  <1>7. SumFunction(g) = SumFunction(f) + Worth(c, x)
    <2>1. IsFiniteSet(Recipe) /\ x \in Recipe /\ Worth(c, x) \in Int
      BY <1>1, ShopAssumption
    <2> QED  BY ONLY <1>4, <1>5, <1>6, <2>1, SumRaise
  <1> QED  BY <1>2, <1>3, <1>7 DEF ForgeCost

\* What is not counted costs what it did.
LEMMA SameCosts ==
  ASSUME NEW c, NEW l, NEW m
  PROVE  /\ (\A i \in Item : m[<<"buy", i>>] = l[<<"buy", i>>]) => ItemCost(c, m) = ItemCost(c, l)
         /\ (\A r \in Recipe : m[<<"forge", r>>] = l[<<"forge", r>>]) => ForgeCost(c, m) = ForgeCost(c, l)
  <1>1. ASSUME \A i \in Item : m[<<"buy", i>>] = l[<<"buy", i>>] PROVE ItemCost(c, m) = ItemCost(c, l)
    <2>1. [i \in Item |-> Worth(c, i) * m[<<"buy", i>>]] = [i \in Item |-> Worth(c, i) * l[<<"buy", i>>]]
      BY <1>1
    <2> QED  BY <2>1 DEF ItemCost
  <1>2. ASSUME \A r \in Recipe : m[<<"forge", r>>] = l[<<"forge", r>>] PROVE ForgeCost(c, m) = ForgeCost(c, l)
    <2>1. [r \in Recipe |-> Worth(c, r) * m[<<"forge", r>>]] = [r \in Recipe |-> Worth(c, r) * l[<<"forge", r>>]]
      BY <1>2
    <2> QED  BY <2>1 DEF ForgeCost
  <1> QED  BY <1>1, <1>2

LEMMA CostsAre ==
  ASSUME NEW c \in Currency, NEW l \in [Deed -> Nat]
  PROVE  ItemCost(c, l) \in Int /\ ForgeCost(c, l) \in Int
  <1>0. \A m, n \in Nat : m * n \in Int
    OBVIOUS
  <1>1. PICK f : f = [i \in Item |-> Worth(c, i) * l[<<"buy", i>>]]
    OBVIOUS
  <1>2. PICK g : g = [r \in Recipe |-> Worth(c, r) * l[<<"forge", r>>]]
    OBVIOUS
  <1>3. \A i \in Item : Worth(c, i) \in Nat /\ l[<<"buy", i>>] \in Nat
    BY Worths, Deeds DEF Thing
  <1>4. \A r \in Recipe : Worth(c, r) \in Nat /\ l[<<"forge", r>>] \in Nat
    BY Worths, Deeds DEF Thing
  <1>5. f \in [Item -> Int]
    BY <1>0, <1>1, <1>3
  <1>6. g \in [Recipe -> Int]
    BY <1>0, <1>2, <1>4
  <1>7. SumFunction(f) \in Int
    BY <1>5, SumInt, ShopAssumption
  <1>8. SumFunction(g) \in Int
    BY <1>6, SumInt, ShopAssumption
  <1> QED  BY <1>1, <1>2, <1>7, <1>8 DEF ItemCost, ForgeCost

\* One thing more in a set of things owned.
LEMMA SetCosts ==
  ASSUME NEW c \in Currency, NEW S, IsFiniteSet(S), S \subseteq Thing
  PROVE  /\ SetCost(c, S) \in Int
         /\ \A x \in Thing \ S : SetCost(c, S \cup {x}) = SetCost(c, S) + Worth(c, x)
  <1>1. PICK f : f = [x \in S |-> Worth(c, x)]
    OBVIOUS
  <1>2. f \in [S -> Int]
    BY <1>1, Worths
  <1>3. SetCost(c, S) = SumFunction(f) /\ SumFunction(f) \in Int
    BY <1>1, <1>2, SumInt DEF SetCost
  <1>4. ASSUME NEW x \in Thing \ S PROVE SetCost(c, S \cup {x}) = SetCost(c, S) + Worth(c, x)
    <2>1. PICK g : g = [y \in S \cup {x} |-> Worth(c, y)]
      OBVIOUS
    <2>2. g \in [S \cup {x} -> Int]
      BY <2>1, Worths
    <2>3. \A y \in S : g[y] = f[y]
      BY <1>1, <2>1
    <2>4. SumFunction(g) = SumFunction(f) + g[x]
      BY <1>2, <2>2, <2>3, SumAdd
    <2> QED  BY <1>3, <2>1, <2>4 DEF SetCost
  <1> QED  BY <1>3, <1>4

-----------------------------------------------------------------------------
\* The two ledgers of the shop, read at one currency and at one item.
Paid == gear \ Forged

MoneyAt(c, p, l, G, S) ==
  /\ p[c] >= 0
  /\ Reward[c] * l[<<"reward", DefaultSkin>>]
       = p[c] + ItemCost(c, l) + ForgeCost(c, l) + SetCost(c, G) + SetCost(c, S)

LEMMA MoneyIs ==
  MoneyLedger <=> \A c \in Currency : MoneyAt(c, purse, log, Paid, skins \ {DefaultSkin})
  BY DEF MoneyLedger, MoneyAt, ItemCost, ForgeCost, SetCost, Paid

MadeOf(i, l) == SumFunction([r \in Recipe |-> IF Output(r) = i THEN l[<<"forge", r>>] ELSE 0])
TakenOf(i, l) == SumFunction([r \in Recipe |-> Need(r, i) * l[<<"forge", r>>]])

MaterialAt(i, bag, l) ==
  /\ bag[i] >= 0
  /\ StartItems[i] + l[<<"buy", i>>] + l[<<"drop", i>>] + MadeOf(i, l)
       = bag[i] + l[<<"gone", i>>] + TakenOf(i, l)

LEMMA MaterialsAre ==
  MaterialsLedger <=> \A i \in Item : MaterialAt(i, items, log)
  BY DEF MaterialsLedger, MaterialAt, MadeOf, TakenOf, Made

-----------------------------------------------------------------------------
LEMMA ShopInit == Init => ShopInv
  <1> SUFFICES ASSUME Init PROVE ShopInv
    OBVIOUS
  <1>0. \A n \in Nat : n * 0 = 0
    OBVIOUS
  <1>1. TypeOK
    BY NewHeroSound, ShopAssumption DEF Init, TypeOK, SoundHero
  <1>2. PICK f : f = [s \in GearSlot |-> HPOf(NoGear)]
    OBVIOUS
  <1>3. f \in [GearSlot -> Int] /\ \A s \in GearSlot : f[s] = 0
    BY <1>2, ShopAssumption
  <1>4. SumFunction(f) = 0
    BY <1>3, SumZero, ShopAssumption
  <1>5. KitHP(kit) = 0 /\ HPOf(skin) = 0
    <2>1. [s \in GearSlot |-> HPOf(kit[s])] = f
      BY <1>2 DEF Init
    <2> QED  BY <1>4, <2>1, ShopAssumption DEF KitHP, Init
  <1>6. Fits(hero, Bonus(skin, kit))
    BY <1>5, NewHeroSound, ProgressionAssumption DEF Init, Fits, Bonus, NewHero, SoundHero
  <1>7. KitSound /\ ForgedIsOwned
    <2>1. \A s \in GearSlot : kit[s] = NoGear
      BY DEF Init
    <2>2. \A r \in Recipe : ~(log[<<"forge", r>>] > 0)
      <3>1. \A r \in Recipe : log[<<"forge", r>>] = 0
        BY Deeds DEF Init
      <3>2. ~(0 > 0)
        OBVIOUS
      <3> QED  BY ONLY <3>1, <3>2
    <2>3. {q \in Recipe : log[<<"forge", q>>] > 0} = {}
      BY ONLY <2>2
    <2>4. Forged = {}
      BY <2>3 DEF Forged
    <2>5. skin \in skins
      BY DEF Init
    <2> QED  BY <2>1, <2>4, <2>5 DEF KitSound, ForgedIsOwned
  <1>8. MoneyLedger
    <2> SUFFICES ASSUME NEW c \in Currency
                 PROVE  MoneyAt(c, purse, log, Paid, skins \ {DefaultSkin})
      BY MoneyIs
    <2>1. \A d \in Deed : log[d] = 0
      BY DEF Init
    <2>2. ItemCost(c, log) = 0
      <3>1. PICK g : g = [i \in Item |-> Worth(c, i) * log[<<"buy", i>>]]
        OBVIOUS
      <3>2. \A i \in Item : Worth(c, i) \in Nat /\ log[<<"buy", i>>] = 0
        BY <2>1, Deeds, Worths DEF Thing
      <3>3. \A i \in Item : g[i] = 0
        BY <1>0, <3>1, <3>2
      <3>4. g \in [Item -> Int]
        BY ONLY <3>1, <3>3
      <3> QED  BY <3>1, <3>3, <3>4, SumZero, ShopAssumption DEF ItemCost
    <2>3. ForgeCost(c, log) = 0
      <3>1. PICK g : g = [r \in Recipe |-> Worth(c, r) * log[<<"forge", r>>]]
        OBVIOUS
      <3>2. \A r \in Recipe : Worth(c, r) \in Nat /\ log[<<"forge", r>>] = 0
        BY <2>1, Deeds, Worths DEF Thing
      <3>3. \A r \in Recipe : g[r] = 0
        BY <1>0, <3>1, <3>2
      <3>4. g \in [Recipe -> Int]
        BY ONLY <3>1, <3>3
      <3> QED  BY <3>1, <3>3, <3>4, SumZero, ShopAssumption DEF ForgeCost
    <2>4. SetCost(c, {}) = 0
      <3>1. PICK g : g = [x \in {} |-> Worth(c, x)]
        OBVIOUS
      <3>2. g \in [{} -> Int]
        BY <3>1
      <3> QED  BY <3>1, <3>2, SumEmpty DEF SetCost
    <2>5. Paid = {} /\ skins \ {DefaultSkin} = {}
      BY DEF Init, Paid
    <2>6. purse[c] = 0 /\ log[<<"reward", DefaultSkin>>] = 0 /\ Reward[c] \in Nat
      BY <2>1, Deeds, ShopAssumption DEF Init
    <2>7. Reward[c] * log[<<"reward", DefaultSkin>>] = 0
      BY <1>0, <2>6
    <2> QED  BY <2>2, <2>3, <2>4, <2>5, <2>6, <2>7 DEF MoneyAt
  <1>9. MaterialsLedger
    <2> SUFFICES ASSUME NEW i \in Item PROVE MaterialAt(i, items, log)
      BY MaterialsAre
    <2>1. \A d \in Deed : log[d] = 0
      BY DEF Init
    <2>2. MadeOf(i, log) = 0
      <3>1. PICK g : g = [r \in Recipe |-> IF Output(r) = i THEN log[<<"forge", r>>] ELSE 0]
        OBVIOUS
      <3>2. g \in [Recipe -> Int] /\ \A r \in Recipe : g[r] = 0
        BY <2>1, <3>1, Deeds
      <3> QED  BY <3>1, <3>2, SumZero, ShopAssumption DEF MadeOf
    <2>3. TakenOf(i, log) = 0
      <3>1. PICK g : g = [r \in Recipe |-> Need(r, i) * log[<<"forge", r>>]]
        OBVIOUS
      <3>2. \A r \in Recipe : Need(r, i) \in Nat /\ log[<<"forge", r>>] = 0
        BY <2>1, Deeds, ShopAssumption
      <3>3. \A r \in Recipe : g[r] = 0
        BY <1>0, <3>1, <3>2
      <3>4. g \in [Recipe -> Int]
        BY ONLY <3>1, <3>3
      <3> QED  BY <3>1, <3>3, <3>4, SumZero, ShopAssumption DEF TakenOf
    <2>4. items[i] = StartItems[i] /\ StartItems[i] \in Nat
      BY ShopAssumption DEF Init
    <2>5. log[<<"buy", i>>] = 0 /\ log[<<"drop", i>>] = 0 /\ log[<<"gone", i>>] = 0
      BY <2>1, Deeds
    <2> QED  BY <2>2, <2>3, <2>4, <2>5 DEF MaterialAt
  <1> QED  BY <1>1, <1>6, <1>7, <1>8, <1>9 DEF ShopInv

-----------------------------------------------------------------------------
LEMMA ShopTypeNext ==
  ASSUME ShopInv, Next
  PROVE  TypeOK' /\ Fits(hero', Bonus(skin', kit'))
  <1> DEFINE Goal == TypeOK' /\ Fits(hero', Bonus(skin', kit'))
  <1> USE DEF ShopInv
  <1>0. /\ TypeOK /\ Fits(hero, Bonus(skin, kit)) /\ Bonus(skin, kit) \in Nat
        /\ purse \in [Currency -> Nat] /\ log \in [Deed -> Nat]
    <2>1. TypeOK
      OBVIOUS
    <2>2. HPOf(skin) \in Nat /\ KitHP(kit) \in Nat
      BY <2>1, KitHPs, ShopAssumption DEF TypeOK
    <2> QED  BY <2>1, <2>2 DEF Bonus, TypeOK
  <1>1. ASSUME NEW i \in Item, BuyItem(i) PROVE Goal
    <2>1. i \in Thing /\ <<"buy", i>> \in Deed
      BY Deeds DEF Thing
    <2>2. purse' \in [Currency -> Nat] /\ log' \in [Deed -> Nat]
      BY <1>0, <1>1, <2>1, PayTakes, LogAdds DEF BuyItem
    <2>3. items' \in [Item -> Nat]
      BY <1>0, <1>1 DEF BuyItem, TypeOK
    <2> QED  BY <1>0, <1>1, <2>2, <2>3 DEF BuyItem, TypeOK
  <1>2. ASSUME NEW i \in Item, Use(i) PROVE Goal
    <2>1. <<"gone", i>> \in Deed /\ XPOf(i) \in Nat
      BY Deeds, ShopAssumption
    <2>2. log' \in [Deed -> Nat]
      BY <1>0, <1>2, <2>1, LogAdds DEF Use
    <2>3. items' \in [Item -> Nat]
      BY <1>0, <1>2 DEF Use, TypeOK
    <2>4. Fits(hero', Bonus(skin, kit))
      BY <1>0, <1>2, <2>1, UseFits DEF Use
    <2> QED  BY <1>0, <1>2, <2>2, <2>3, <2>4 DEF Use, TypeOK, Fits, SoundHero
  <1>3. ASSUME NEW i \in Item, Discard(i) PROVE Goal
    <2>1. <<"gone", i>> \in Deed
      BY Deeds
    <2>2. log' \in [Deed -> Nat]
      BY <1>0, <1>3, <2>1, LogAdds DEF Discard
    <2>3. items' \in [Item -> Nat]
      BY <1>0, <1>3 DEF Discard, TypeOK
    <2> QED  BY <1>0, <1>3, <2>2, <2>3 DEF Discard, TypeOK
  <1>4. ASSUME NEW i \in Item, Drop(i) PROVE Goal
    <2>1. <<"drop", i>> \in Deed
      BY Deeds
    <2>2. log' \in [Deed -> Nat]
      BY <1>0, <1>4, <2>1, LogAdds DEF Drop
    <2>3. items' \in [Item -> Nat]
      BY <1>0, <1>4 DEF Drop, TypeOK
    <2>4. Fits(hero', Bonus(skin, kit))
      BY <1>0, <1>4, DropFits DEF Drop
    <2> QED  BY <1>0, <1>4, <2>2, <2>3, <2>4 DEF Drop, TypeOK, Fits, SoundHero
  <1>5. ASSUME NEW g \in Gear, BuyGear(g) PROVE Goal
    <2>1. g \in Thing
      BY DEF Thing
    <2>2. purse' \in [Currency -> Nat]
      BY <1>0, <1>5, <2>1, PayTakes DEF BuyGear
    <2>3. kit' \in [GearSlot -> Gear \cup {NoGear}] /\ Fits(hero', Bonus(skin, kit'))
      BY <1>0, <1>5, PutInFits DEF BuyGear
    <2> QED  BY <1>0, <1>5, <2>2, <2>3 DEF BuyGear, TypeOK, Fits, SoundHero
  <1>6. ASSUME NEW g \in Gear, EquipGear(g) PROVE Goal
    <2>1. kit' \in [GearSlot -> Gear \cup {NoGear}] /\ Fits(hero', Bonus(skin, kit'))
      BY <1>0, <1>6, PutInFits DEF EquipGear
    <2> QED  BY <1>0, <1>6, <2>1 DEF EquipGear, TypeOK, Fits, SoundHero
  <1>7. ASSUME NEW g \in Gear, UnequipGear(g) PROVE Goal
    <2>1. kit' \in [GearSlot -> Gear \cup {NoGear}] /\ Fits(hero', Bonus(skin, kit'))
      BY <1>0, <1>7, UnequipFits
    <2> QED  BY <1>0, <1>7, <2>1 DEF UnequipGear, TypeOK, Fits, SoundHero
  <1>8. ASSUME NEW s \in Skin, BuySkin(s) PROVE Goal
    <2>1. s \in Thing
      BY DEF Thing
    <2>2. purse' \in [Currency -> Nat]
      BY <1>0, <1>8, <2>1, PayTakes DEF BuySkin
    <2>3. Fits(hero', Bonus(s, kit)) /\ skin' = s
      BY <1>0, <1>8, WearFits DEF BuySkin, Wear
    <2> QED  BY <1>0, <1>8, <2>2, <2>3 DEF BuySkin, TypeOK, Fits, SoundHero
  <1>9. ASSUME NEW s \in Skin, EquipSkin(s) PROVE Goal
    <2>1. Fits(hero', Bonus(s, kit)) /\ skin' = s
      BY <1>0, <1>9, WearFits DEF EquipSkin, Wear
    <2> QED  BY <1>0, <1>9, <2>1 DEF EquipSkin, TypeOK, Fits, SoundHero
  <1>10. ASSUME NEW r \in Recipe, Forge(r) PROVE Goal
    <2>1. r \in Thing /\ <<"forge", r>> \in Deed
      BY Deeds DEF Thing
    <2>2. purse' \in [Currency -> Nat] /\ log' \in [Deed -> Nat]
      BY <1>0, <1>10, <2>1, PayTakes, LogAdds DEF Forge
    <2>3. items' \in [Item -> Nat]
      <3>1. \A i \in Item : items[i] \in Nat /\ Need(r, i) \in Nat /\ items[i] >= Need(r, i)
        BY <1>0, <1>10, ShopAssumption DEF Forge, CanForge, TypeOK
      <3>2. \A i \in Item : items[i] - Need(r, i) + (IF i = Output(r) THEN 1 ELSE 0) \in Nat
        BY <3>1
      <3> QED  BY <1>10, <3>2 DEF Forge
    <2>4. CASE Output(r) \in Gear
      <3>1. gear' \in SUBSET Gear
        BY <1>0, <1>10, <2>4 DEF Forge, TypeOK
      <3>2. kit' \in [GearSlot -> Gear \cup {NoGear}] /\ Fits(hero', Bonus(skin, kit'))
        BY <1>0, <1>10, <2>4, PutInFits DEF Forge
      <3> QED  BY <1>0, <1>10, <2>2, <2>3, <3>1, <3>2 DEF Forge, TypeOK, Fits, SoundHero
    <2>5. CASE Output(r) \notin Gear
      BY <1>0, <1>10, <2>2, <2>3, <2>5 DEF Forge, TypeOK
    <2> QED  BY <2>4, <2>5
  <1>11. ASSUME Earn PROVE Goal
    <2>1. purse' \in [Currency -> Nat]
      BY <1>0, <1>11, ShopAssumption DEF Earn
    <2>2. log' \in [Deed -> Nat]
      BY <1>0, <1>11, Deeds, LogAdds DEF Earn
    <2> QED  BY <1>0, <1>11, <2>1, <2>2 DEF Earn, TypeOK
  <1> QED  BY <1>1, <1>2, <1>3, <1>4, <1>5, <1>6, <1>7, <1>8, <1>9, <1>10, <1>11 DEF Next

\* A forging adds one output to what was forged.
LEMMA ForgeAdds ==
  ASSUME log \in [Deed -> Nat], NEW r \in Recipe, Forge(r)
  PROVE  Forged' = Forged \cup {Output(r)}
  <1>1. /\ log'[<<"forge", r>>] = log[<<"forge", r>>] + 1
        /\ \A d \in Deed : d # <<"forge", r>> => log'[d] = log[d]
    BY Deeds, LogAdds DEF Forge
  <1>2. \A q \in Recipe : log[<<"forge", q>>] \in Nat
    BY Deeds
  <1>3. log'[<<"forge", r>>] > 0
    BY <1>1, <1>2
  <1>4. \A q \in Recipe \ {r} : log'[<<"forge", q>>] = log[<<"forge", q>>]
    BY <1>1, Deeds
  <1>5. {q \in Recipe : log'[<<"forge", q>>] > 0} = {q \in Recipe : log[<<"forge", q>>] > 0} \cup {r}
    BY <1>3, <1>4
  <1> QED  BY <1>5 DEF Forged

\* A piece in a slot is owned, and so is one that was forged.
LEMMA KitNext ==
  ASSUME ShopInv, Next
  PROVE  KitSound' /\ ForgedIsOwned'
  <1> DEFINE Goal == KitSound' /\ ForgedIsOwned'
  <1>0. /\ TypeOK /\ KitSound /\ ForgedIsOwned
        /\ log \in [Deed -> Nat] /\ gear \subseteq Gear /\ NoGear \notin Gear
        /\ kit \in [GearSlot -> Gear \cup {NoGear}]
        /\ \A g \in Gear : SlotOf(g) \in GearSlot
    BY ShopAssumption DEF ShopInv, TypeOK
  <1>a. ASSUME NEW what, NEW x, <<what, x>> \in Deed, what # "forge", Log(what, x)
        PROVE  Forged' = Forged
    <2>1. \A d \in Deed : d # <<what, x>> => log'[d] = log[d]
      BY <1>0, <1>a, LogAdds
    <2>2. \A q \in Recipe : log'[<<"forge", q>>] = log[<<"forge", q>>]
      BY <1>a, <2>1, Deeds
    <2> QED  BY <2>2 DEF Forged
  <1>b. ASSUME NEW g \in Gear, PutIn(g), g \in gear', gear \subseteq gear',
               UNCHANGED <<skins, skin>>
        PROVE  KitSound'
    <2>1. \A s \in GearSlot : kit'[s] = IF s = SlotOf(g) THEN g ELSE kit[s]
      BY <1>0, <1>b DEF PutIn
    <2> QED  BY <1>0, <1>b, <2>1 DEF KitSound
  <1>1. ASSUME NEW i \in Item, BuyItem(i) PROVE Goal
    <2>1. Forged' = Forged
      BY <1>1, <1>a, Deeds DEF BuyItem
    <2> QED  BY <1>0, <1>1, <2>1 DEF BuyItem, KitSound, ForgedIsOwned
  <1>2. ASSUME NEW i \in Item, Use(i) PROVE Goal
    <2>1. Forged' = Forged
      BY <1>2, <1>a, Deeds DEF Use
    <2> QED  BY <1>0, <1>2, <2>1 DEF Use, KitSound, ForgedIsOwned
  <1>3. ASSUME NEW i \in Item, Discard(i) PROVE Goal
    <2>1. Forged' = Forged
      BY <1>3, <1>a, Deeds DEF Discard
    <2> QED  BY <1>0, <1>3, <2>1 DEF Discard, KitSound, ForgedIsOwned
  <1>4. ASSUME NEW i \in Item, Drop(i) PROVE Goal
    <2>1. Forged' = Forged
      BY <1>4, <1>a, Deeds DEF Drop
    <2> QED  BY <1>0, <1>4, <2>1 DEF Drop, KitSound, ForgedIsOwned
  <1>5. ASSUME NEW g \in Gear, BuyGear(g) PROVE Goal
    <2>1. KitSound'
      BY <1>5, <1>b DEF BuyGear
    <2>2. Forged' = Forged
      BY <1>5 DEF BuyGear, Forged
    <2> QED  BY <1>0, <1>5, <2>1, <2>2 DEF BuyGear, ForgedIsOwned
  <1>6. ASSUME NEW g \in Gear, EquipGear(g) PROVE Goal
    <2>1. KitSound'
      BY <1>6, <1>b DEF EquipGear
    <2>2. Forged' = Forged
      BY <1>6 DEF EquipGear, Forged
    <2> QED  BY <1>0, <1>6, <2>1, <2>2 DEF EquipGear, ForgedIsOwned
  <1>7. ASSUME NEW g \in Gear, UnequipGear(g) PROVE Goal
    <2>1. \A s \in GearSlot : kit'[s] = IF s = SlotOf(g) THEN NoGear ELSE kit[s]
      BY <1>0, <1>7 DEF UnequipGear
    <2>2. KitSound'
      BY <1>0, <1>7, <2>1 DEF UnequipGear, KitSound
    <2>3. Forged' = Forged
      BY <1>7 DEF UnequipGear, Forged
    <2> QED  BY <1>0, <1>7, <2>2, <2>3 DEF UnequipGear, ForgedIsOwned
  <1>8. ASSUME NEW s \in Skin, BuySkin(s) PROVE Goal
    <2>1. Forged' = Forged
      BY <1>8 DEF BuySkin, Forged
    <2> QED  BY <1>0, <1>8, <2>1 DEF BuySkin, Wear, KitSound, ForgedIsOwned
  <1>9. ASSUME NEW s \in Skin, EquipSkin(s) PROVE Goal
    <2>1. Forged' = Forged
      BY <1>9 DEF EquipSkin, Forged
    <2> QED  BY <1>0, <1>9, <2>1 DEF EquipSkin, Wear, KitSound, ForgedIsOwned
  <1>10. ASSUME NEW r \in Recipe, Forge(r) PROVE Goal
    <2>1. Forged' = Forged \cup {Output(r)}
      BY <1>0, <1>10, ForgeAdds
    <2>2. CASE Output(r) \in Gear
      <3>1. gear' = gear \cup {Output(r)} /\ PutIn(Output(r))
        BY <1>10, <2>2 DEF Forge
      <3>2. KitSound'
        BY <1>10, <1>b, <2>2, <3>1 DEF Forge
      <3> QED  BY <1>0, <2>1, <3>1, <3>2 DEF ForgedIsOwned
    <2>3. CASE Output(r) \notin Gear
      BY <1>0, <1>10, <2>1, <2>3 DEF Forge, KitSound, ForgedIsOwned
    <2> QED  BY <2>2, <2>3
  <1>11. ASSUME Earn PROVE Goal
    <2>1. Forged' = Forged
      BY <1>11, <1>a, Deeds DEF Earn
    <2> QED  BY <1>0, <1>11, <2>1 DEF Earn, KitSound, ForgedIsOwned
  <1> QED  BY <1>1, <1>2, <1>3, <1>4, <1>5, <1>6, <1>7, <1>8, <1>9, <1>10, <1>11 DEF Next

\* What a step adds to the sums of a currency it takes from the purse.
LEMMA MoneyNext ==
  ASSUME ShopInv, Next
  PROVE  MoneyLedger'
  <1> DEFINE Looks == skins \ {DefaultSkin}
  <1>0. /\ TypeOK /\ ForgedIsOwned
        /\ purse \in [Currency -> Nat] /\ log \in [Deed -> Nat]
        /\ gear \subseteq Gear /\ skins \subseteq Skin
    BY DEF ShopInv, TypeOK
  <1>t. purse' \in [Currency -> Nat] /\ log' \in [Deed -> Nat]
    BY ShopTypeNext DEF TypeOK
  <1>d. <<"reward", DefaultSkin>> \in Deed
    BY Deeds
  <1> SUFFICES ASSUME NEW c \in Currency
               PROVE  MoneyAt(c, purse', log', Paid', Looks')
    BY DEF MoneyLedger, MoneyAt, ItemCost, ForgeCost, SetCost, Paid
  <1> DEFINE Goal == MoneyAt(c, purse', log', Paid', Looks')
  <1>m. MoneyAt(c, purse, log, Paid, Looks)
    BY MoneyIs DEF ShopInv
  <1>f. IsFiniteSet(Paid) /\ Paid \subseteq Thing /\ IsFiniteSet(Looks) /\ Looks \subseteq Thing
    BY <1>0, FS_Subset, ShopAssumption DEF Paid, Thing
  <1>i. /\ ItemCost(c, log) \in Int /\ ForgeCost(c, log) \in Int
        /\ SetCost(c, Paid) \in Int /\ SetCost(c, Looks) \in Int
    BY <1>0, <1>f, CostsAre, SetCosts
  <1>p. purse[c] \in Nat /\ purse'[c] \in Nat
    BY <1>0, <1>t
  <1> HIDE DEF Looks
  \* A deed that costs nothing: used, thrown away, dropped.
  <1>a. ASSUME NEW what \in {"gone", "drop"}, NEW x \in Item, Log(what, x), purse' = purse,
               Paid' = Paid, Looks' = Looks
        PROVE  Goal
    <2>1. <<what, x>> \in Deed
      BY Deeds
    <2>2. \A d \in Deed : d # <<what, x>> => log'[d] = log[d]
      BY <1>0, <1>a, <2>1, LogAdds
    <2>3. /\ \A i \in Item : log'[<<"buy", i>>] = log[<<"buy", i>>]
          /\ \A r \in Recipe : log'[<<"forge", r>>] = log[<<"forge", r>>]
          /\ log'[<<"reward", DefaultSkin>>] = log[<<"reward", DefaultSkin>>]
      BY <2>2, Deeds
    <2>4. ItemCost(c, log') = ItemCost(c, log) /\ ForgeCost(c, log') = ForgeCost(c, log)
      BY <2>3, SameCosts
    <2> QED  BY <1>a, <1>m, <2>3, <2>4 DEF MoneyAt
  <1>b. ASSUME NEW what, NEW x, <<what, x>> \in Deed, what # "forge", Log(what, x), gear' = gear
        PROVE  Paid' = Paid
    <2>1. \A d \in Deed : d # <<what, x>> => log'[d] = log[d]
      BY <1>0, <1>b, LogAdds
    <2>2. \A q \in Recipe : log'[<<"forge", q>>] = log[<<"forge", q>>]
      BY <1>b, <2>1, Deeds
    <2> QED  BY <1>b, <2>2 DEF Paid, Forged
  <1>1. ASSUME NEW i \in Item, BuyItem(i) PROVE Goal
    <2>1. i \in Thing /\ <<"buy", i>> \in Deed
      BY Deeds DEF Thing
    <2>2. /\ log'[<<"buy", i>>] = log[<<"buy", i>>] + 1
          /\ \A d \in Deed : d # <<"buy", i>> => log'[d] = log[d]
      BY <1>0, <1>1, <2>1, LogAdds DEF BuyItem
    <2>3. ItemCost(c, log') = ItemCost(c, log) + Worth(c, i)
      BY <1>0, <1>t, <2>2, BuyCounts
    <2>4. ForgeCost(c, log') = ForgeCost(c, log)
      BY <2>2, Deeds, SameCosts
    <2>5. log'[<<"reward", DefaultSkin>>] = log[<<"reward", DefaultSkin>>]
      BY <2>2, <1>d
    <2>6. Paid' = Paid /\ Looks' = Looks
      BY <1>1, <1>b, <2>1 DEF BuyItem, Looks
    <2>7. Worth(c, i) \in Nat /\ purse'[c] = purse[c] - Worth(c, i)
      BY <1>0, <1>1, <2>1, PayTakes DEF BuyItem
    <2> QED  BY <1>i, <1>m, <1>p, <2>3, <2>4, <2>5, <2>6, <2>7 DEF MoneyAt
  <1>2. ASSUME NEW i \in Item, Use(i) PROVE Goal
    BY <1>2, <1>a, <1>b, Deeds DEF Use, Looks
  <1>3. ASSUME NEW i \in Item, Discard(i) PROVE Goal
    BY <1>3, <1>a, <1>b, Deeds DEF Discard, Looks
  <1>4. ASSUME NEW i \in Item, Drop(i) PROVE Goal
    BY <1>4, <1>a, <1>b, Deeds DEF Drop, Looks
  <1>5. ASSUME NEW g \in Gear, BuyGear(g) PROVE Goal
    <2>1. g \in Thing \ Paid
      BY <1>5 DEF BuyGear, Thing, Paid
    <2>2. Paid' = Paid \cup {g}
      BY <1>0, <1>5 DEF BuyGear, Paid, Forged, ForgedIsOwned
    <2>3. SetCost(c, Paid') = SetCost(c, Paid) + Worth(c, g)
      BY <1>f, <2>1, <2>2, SetCosts
    <2>4. Looks' = Looks /\ log' = log
      BY <1>5 DEF BuyGear, Looks
    <2>5. Worth(c, g) \in Nat /\ purse'[c] = purse[c] - Worth(c, g)
      BY <1>0, <1>5, <2>1, PayTakes DEF BuyGear
    <2> QED  BY <1>i, <1>m, <1>p, <2>3, <2>4, <2>5 DEF MoneyAt
  <1>6. ASSUME NEW g \in Gear, EquipGear(g) PROVE Goal
    BY <1>6, <1>m DEF EquipGear, Paid, Forged, Looks
  <1>7. ASSUME NEW g \in Gear, UnequipGear(g) PROVE Goal
    BY <1>7, <1>m DEF UnequipGear, Paid, Forged, Looks
  <1>8. ASSUME NEW s \in Skin, BuySkin(s) PROVE Goal
    <2>1. s \in Thing \ Looks
      BY <1>8 DEF BuySkin, Thing, Looks
    <2>2. Looks' = Looks \cup {s}
      BY <1>8, ShopAssumption DEF BuySkin, Looks
    <2>3. SetCost(c, Looks') = SetCost(c, Looks) + Worth(c, s)
      BY <1>f, <2>1, <2>2, SetCosts
    <2>4. Paid' = Paid /\ log' = log
      BY <1>8 DEF BuySkin, Paid, Forged
    <2>5. Worth(c, s) \in Nat /\ purse'[c] = purse[c] - Worth(c, s)
      BY <1>0, <1>8, <2>1, PayTakes DEF BuySkin
    <2> QED  BY <1>i, <1>m, <1>p, <2>3, <2>4, <2>5 DEF MoneyAt
  <1>9. ASSUME NEW s \in Skin, EquipSkin(s) PROVE Goal
    BY <1>9, <1>m DEF EquipSkin, Paid, Forged, Looks
  <1>10. ASSUME NEW r \in Recipe, Forge(r) PROVE Goal
    <2>1. r \in Thing /\ <<"forge", r>> \in Deed
      BY Deeds DEF Thing
    <2>2. /\ log'[<<"forge", r>>] = log[<<"forge", r>>] + 1
          /\ \A d \in Deed : d # <<"forge", r>> => log'[d] = log[d]
      BY <1>0, <1>10, <2>1, LogAdds DEF Forge
    <2>3. ForgeCost(c, log') = ForgeCost(c, log) + Worth(c, r)
      BY <1>0, <1>t, <2>2, ForgeCounts
    <2>4. ItemCost(c, log') = ItemCost(c, log)
      BY <2>2, Deeds, SameCosts
    <2>5. log'[<<"reward", DefaultSkin>>] = log[<<"reward", DefaultSkin>>]
      BY <2>2, <1>d
    <2>6. Looks' = Looks
      BY <1>10 DEF Forge, Looks
    <2>7. Paid' = Paid
      <3>1. Forged' = Forged \cup {Output(r)} /\ Output(r) \notin gear
        BY <1>0, <1>10, ForgeAdds DEF Forge, CanForge
      <3>2. gear' = gear \/ gear' = gear \cup {Output(r)}
        BY <1>10 DEF Forge
      <3> QED  BY <3>1, <3>2 DEF Paid
    <2>8. Worth(c, r) \in Nat /\ purse'[c] = purse[c] - Worth(c, r)
      BY <1>0, <1>10, <2>1, PayTakes DEF Forge
    <2> QED  BY <1>i, <1>m, <1>p, <2>3, <2>4, <2>5, <2>6, <2>7, <2>8 DEF MoneyAt
  <1>11. ASSUME Earn PROVE Goal
    <2>1. /\ log'[<<"reward", DefaultSkin>>] = log[<<"reward", DefaultSkin>>] + 1
          /\ \A d \in Deed : d # <<"reward", DefaultSkin>> => log'[d] = log[d]
      BY <1>0, <1>11, <1>d, LogAdds DEF Earn
    <2>2. ItemCost(c, log') = ItemCost(c, log) /\ ForgeCost(c, log') = ForgeCost(c, log)
      BY <2>1, Deeds, SameCosts
    <2>3. Paid' = Paid /\ Looks' = Looks
      BY <1>11, <1>b, <1>d DEF Earn, Looks
    <2>4. purse'[c] = purse[c] + Reward[c] /\ Reward[c] \in Nat
      BY <1>11, ShopAssumption DEF Earn
    <2>5. \A m, n \in Nat : m * (n + 1) = m * n + m /\ m * n \in Nat
      OBVIOUS
    <2>6. log[<<"reward", DefaultSkin>>] \in Nat
      BY <1>0, <1>d
    <2>7. PICK earned \in Nat : earned = Reward[c] * log[<<"reward", DefaultSkin>>]
      BY <2>4, <2>5, <2>6
    <2>8. Reward[c] * log'[<<"reward", DefaultSkin>>] = earned + Reward[c]
      BY <2>1, <2>4, <2>5, <2>6, <2>7
    <2>9. earned = purse[c] + ItemCost(c, log) + ForgeCost(c, log) + SetCost(c, Paid) + SetCost(c, Looks)
      BY <1>m, <2>7 DEF MoneyAt
    <2>10. earned + Reward[c] = purse'[c] + ItemCost(c, log') + ForgeCost(c, log')
                                  + SetCost(c, Paid') + SetCost(c, Looks')
      BY <1>i, <1>p, <2>2, <2>3, <2>4, <2>9
    <2> QED  BY <1>p, <2>8, <2>10 DEF MoneyAt
  <1> QED  BY <1>1, <1>2, <1>3, <1>4, <1>5, <1>6, <1>7, <1>8, <1>9, <1>10, <1>11 DEF Next

\* What a forging makes and takes.
LEMMA ForgeMoves ==
  ASSUME NEW i \in Item, NEW l \in [Deed -> Nat], NEW m \in [Deed -> Nat], NEW r \in Recipe,
         m[<<"forge", r>>] = l[<<"forge", r>>] + 1,
         \A d \in Deed : d # <<"forge", r>> => m[d] = l[d]
  PROVE  /\ MadeOf(i, m) = MadeOf(i, l) + (IF Output(r) = i THEN 1 ELSE 0)
         /\ TakenOf(i, m) = TakenOf(i, l) + Need(r, i)
  <1>1. \A q \in Recipe : <<"forge", q>> \in Deed /\ Need(q, i) \in Nat
    BY Deeds, ShopAssumption
  <1>2. \A q \in Recipe : l[<<"forge", q>>] \in Nat /\ m[<<"forge", q>>] \in Nat
    BY <1>1
  <1>3. \A q \in Recipe \ {r} : m[<<"forge", q>>] = l[<<"forge", q>>]
    BY <1>1
  <1>4. IsFiniteSet(Recipe) /\ r \in Recipe
    BY ShopAssumption
  <1>5. MadeOf(i, m) = MadeOf(i, l) + (IF Output(r) = i THEN 1 ELSE 0)
    <2>1. PICK f : f = [q \in Recipe |-> IF Output(q) = i THEN l[<<"forge", q>>] ELSE 0]
      OBVIOUS
    <2>2. PICK g : g = [q \in Recipe |-> IF Output(q) = i THEN m[<<"forge", q>>] ELSE 0]
      OBVIOUS
    <2>3. PICK d \in Int : d = IF Output(r) = i THEN 1 ELSE 0
      OBVIOUS
    <2>4. f \in [Recipe -> Int] /\ g \in [Recipe -> Int]
      BY ONLY <1>2, <2>1, <2>2
    <2>5. g[r] = f[r] + d
      BY <1>2, <2>1, <2>2, <2>3
    <2>6. \A q \in Recipe \ {r} : g[q] = f[q]
      BY <1>3, <2>1, <2>2
    <2>7. SumFunction(g) = SumFunction(f) + d
      BY ONLY <1>4, <2>3, <2>4, <2>5, <2>6, SumRaise
    <2> QED  BY <2>1, <2>2, <2>3, <2>7 DEF MadeOf
  <1>6. TakenOf(i, m) = TakenOf(i, l) + Need(r, i)
    <2>1. PICK f : f = [q \in Recipe |-> Need(q, i) * l[<<"forge", q>>]]
      OBVIOUS
    <2>2. PICK g : g = [q \in Recipe |-> Need(q, i) * m[<<"forge", q>>]]
      OBVIOUS
    <2>3. \A p, q \in Nat : p * q \in Int /\ p * (q + 1) = p * q + p
      OBVIOUS
    <2>4. f \in [Recipe -> Int] /\ g \in [Recipe -> Int]
      <3>1. \A q \in Recipe : f[q] \in Int /\ g[q] \in Int
        BY ONLY <1>1, <1>2, <2>1, <2>2, <2>3
      <3> QED  BY ONLY <2>1, <2>2, <3>1
    <2>5. g[r] = f[r] + Need(r, i)
      <3>1. Need(r, i) \in Nat /\ l[<<"forge", r>>] \in Nat
        BY <1>1, <1>2
      <3>2. Need(r, i) * m[<<"forge", r>>] = Need(r, i) * l[<<"forge", r>>] + Need(r, i)
        BY <2>3, <3>1
      <3> QED  BY <2>1, <2>2, <3>2
    <2>6. \A q \in Recipe \ {r} : g[q] = f[q]
      BY <1>3, <2>1, <2>2
    <2>7. SumFunction(g) = SumFunction(f) + Need(r, i)
      <3>1. Need(r, i) \in Int
        BY <1>1
      <3> QED  BY ONLY <1>4, <2>4, <2>5, <2>6, <3>1, SumRaise
    <2> QED  BY <2>1, <2>2, <2>7 DEF TakenOf
  <1> QED  BY <1>5, <1>6

LEMMA MaterialSums ==
  ASSUME NEW i \in Item, NEW l \in [Deed -> Nat]
  PROVE  MadeOf(i, l) \in Int /\ TakenOf(i, l) \in Int
  <1>1. \A q \in Recipe : l[<<"forge", q>>] \in Nat /\ Need(q, i) \in Nat
    BY Deeds, ShopAssumption
  <1>2. PICK f : f = [q \in Recipe |-> IF Output(q) = i THEN l[<<"forge", q>>] ELSE 0]
    OBVIOUS
  <1>3. PICK g : g = [q \in Recipe |-> Need(q, i) * l[<<"forge", q>>]]
    OBVIOUS
  <1>4. f \in [Recipe -> Int]
    BY ONLY <1>1, <1>2
  <1>5. g \in [Recipe -> Int]
    <2>1. \A p, q \in Nat : p * q \in Int
      OBVIOUS
    <2> QED  BY ONLY <1>1, <1>3, <2>1
  <1>6. SumFunction(f) \in Int
    BY <1>4, SumInt, ShopAssumption
  <1>7. SumFunction(g) \in Int
    BY <1>5, SumInt, ShopAssumption
  <1> QED  BY <1>2, <1>3, <1>6, <1>7 DEF MadeOf, TakenOf

LEMMA MaterialsNext ==
  ASSUME ShopInv, Next
  PROVE  MaterialsLedger'
  <1>0. /\ TypeOK /\ items \in [Item -> Nat] /\ log \in [Deed -> Nat]
        /\ Item \cap Gear = {}
    BY ShopAssumption DEF ShopInv, TypeOK
  <1>t. items' \in [Item -> Nat] /\ log' \in [Deed -> Nat]
    BY ShopTypeNext DEF TypeOK
  <1> SUFFICES ASSUME NEW i \in Item
               PROVE  MaterialAt(i, items', log')
    BY DEF MaterialsLedger, MaterialAt, MadeOf, TakenOf, Made
  <1> DEFINE Goal == MaterialAt(i, items', log')
  <1>m. MaterialAt(i, items, log)
    BY MaterialsAre DEF ShopInv
  <1>p. /\ items[i] \in Nat /\ items'[i] \in Nat /\ StartItems[i] \in Nat
        /\ log[<<"buy", i>>] \in Nat /\ log[<<"drop", i>>] \in Nat /\ log[<<"gone", i>>] \in Nat
        /\ MadeOf(i, log) \in Int /\ TakenOf(i, log) \in Int
    BY <1>0, <1>t, Deeds, MaterialSums, ShopAssumption
  \* A deed other than a forging moves one unit of one item.
  <1>a. ASSUME NEW what \in {"buy", "drop", "gone"}, NEW x \in Item, Log(what, x),
               items' = [items EXCEPT ![x] = @ + (IF what = "gone" THEN -1 ELSE 1)]
        PROVE  Goal
    <2>1. <<what, x>> \in Deed
      BY Deeds
    <2>2. /\ log'[<<what, x>>] = log[<<what, x>>] + 1
          /\ \A d \in Deed : d # <<what, x>> => log'[d] = log[d]
      BY <1>0, <1>a, <2>1, LogAdds
    <2>3. \A r \in Recipe : log'[<<"forge", r>>] = log[<<"forge", r>>]
      BY <2>2, Deeds
    <2>4. MadeOf(i, log') = MadeOf(i, log) /\ TakenOf(i, log') = TakenOf(i, log)
      BY <2>3 DEF MadeOf, TakenOf
    <2>5. CASE x # i
      <3>1. /\ log'[<<"buy", i>>] = log[<<"buy", i>>]
            /\ log'[<<"drop", i>>] = log[<<"drop", i>>]
            /\ log'[<<"gone", i>>] = log[<<"gone", i>>]
        BY <2>2, <2>5, Deeds
      <3>2. items'[i] = items[i]
        BY <1>0, <1>a, <2>5
      <3> QED  BY <1>m, <2>4, <3>1, <3>2 DEF MaterialAt
    <2>6. CASE x = i
      <3>1. items'[i] = items[i] + (IF what = "gone" THEN -1 ELSE 1)
        BY <1>0, <1>a, <2>6
      <3>2. log'[<<"buy", i>>] = log[<<"buy", i>>] + (IF what = "buy" THEN 1 ELSE 0)
        BY <1>p, <2>2, <2>6, Deeds
      <3>3. log'[<<"drop", i>>] = log[<<"drop", i>>] + (IF what = "drop" THEN 1 ELSE 0)
        BY <1>p, <2>2, <2>6, Deeds
      <3>4. log'[<<"gone", i>>] = log[<<"gone", i>>] + (IF what = "gone" THEN 1 ELSE 0)
        BY <1>p, <2>2, <2>6, Deeds
      <3> QED  BY <1>a, <1>m, <1>p, <2>4, <3>1, <3>2, <3>3, <3>4 DEF MaterialAt
    <2> QED  BY <2>5, <2>6
  <1>b. ASSUME items' = items, UNCHANGED log PROVE Goal
    BY <1>b, <1>m
  <1>1. ASSUME NEW j \in Item, BuyItem(j) PROVE Goal
    BY <1>1, <1>a DEF BuyItem
  <1>2. ASSUME NEW j \in Item, Use(j) PROVE Goal
    <2>1. items' = [items EXCEPT ![j] = @ + (-1)]
      BY <1>0, <1>2 DEF Use
    <2> QED  BY <1>2, <1>a, <2>1 DEF Use
  <1>3. ASSUME NEW j \in Item, Discard(j) PROVE Goal
    <2>1. items' = [items EXCEPT ![j] = @ + (-1)]
      BY <1>0, <1>3 DEF Discard
    <2> QED  BY <1>3, <1>a, <2>1 DEF Discard
  <1>4. ASSUME NEW j \in Item, Drop(j) PROVE Goal
    BY <1>4, <1>a DEF Drop
  <1>5. ASSUME NEW g \in Gear, BuyGear(g) PROVE Goal
    BY <1>5, <1>b DEF BuyGear
  <1>6. ASSUME NEW g \in Gear, EquipGear(g) PROVE Goal
    BY <1>6, <1>b DEF EquipGear
  <1>7. ASSUME NEW g \in Gear, UnequipGear(g) PROVE Goal
    BY <1>7, <1>b DEF UnequipGear
  <1>8. ASSUME NEW s \in Skin, BuySkin(s) PROVE Goal
    BY <1>8, <1>b DEF BuySkin
  <1>9. ASSUME NEW s \in Skin, EquipSkin(s) PROVE Goal
    BY <1>9, <1>b DEF EquipSkin
  <1>10. ASSUME NEW r \in Recipe, Forge(r) PROVE Goal
    <2>1. /\ log'[<<"forge", r>>] = log[<<"forge", r>>] + 1
          /\ \A d \in Deed : d # <<"forge", r>> => log'[d] = log[d]
      BY <1>0, <1>10, Deeds, LogAdds DEF Forge
    <2>2. /\ MadeOf(i, log') = MadeOf(i, log) + (IF Output(r) = i THEN 1 ELSE 0)
          /\ TakenOf(i, log') = TakenOf(i, log) + Need(r, i)
      BY <1>0, <1>t, <2>1, ForgeMoves
    <2>3. /\ log'[<<"buy", i>>] = log[<<"buy", i>>]
          /\ log'[<<"drop", i>>] = log[<<"drop", i>>]
          /\ log'[<<"gone", i>>] = log[<<"gone", i>>]
      BY <2>1, Deeds
    <2>4. items'[i] = items[i] - Need(r, i) + (IF i = Output(r) THEN 1 ELSE 0)
      BY <1>10 DEF Forge
    <2>5. Need(r, i) \in Nat
      BY ShopAssumption
    <2> QED  BY <1>m, <1>p, <2>2, <2>3, <2>4, <2>5 DEF MaterialAt
  <1>11. ASSUME Earn PROVE Goal
    <2>1. \A d \in Deed : d # <<"reward", DefaultSkin>> => log'[d] = log[d]
      BY <1>0, <1>11, Deeds, LogAdds DEF Earn
    <2>2. \A r \in Recipe : log'[<<"forge", r>>] = log[<<"forge", r>>]
      BY <2>1, Deeds
    <2>3. MadeOf(i, log') = MadeOf(i, log) /\ TakenOf(i, log') = TakenOf(i, log)
      BY <2>2 DEF MadeOf, TakenOf
    <2>4. /\ log'[<<"buy", i>>] = log[<<"buy", i>>]
          /\ log'[<<"drop", i>>] = log[<<"drop", i>>]
          /\ log'[<<"gone", i>>] = log[<<"gone", i>>]
      BY <2>1, Deeds
    <2> QED  BY <1>11, <1>m, <2>3, <2>4 DEF Earn, MaterialAt
  <1> QED  BY <1>1, <1>2, <1>3, <1>4, <1>5, <1>6, <1>7, <1>8, <1>9, <1>10, <1>11 DEF Next

LEMMA ShopNext == ShopInv /\ [Next]_vars => ShopInv'
  <1>1. ASSUME ShopInv, Next PROVE ShopInv'
    BY <1>1, ShopTypeNext, KitNext, MoneyNext, MaterialsNext DEF ShopInv
  <1>2. ASSUME ShopInv, UNCHANGED vars PROVE ShopInv'
    <2>1. TypeOK' /\ Fits(hero', Bonus(skin', kit')) /\ KitSound' /\ ForgedIsOwned'
      BY <1>2 DEF vars, ShopInv, TypeOK, KitSound, ForgedIsOwned, Forged
    <2>2. MoneyLedger' /\ MaterialsLedger'
      BY <1>2 DEF vars, ShopInv, MoneyLedger, MaterialsLedger, Forged, Made
    <2> QED  BY <2>1, <2>2 DEF ShopInv
  <1> QED  BY <1>1, <1>2

LEMMA ShopAlways == Spec => []ShopInv
  BY ShopInit, ShopNext, PTL DEF Spec

\* Only owned pieces are equipped, each in the slot it is made for, and the skin
\* on the player's back is one of his, however pieces are bought, forged, put on
\* and taken off (equip, unequip, wear).
THEOREM KitStaysSound == Spec => []KitSound
  <1>1. ShopInv => KitSound
    BY DEF ShopInv
  <1> QED  BY <1>1, ShopAlways, PTL

\* The hpMax stored with the player is what level, kit and skin amount to, with
\* nothing counted twice or left behind by a swap, and the life stays between 1 and it.
THEOREM EquippedHPAddsUp == Spec => []HPLedger
  <1>1. ShopInv => HPLedger
    <2> SUFFICES ASSUME ShopInv PROVE HPLedger
      OBVIOUS
    <2>1. /\ hero.hpMax = FirstHP + LevelHP * (hero.level - 1) + Bonus(skin, kit)
          /\ 1 <= hero.hp /\ hero.hp <= hero.hpMax
      BY DEF ShopInv, Fits, SoundHero
    <2>2. PICK base \in Int : base = FirstHP + LevelHP * (hero.level - 1)
      <3>1. \A m, n \in Int : m * n \in Int
        OBVIOUS
      <3>2. hero.level - 1 \in Int /\ LevelHP \in Int /\ FirstHP \in Int
        BY ProgressionAssumption DEF ShopInv, TypeOK, Hero
      <3>3. LevelHP * (hero.level - 1) \in Int
        BY <3>1, <3>2
      <3> QED  BY <3>2, <3>3
    <2>3. HPOf(skin) \in Int /\ KitHP(kit) \in Int
      BY KitHPs, ShopAssumption DEF ShopInv, TypeOK
    <2>4. hero.hpMax = base + (HPOf(skin) + KitHP(kit))
      BY <2>1, <2>2 DEF Bonus
    <2>5. hero.hpMax = base + HPOf(skin) + KitHP(kit)
      BY <2>2, <2>3, <2>4
    <2> QED  BY <2>1, <2>2, <2>5 DEF HPLedger, KitHP
  <1> QED  BY <1>1, ShopAlways, PTL

\* Every coin and gem is in the purse or was spent once, on something the player
\* has or had: no purchase and no forging is free, half-paid, paid twice or on credit.
THEOREM PurchasesAddUp == Spec => []MoneyLedger
  <1>1. ShopInv => MoneyLedger
    BY DEF ShopInv
  <1> QED  BY <1>1, ShopAlways, PTL

\* No unit of an item is made from nothing or lost, whatever is bought, dropped,
\* used, thrown away or forged, and none is used that is not in the bag.
THEOREM MaterialsAddUp == Spec => []MaterialsLedger
  <1>1. ShopInv => MaterialsLedger
    BY DEF ShopInv
  <1> QED  BY <1>1, ShopAlways, PTL

-----------------------------------------------------------------------------
(***************************************************************************)
(* The rooms.                                                              *)
(***************************************************************************)
RoomsInv == RoomsType /\ FurnishingLedger

LEMMA RoomsFinite == IsFiniteSet(Slot) /\ IsFiniteSet(Cell)
  <1>1. IsFiniteSet(Slot)
    BY FS_Interval, RoomsAssumption DEF Slot
  <1>2. IsFiniteSet(Cell)
    <2> DEFINE CellsOf(z) == {z} \X (0 .. Cells(z) - 1)
               AllCells == {CellsOf(z) : z \in Zone}
    <2>1. \A z \in Zone : IsFiniteSet(CellsOf(z))
      <3> TAKE z \in Zone
      <3>1. IsFiniteSet({z})
        BY FS_Singleton
      <3>2. IsFiniteSet(0 .. Cells(z) - 1)
        BY FS_Interval, RoomsAssumption
      <3> QED  BY <3>1, <3>2, FS_Product
    <2> HIDE DEF CellsOf
    <2>2. [z \in Zone |-> CellsOf(z)] \in Surjection(Zone, AllCells)
      BY DEF Surjection
    <2>3. IsFiniteSet(AllCells)
      BY <2>2, FS_Surjection, RoomsAssumption
    <2>4. \A T \in AllCells : IsFiniteSet(T)
      BY <2>1
    <2> HIDE DEF AllCells
    <2>5. IsFiniteSet(UNION AllCells)
      BY <2>3, <2>4, FS_UNION
    <2> QED  BY <2>5 DEF Cell, AllCells, CellsOf
  <1> QED  BY <1>1, <1>2

LEMMA Prices ==
  ASSUME NEW c \in Currency, NEW x \in Component \cup Furniture
  PROVE  /\ Price(x).currency \in Currency /\ Price(x).amount \in Nat
         /\ Worth(c, x) \in Nat /\ WorthIn(c, x) = Worth(c, x)
  BY RoomsAssumption DEF Worth, WorthIn

\* The worth of what stands in the places P, and what removals have cost.
RoomWorth(c, P, room) == SumFunction([p \in P |-> WorthIn(c, room[p])])
Losses(c, m) == SumFunction([f \in Furniture |-> Loss(c, f) * m[f]])

RoomAt(c, p, r, o, m) ==
  /\ p[c] >= 0
  /\ Money[c] = p[c] + RoomWorth(c, Slot, r) + RoomWorth(c, Cell, o) + Losses(c, m)

LEMMA RoomIs == FurnishingLedger <=> \A c \in Currency : RoomAt(c, purse, rack, office, removed)
  BY DEF FurnishingLedger, RoomAt, RoomWorth, Losses

LEMMA RoomWorths ==
  ASSUME NEW c \in Currency, NEW P, IsFiniteSet(P),
         NEW room \in [P -> Component \cup Furniture \cup {Empty}]
  PROVE  /\ [p \in P |-> WorthIn(c, room[p])] \in [P -> Int]
         /\ RoomWorth(c, P, room) \in Int
  <1>1. \A p \in P : WorthIn(c, room[p]) \in Int
    BY Prices DEF WorthIn
  <1>2. PICK f : f = [p \in P |-> WorthIn(c, room[p])]
    OBVIOUS
  <1>3. f \in [P -> Int]
    BY <1>1, <1>2
  <1>4. SumFunction(f) \in Int
    BY <1>3, SumInt
  <1> QED  BY <1>2, <1>3, <1>4 DEF RoomWorth

\* One place changes what it holds.
LEMMA PlaceMoves ==
  ASSUME NEW c \in Currency, NEW P, IsFiniteSet(P),
         NEW room \in [P -> Component \cup Furniture \cup {Empty}],
         NEW after \in [P -> Component \cup Furniture \cup {Empty}],
         NEW p \in P, \A q \in P \ {p} : after[q] = room[q]
  PROVE  RoomWorth(c, P, after) = RoomWorth(c, P, room) + (WorthIn(c, after[p]) - WorthIn(c, room[p]))
  <1>2. PICK f : f = [q \in P |-> WorthIn(c, room[q])]
    OBVIOUS
  <1>3. PICK g : g = [q \in P |-> WorthIn(c, after[q])]
    OBVIOUS
  <1>4. f \in [P -> Int] /\ g \in [P -> Int]
    BY <1>2, <1>3, RoomWorths
  <1>5. PICK d \in Int : d = WorthIn(c, after[p]) - WorthIn(c, room[p])
    <2>1. WorthIn(c, after[p]) \in Int /\ WorthIn(c, room[p]) \in Int
      BY Prices DEF WorthIn
    <2> QED  BY <2>1
  <1>6. g[p] = f[p] + d
    <2>1. f[p] = WorthIn(c, room[p]) /\ g[p] = WorthIn(c, after[p])
      BY <1>2, <1>3
    <2>2. f[p] \in Int /\ g[p] \in Int
      BY <1>4
    <2> QED  BY <1>5, <2>1, <2>2
  <1>7. \A q \in P \ {p} : g[q] = f[q]
    BY <1>2, <1>3
  <1>8. SumFunction(g) = SumFunction(f) + d
    <2>1. IsFiniteSet(P) /\ p \in P
      OBVIOUS
    <2> QED  BY ONLY <1>4, <1>5, <1>6, <1>7, <2>1, SumRaise
  <1> QED  BY <1>2, <1>3, <1>5, <1>8 DEF RoomWorth

LEMMA LossesAre ==
  ASSUME NEW c \in Currency, NEW m \in [Furniture -> Nat]
  PROVE  /\ \A f \in Furniture : Loss(c, f) \in Int
         /\ Losses(c, m) \in Int
         /\ \A f \in Furniture :
              Losses(c, [m EXCEPT ![f] = m[f] + 1]) = Losses(c, m) + Loss(c, f)
  <1>1. \A f \in Furniture : Loss(c, f) \in Int
    <2> TAKE f \in Furniture
    <2>1. Price(f).amount \in Nat
      BY RoomsAssumption
    <2>2. Refund(f) \in Int
      BY <2>1 DEF Refund
    <2> QED  BY <2>1, <2>2 DEF Loss
  <1>2. PICK a : a = [f \in Furniture |-> Loss(c, f) * m[f]]
    OBVIOUS
  <1>3. \A p, q \in Int : p * q \in Int /\ p * (q + 1) = p * q + p
    OBVIOUS
  <1>4. \A f \in Furniture : m[f] \in Int
    OBVIOUS
  <1>5. a \in [Furniture -> Int]
    BY ONLY <1>1, <1>2, <1>3, <1>4
  <1>6. Losses(c, m) = SumFunction(a) /\ SumFunction(a) \in Int
    BY <1>2, <1>5, SumInt, RoomsAssumption DEF Losses
  <1>7. ASSUME NEW f \in Furniture
        PROVE  Losses(c, [m EXCEPT ![f] = m[f] + 1]) = Losses(c, m) + Loss(c, f)
    <2>1. PICK n : n = [m EXCEPT ![f] = m[f] + 1]
      OBVIOUS
    <2>2. n[f] = m[f] + 1 /\ \A g \in Furniture \ {f} : n[g] = m[g]
      BY <2>1
    <2>3. PICK b : b = [g \in Furniture |-> Loss(c, g) * n[g]]
      OBVIOUS
    <2>4. \A g \in Furniture \ {f} : b[g] = a[g]
      BY <1>2, <2>2, <2>3
    <2>5. b[f] = a[f] + Loss(c, f)
      <3>1. Loss(c, f) * n[f] = Loss(c, f) * m[f] + Loss(c, f)
        BY <1>1, <1>3, <1>4, <2>2
      <3> QED  BY <1>2, <2>3, <3>1
    <2>6. b \in [Furniture -> Int]
      <3>1. \A g \in Furniture : n[g] \in Int
        BY <1>4, <2>2
      <3> QED  BY ONLY <1>1, <1>3, <2>3, <3>1
    <2>7. SumFunction(b) = SumFunction(a) + Loss(c, f)
      <3>1. IsFiniteSet(Furniture) /\ f \in Furniture /\ Loss(c, f) \in Int
        BY <1>1, RoomsAssumption
      <3> QED  BY ONLY <1>5, <2>4, <2>5, <2>6, <3>1, SumRaise
    <2> QED  BY <1>6, <2>1, <2>3, <2>7 DEF Losses
  <1> QED  BY <1>1, <1>6, <1>7

LEMMA RoomsStart == RoomsInit => RoomsInv
  <1> SUFFICES ASSUME RoomsInit PROVE RoomsInv
    OBVIOUS
  <1>1. RoomsType
    BY RoomsAssumption DEF RoomsInit, RoomsType
  <1>2. ASSUME NEW c \in Currency, NEW P, IsFiniteSet(P), NEW room, room = [p \in P |-> Empty]
        PROVE  RoomWorth(c, P, room) = 0
    <2>1. PICK f : f = [p \in P |-> WorthIn(c, room[p])]
      OBVIOUS
    <2>2. \A p \in P : f[p] = 0
      BY <1>2, <2>1 DEF WorthIn
    <2>3. f \in [P -> Int]
      BY ONLY <2>1, <2>2
    <2> QED  BY <1>2, <2>1, <2>2, <2>3, SumZero DEF RoomWorth
  <1>3. ASSUME NEW c \in Currency PROVE Losses(c, removed) = 0
    <2>1. PICK f : f = [g \in Furniture |-> Loss(c, g) * removed[g]]
      OBVIOUS
    <2>2. \A n \in Int : n * 0 = 0
      OBVIOUS
    <2>3. \A g \in Furniture : Loss(c, g) \in Int /\ removed[g] = 0
      BY <1>1, LossesAre DEF RoomsType, RoomsInit
    <2>4. \A g \in Furniture : f[g] = 0
      BY <2>1, <2>2, <2>3
    <2>5. f \in [Furniture -> Int]
      BY ONLY <2>1, <2>4
    <2> QED  BY <2>1, <2>4, <2>5, SumZero, RoomsAssumption DEF Losses
  <1>4. ASSUME NEW c \in Currency PROVE RoomAt(c, purse, rack, office, removed)
    <2>1. RoomWorth(c, Slot, rack) = 0 /\ RoomWorth(c, Cell, office) = 0
      BY <1>2, RoomsFinite DEF RoomsInit
    <2>2. purse[c] = Money[c] /\ Money[c] \in Nat
      BY RoomsAssumption DEF RoomsInit
    <2> QED  BY <1>3, <2>1, <2>2 DEF RoomAt
  <1> QED  BY <1>1, <1>4, RoomIs DEF RoomsInv

LEMMA TargetIsFree ==
  ASSUME FreeSlots # {}
  PROVE  TargetSlot \in FreeSlots
  <1>1. FreeSlots \subseteq Nat
    BY DEF FreeSlots, Slot
  <1>2. \E s \in FreeSlots : \A t \in FreeSlots : s <= t
    BY <1>1, LeastNumber
  <1> QED  BY <1>2 DEF TargetSlot

\* A template costs what it brings.
LEMMA TemplateWorth ==
  ASSUME office \in [Cell -> Furniture \cup {Empty}], NEW t \in Template, NEW c \in Currency,
         NEW o \in [Cell -> Furniture \cup {Empty}],
         \A p \in Cell : o[p] = IF p \in Missing(t) THEN Pieces(t)[p] ELSE office[p]
  PROVE  /\ Cost(t, c) \in Nat
         /\ RoomWorth(c, Cell, o) = RoomWorth(c, Cell, office) + Cost(t, c)
  <1>1. PICK M : M = Missing(t)
    OBVIOUS
  <1>2. M \subseteq Cell /\ \A p \in M : Pieces(t)[p] \in Furniture /\ office[p] = Empty
    BY <1>1, RoomsAssumption DEF Missing
  <1>3. PICK d : d = [p \in M |-> Worth(c, Pieces(t)[p])]
    OBVIOUS
  <1>4. d \in [M -> Nat]
    BY <1>2, <1>3, Prices
  <1>5. IsFiniteSet(Cell) /\ IsFiniteSet(M)
    BY <1>2, RoomsFinite, FS_Subset
  <1>6. PICK f : f = [p \in Cell |-> WorthIn(c, office[p])]
    OBVIOUS
  <1>7. PICK g : g = [p \in Cell |-> WorthIn(c, o[p])]
    OBVIOUS
  <1>8. f \in [Cell -> Int] /\ g \in [Cell -> Int]
    <2>1. /\ office \in [Cell -> Component \cup Furniture \cup {Empty}]
          /\ o \in [Cell -> Component \cup Furniture \cup {Empty}]
      OBVIOUS
    <2> QED  BY <1>5, <1>6, <1>7, <2>1, RoomWorths
  <1>9. \A p \in Cell : g[p] = IF p \in M THEN f[p] + d[p] ELSE f[p]
    <2> TAKE p \in Cell
    <2>1. CASE p \in M
      <3>1. f[p] = 0
        BY <1>2, <1>6, <2>1 DEF WorthIn
      <3>2. g[p] = Worth(c, Pieces(t)[p]) /\ d[p] = Worth(c, Pieces(t)[p])
        BY <1>1, <1>2, <1>3, <1>7, <2>1, Prices
      <3>3. d[p] \in Nat
        BY <1>4, <2>1
      <3> QED  BY <2>1, <3>1, <3>2, <3>3
    <2>2. CASE p \notin M
      BY <1>1, <1>6, <1>7, <2>2
    <2> QED  BY <2>1, <2>2
  <1>10. SumFunction(g) = SumFunction(f) + SumFunction(d)
    <2>1. M \in SUBSET Cell /\ d \in [M -> Int]
      BY <1>2, <1>4
    <2> QED  BY ONLY <1>5, <1>8, <1>9, <2>1, SumMove
  <1>11. SumFunction(d) \in Nat
    BY <1>4, <1>5, SumNat
  <1> QED  BY <1>1, <1>3, <1>6, <1>7, <1>10, <1>11 DEF Cost, RoomWorth

LEMMA RoomsStep == RoomsInv /\ [RoomsNext]_roomsVars => RoomsInv'
  <1> SUFFICES ASSUME RoomsInv, [RoomsNext]_roomsVars PROVE RoomsInv'
    OBVIOUS
  <1>0. /\ purse \in [Currency -> Nat]
        /\ rack \in [Slot -> Component \cup {Empty}]
        /\ office \in [Cell -> Furniture \cup {Empty}]
        /\ light \in Light /\ removed \in [Furniture -> Nat]
    BY DEF RoomsInv, RoomsType
  <1>w. /\ rack \in [Slot -> Component \cup Furniture \cup {Empty}]
        /\ office \in [Cell -> Component \cup Furniture \cup {Empty}]
        /\ IsFiniteSet(Slot) /\ IsFiniteSet(Cell)
    BY <1>0, RoomsFinite
  <1>m. \A c \in Currency :
          /\ RoomAt(c, purse, rack, office, removed)
          /\ purse[c] \in Nat
          /\ RoomWorth(c, Slot, rack) \in Int /\ RoomWorth(c, Cell, office) \in Int
          /\ Losses(c, removed) \in Int
    BY <1>0, <1>w, RoomIs, RoomWorths, LossesAre DEF RoomsInv
  <1> DEFINE Goal == RoomsType' /\ \A c \in Currency : RoomAt(c, purse', rack', office', removed')
  <1> SUFFICES Goal
    BY DEF RoomsInv, FurnishingLedger, RoomAt, RoomWorth, Losses
  <1>1. ASSUME NEW k \in Component, BuyComponent(k) PROVE Goal
    <2>1. PICK s \in Slot : s = TargetSlot /\ rack[s] = Empty
      BY <1>1, TargetIsFree DEF BuyComponent, FreeSlots
    <2>2. rack' = [rack EXCEPT ![s] = k] /\ UNCHANGED <<office, light, removed>>
      BY <1>1, <2>1 DEF BuyComponent
    <2>3. /\ purse' \in [Currency -> Nat]
          /\ \A c \in Currency : Worth(c, k) \in Nat /\ purse'[c] = purse[c] - Worth(c, k)
      BY <1>0, <1>1, PriceTaken, RoomsAssumption DEF BuyComponent
    <2>4. RoomsType'
      BY <1>0, <2>2, <2>3 DEF RoomsType
    <2>5. ASSUME NEW c \in Currency PROVE RoomAt(c, purse', rack', office', removed')
      <3>1. RoomWorth(c, Slot, rack') = RoomWorth(c, Slot, rack) + (WorthIn(c, k) - WorthIn(c, rack[s]))
        <4>1. PICK room \in [Slot -> Component \cup Furniture \cup {Empty}] : room = rack
          BY <1>w
        <4>2. PICK after \in [Slot -> Component \cup Furniture \cup {Empty}] : after = rack'
          BY <4>1, <2>2
        <4>3. after[s] = k /\ \A q \in Slot \ {s} : after[q] = room[q]
          BY <2>2, <4>1, <4>2
        <4>4. RoomWorth(c, Slot, after) = RoomWorth(c, Slot, room) + (WorthIn(c, after[s]) - WorthIn(c, room[s]))
          BY <1>w, <4>3, PlaceMoves
        <4> QED  BY <4>1, <4>2, <4>3, <4>4
      <3>2. WorthIn(c, k) = Worth(c, k) /\ WorthIn(c, rack[s]) = 0
        BY <2>1, Prices DEF WorthIn
      <3>3. purse'[c] \in Nat
        BY <2>3
      <3> QED  BY <1>m, <2>2, <2>3, <3>1, <3>2, <3>3 DEF RoomAt
    <2> QED  BY <2>4, <2>5
  <1>2. ASSUME NEW s \in Slot, RemoveComponent(s) PROVE Goal
    <2>1. PICK k \in Component : k = rack[s]
      BY <1>0, <1>2 DEF RemoveComponent
    <2>2. rack' = [rack EXCEPT ![s] = Empty] /\ UNCHANGED <<office, light, removed>>
      BY <1>2 DEF RemoveComponent
    <2>3. Price(k).currency \in Currency /\ Price(k).amount \in Nat
      BY RoomsAssumption
    <2>4. /\ purse' \in [Currency -> Nat]
          /\ \A c \in Currency : purse'[c] = purse[c] + Worth(c, k)
      BY <1>0, <1>2, <2>1, <2>3 DEF RemoveComponent, Worth
    <2>5. RoomsType'
      BY <1>0, <2>2, <2>4 DEF RoomsType
    <2>6. ASSUME NEW c \in Currency PROVE RoomAt(c, purse', rack', office', removed')
      <3>1. RoomWorth(c, Slot, rack') = RoomWorth(c, Slot, rack) + (WorthIn(c, Empty) - WorthIn(c, rack[s]))
        <4>1. PICK room \in [Slot -> Component \cup Furniture \cup {Empty}] : room = rack
          BY <1>w
        <4>2. PICK after \in [Slot -> Component \cup Furniture \cup {Empty}] : after = rack'
          BY <4>1, <2>2
        <4>3. after[s] = Empty /\ \A q \in Slot \ {s} : after[q] = room[q]
          BY <2>2, <4>1, <4>2
        <4>4. RoomWorth(c, Slot, after) = RoomWorth(c, Slot, room) + (WorthIn(c, after[s]) - WorthIn(c, room[s]))
          BY <1>w, <4>3, PlaceMoves
        <4> QED  BY <4>1, <4>2, <4>3, <4>4
      <3>2. WorthIn(c, rack[s]) = Worth(c, k) /\ Worth(c, k) \in Nat /\ WorthIn(c, Empty) = 0
        BY <2>1, Prices DEF WorthIn
      <3>3. purse'[c] \in Nat
        BY <2>4
      <3> QED  BY <1>m, <2>2, <2>4, <3>1, <3>2, <3>3 DEF RoomAt
    <2> QED  BY <2>5, <2>6
  <1>3. ASSUME NEW p \in Cell, NEW f \in Furniture, Install(f, p) PROVE Goal
    <2>1. office' = [office EXCEPT ![p] = f] /\ office[p] = Empty /\ UNCHANGED <<rack, light, removed>>
      BY <1>3 DEF Install
    <2>2. /\ purse' \in [Currency -> Nat]
          /\ \A c \in Currency : Worth(c, f) \in Nat /\ purse'[c] = purse[c] - Worth(c, f)
      BY <1>0, <1>3, PriceTaken, RoomsAssumption DEF Install
    <2>3. RoomsType'
      BY <1>0, <2>1, <2>2 DEF RoomsType
    <2>4. ASSUME NEW c \in Currency PROVE RoomAt(c, purse', rack', office', removed')
      <3>1. RoomWorth(c, Cell, office') = RoomWorth(c, Cell, office) + (WorthIn(c, f) - WorthIn(c, office[p]))
        <4>1. PICK room \in [Cell -> Component \cup Furniture \cup {Empty}] : room = office
          BY <1>w
        <4>2. PICK after \in [Cell -> Component \cup Furniture \cup {Empty}] : after = office'
          BY <4>1, <2>1
        <4>3. after[p] = f /\ \A q \in Cell \ {p} : after[q] = room[q]
          BY <2>1, <4>1, <4>2
        <4>4. RoomWorth(c, Cell, after) = RoomWorth(c, Cell, room) + (WorthIn(c, after[p]) - WorthIn(c, room[p]))
          BY <1>w, <4>3, PlaceMoves
        <4> QED  BY <4>1, <4>2, <4>3, <4>4
      <3>2. WorthIn(c, f) = Worth(c, f) /\ WorthIn(c, office[p]) = 0
        BY <2>1, Prices DEF WorthIn
      <3>3. purse'[c] \in Nat
        BY <2>2
      <3> QED  BY <1>m, <2>1, <2>2, <3>1, <3>2, <3>3 DEF RoomAt
    <2> QED  BY <2>3, <2>4
  <1>4. ASSUME NEW p \in Cell, Remove(p) PROVE Goal
    <2>1. PICK f \in Furniture : f = office[p]
      BY <1>0, <1>4 DEF Remove
    <2>2. /\ office' = [office EXCEPT ![p] = Empty] /\ UNCHANGED <<rack, light>>
          /\ removed' = [removed EXCEPT ![f] = removed[f] + 1]
      BY <1>4, <2>1 DEF Remove
    <2>3. Price(f).currency \in Currency /\ Price(f).amount \in Nat
      BY RoomsAssumption
    <2>4. Refund(f) \in Nat
      BY <2>3 DEF Refund
    <2>5. purse' = [purse EXCEPT ![Price(f).currency] = purse[Price(f).currency] + Refund(f)]
      BY <1>4, <2>1 DEF Remove
    <2>6. /\ purse' \in [Currency -> Nat]
          /\ \A c \in Currency : purse'[c] = purse[c] + (Worth(c, f) - Loss(c, f))
      <3>1. \A c \in Currency : Worth(c, f) - Loss(c, f) = IF Price(f).currency = c THEN Refund(f) ELSE 0
        BY <2>3, <2>4 DEF Worth, Loss
      <3> QED  BY <1>0, <2>3, <2>4, <2>5, <3>1
    <2>7. RoomsType'
      BY <1>0, <2>2, <2>6 DEF RoomsType
    <2>8. ASSUME NEW c \in Currency PROVE RoomAt(c, purse', rack', office', removed')
      <3>1. RoomWorth(c, Cell, office') = RoomWorth(c, Cell, office) + (WorthIn(c, Empty) - WorthIn(c, office[p]))
        <4>1. PICK room \in [Cell -> Component \cup Furniture \cup {Empty}] : room = office
          BY <1>w
        <4>2. PICK after \in [Cell -> Component \cup Furniture \cup {Empty}] : after = office'
          BY <4>1, <2>2
        <4>3. after[p] = Empty /\ \A q \in Cell \ {p} : after[q] = room[q]
          BY <2>2, <4>1, <4>2
        <4>4. RoomWorth(c, Cell, after) = RoomWorth(c, Cell, room) + (WorthIn(c, after[p]) - WorthIn(c, room[p]))
          BY <1>w, <4>3, PlaceMoves
        <4> QED  BY <4>1, <4>2, <4>3, <4>4
      <3>2. WorthIn(c, office[p]) = Worth(c, f) /\ Worth(c, f) \in Nat /\ WorthIn(c, Empty) = 0
        BY <2>1, Prices DEF WorthIn
      <3>3. Losses(c, removed') = Losses(c, removed) + Loss(c, f) /\ Loss(c, f) \in Int
        BY <1>0, <2>2, LossesAre
      <3>4. purse'[c] \in Nat
        BY <2>6
      <3> QED  BY <1>m, <2>2, <2>6, <3>1, <3>2, <3>3, <3>4 DEF RoomAt
    <2> QED  BY <2>7, <2>8
  <1>5. ASSUME NEW l \in Light, SetLight(l) PROVE Goal
    BY <1>0, <1>5, <1>m DEF SetLight, RoomsType
  <1>6. ASSUME NEW t \in Template, ApplyTemplate(t) PROVE Goal
    <2>1. /\ \A p \in Cell : office'[p] = IF p \in Missing(t) THEN Pieces(t)[p] ELSE office[p]
          /\ office' \in [Cell -> Furniture \cup {Empty}]
      <3>1. \A p \in Missing(t) : Pieces(t)[p] \in Furniture
        BY RoomsAssumption DEF Missing
      <3> QED  BY <1>0, <1>6, <3>1 DEF ApplyTemplate
    <2>2. \A c \in Currency :
            /\ Cost(t, c) \in Nat
            /\ RoomWorth(c, Cell, office') = RoomWorth(c, Cell, office) + Cost(t, c)
      BY <1>0, <2>1, TemplateWorth
    <2>3. /\ purse' \in [Currency -> Nat]
          /\ \A c \in Currency : purse'[c] = purse[c] - Cost(t, c)
      <3>1. purse' = [c \in Currency |-> purse[c] - Cost(t, c)]
        BY <1>6 DEF ApplyTemplate, TemplatePay
      <3>2. \A c \in Currency : purse[c] >= Cost(t, c)
        BY <1>6 DEF ApplyTemplate, Affordable
      <3>3. \A c \in Currency : purse[c] - Cost(t, c) \in Nat
        BY <1>0, <2>2, <3>2
      <3> QED  BY ONLY <3>1, <3>3
    <2>4. UNCHANGED <<rack, light, removed>>
      BY <1>6 DEF ApplyTemplate
    <2>5. RoomsType'
      BY <1>0, <2>1, <2>3, <2>4 DEF RoomsType
    <2>6. ASSUME NEW c \in Currency PROVE RoomAt(c, purse', rack', office', removed')
      <3>1. purse'[c] \in Nat
        BY <2>3
      <3> QED  BY <1>m, <2>2, <2>3, <2>4, <3>1 DEF RoomAt
    <2> QED  BY <2>5, <2>6
  <1>7. ASSUME UNCHANGED roomsVars PROVE Goal
    BY <1>0, <1>7, <1>m DEF roomsVars, RoomsType
  <1> QED  BY <1>1, <1>2, <1>3, <1>4, <1>5, <1>6, <1>7 DEF RoomsNext

LEMMA RoomsAlways == RoomsSpec => []RoomsInv
  BY RoomsStart, RoomsStep, PTL DEF RoomsSpec

\* Money is neither made nor lost by furnishing: what the player started with is in
\* the purse, in the rooms at full price, or is the half that removals cost.
THEOREM FurnishingAddsUp == RoomsSpec => []FurnishingLedger
  <1>1. RoomsInv => FurnishingLedger
    BY DEF RoomsInv
  <1> QED  BY <1>1, RoomsAlways, PTL

\* A template comes in whole or not at all, and no piece is ever replaced by
\* another one (applyTemplate, planTemplate).
THEOREM TemplatesAreWhole == RoomsSpec => TemplateAllOrNothing
  <1> DEFINE new == {c \in Cell : office[c] # office'[c]}
             Whole == /\ \A c \in new : office[c] = Empty \/ office'[c] = Empty
                      /\ Cardinality(new) > 1 =>
                           \E t \in Template : \A c \in DOMAIN Pieces(t) : office'[c] = Pieces(t)[c]
  <1>1. RoomsInv /\ [RoomsNext]_roomsVars => [Whole]_roomsVars
    <2> SUFFICES ASSUME RoomsInv, RoomsNext PROVE Whole
      OBVIOUS
    <2>0. office \in [Cell -> Furniture \cup {Empty}]
      BY DEF RoomsInv, RoomsType
    <2>a. ASSUME new = {} PROVE Whole
      BY <2>a, FS_EmptySet
    <2>b. ASSUME NEW p \in Cell, new \subseteq {p}, office[p] = Empty \/ office'[p] = Empty
          PROVE  Whole
      <3>1. Cardinality(new) <= 1 /\ Cardinality(new) \in Nat
        <4>1. IsFiniteSet({p}) /\ Cardinality({p}) = 1
          BY FS_Singleton
        <4> HIDE DEF new
        <4>2. new \in SUBSET {p}
          BY <2>b
        <4>3. IsFiniteSet(new) /\ Cardinality(new) <= 1
          BY <4>1, <4>2, FS_Subset
        <4> QED  BY <4>3, FS_CardinalityType
      <3>2. ~(Cardinality(new) > 1)
        BY <3>1
      <3> QED  BY <2>b, <3>2
    <2>1. ASSUME NEW k \in Component, BuyComponent(k) PROVE Whole
      BY <2>1, <2>a DEF BuyComponent
    <2>2. ASSUME NEW s \in Slot, RemoveComponent(s) PROVE Whole
      BY <2>2, <2>a DEF RemoveComponent
    <2>3. ASSUME NEW p \in Cell, NEW f \in Furniture, Install(f, p) PROVE Whole
      <3>1. new \subseteq {p} /\ office[p] = Empty
        BY <2>0, <2>3 DEF Install
      <3> QED  BY <2>b, <3>1
    <2>4. ASSUME NEW p \in Cell, Remove(p) PROVE Whole
      <3>1. new \subseteq {p} /\ office'[p] = Empty
        BY <2>0, <2>4 DEF Remove
      <3> QED  BY <2>b, <3>1
    <2>5. ASSUME NEW l \in Light, SetLight(l) PROVE Whole
      BY <2>5, <2>a DEF SetLight
    <2>6. ASSUME NEW t \in Template, ApplyTemplate(t) PROVE Whole
      <3>1. \A c \in Cell : office'[c] = IF c \in Missing(t) THEN Pieces(t)[c] ELSE office[c]
        BY <2>6 DEF ApplyTemplate
      <3>2. \A c \in DOMAIN Pieces(t) : office'[c] = Pieces(t)[c]
        BY <2>6, <3>1, RoomsAssumption DEF ApplyTemplate, Blocked, Missing
      <3>3. \A c \in new : office[c] = Empty
        BY <3>1 DEF Missing
      <3> QED  BY <3>2, <3>3
    <2> QED  BY <2>1, <2>2, <2>3, <2>4, <2>5, <2>6 DEF RoomsNext
  <1> QED  BY <1>1, RoomsAlways, PTL DEF RoomsSpec, TemplateAllOrNothing
=============================================================================
