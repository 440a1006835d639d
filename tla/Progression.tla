---------------------------- MODULE Progression ----------------------------
(***************************************************************************)
(* The level-up rule (AD-009) and the HP rule that gear, skins, skills and *)
(* the notebook share, as pure operators on the numbers of a player.       *)
(* LevelUp checks GainXP, written here in closed form, against the loop of *)
(* the code.                                                               *)
(***************************************************************************)
EXTENDS Integers

CONSTANTS FirstXP,  \* xpMax of level 1 (500 in the code)
          HalfXP,   \* half of what each level adds to xpMax (125)
          FirstHP,  \* hpMax of level 1 (100)
          LevelHP   \* what each level adds to hpMax (20)

ASSUME ProgressionAssumption ==
  /\ FirstXP \in Nat \ {0} /\ HalfXP \in Nat
  /\ FirstHP \in Nat \ {0} /\ LevelHP \in Nat

VARIABLE hero  \* the part of the player that these rules read and write

Hero == [level : Nat \ {0}, xp : Nat, xpMax : Nat \ {0},
         hp : Nat, hpMax : Int, skillPoints : Nat]

NewHero == [level |-> 1, xp |-> 0, xpMax |-> FirstXP,
            hp |-> FirstHP, hpMax |-> FirstHP, skillPoints |-> 1]

\* The xp that k level-ups cost a hero whose next one costs xpMax.
CostOf(k, xpMax) == k * xpMax + HalfXP * (k * (k - 1))

\* All the xp a hero of level 1 has to earn to become this one.
TotalXP(h) == CostOf(h.level - 1, FirstXP) + h.xp

\* The level-ups that xp more pay for: as many as the total affords.
LevelsFor(h, xp) ==
  LET total == h.xp + xp
  IN  CHOOSE k \in 0 .. total : /\ CostOf(k, h.xpMax) <= total
                                /\ total < CostOf(k + 1, h.xpMax)

\* The hero after k level-ups; each one refills the life.
Raised(h, xp, k) ==
  [level       |-> h.level + k,
   xp          |-> h.xp + xp - CostOf(k, h.xpMax),
   xpMax       |-> h.xpMax + 2 * HalfXP * k,
   hpMax       |-> h.hpMax + LevelHP * k,
   hp          |-> IF k > 0 THEN h.hpMax + LevelHP * k ELSE h.hp,
   skillPoints |-> h.skillPoints + k]

GainXP(h, xp) == Raised(h, xp, LevelsFor(h, xp))

\* A bonus of delta hp starts or stops counting.
ChangeHP(h, delta) ==
  [h EXCEPT !.hpMax = @ + delta,
            !.hp = IF h.hp + delta > 1 THEN h.hp + delta ELSE 1]

\* math.Round(a * pct / 100), for natural numbers.
Percent(a, pct) == (a * pct + 50) \div 100
=============================================================================
