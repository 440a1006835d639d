-------------------------------- MODULE Life --------------------------------
(***************************************************************************)
(* One player's skills and notebook together, between rewards and fights.  *)
(* Nothing computes hpMax from its sources: the skill tree, the loadout,   *)
(* the notebook and the level-ups each add a difference of their own to    *)
(* the stored number, and each takes away what it believes it has added.   *)
(* So hpMax, points and coins must add up over any order of these steps.   *)
(***************************************************************************)
EXTENDS Skills, Notebook, LevelUp

CONSTANTS Reward,      \* the coins of a battle or a deploy
          RewardXP,    \* the xp it can give
          MaxRewards   \* bound: rewards

ASSUME LifeAssumption == Reward \in Nat /\ RewardXP \subseteq Nat /\ MaxRewards \in Nat

VARIABLE rewards  \* the rewards so far (ghost)

vars == <<hero, skillVars, notebookVars, start, rewards>>

Init == hero = NewHero /\ SkillsInit /\ NotebookInit /\ start = <<>> /\ rewards = 0

\* A battle or a deploy pays coins and xp, which may be worth several levels.
Earn(xp) == /\ rewards < MaxRewards
            /\ rewards' = rewards + 1
            /\ coins' = coins + Reward
            /\ Gain(xp)
            /\ UNCHANGED <<skillVars, notebook, steps>>

\* GainXP's loop runs inside the transaction that pays the reward.
Level == /\ Turn \/ Done
         /\ UNCHANGED <<skillVars, notebookVars, rewards>>

\* A battle leaves the player with any life; the two ends stand for all.
Fight == /\ \E hp \in {1, hero.hpMax} : hero' = [hero EXCEPT !.hp = hp]
         /\ UNCHANGED <<skillVars, notebookVars, start, rewards>>

Next == \/ ~Earning /\ SkillStep /\ UNCHANGED <<notebookVars, start, rewards>>
        \/ ~Earning /\ NotebookStep /\ UNCHANGED <<skillVars, start, rewards>>
        \/ \E xp \in RewardXP : Earn(xp)
        \/ Level
        \/ ~Earning /\ Fight

Spec == Init /\ [][Next]_vars
-----------------------------------------------------------------------------
TypeOK == /\ hero \in Hero
          /\ SkillsType
          /\ NotebookType
          /\ start = <<>> \/ start \in Hero \X Nat
          /\ rewards \in 0 .. MaxRewards

\* The stored hpMax is what the level, the equipped nodes and the notebook, each
\* at its level of now, amount to, whatever was put in, taken out and raised
\* before; and the life stays between 1 and it.
HPLedger ==
  /\ hero.hpMax = FirstHP + LevelHP * (hero.level - 1) + SkillsHP + NotebookHP
  /\ 1 <= hero.hp /\ hero.hp <= hero.hpMax

\* Every notebook level and every step was paid once, at its own price, and none
\* on credit.
CoinsLedger ==
  /\ coins >= 0
  /\ coins + NotebookCost = Reward * rewards
=============================================================================
