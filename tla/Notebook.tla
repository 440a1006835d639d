------------------------------ MODULE Notebook ------------------------------
(***************************************************************************)
(* The notebook of one player, enhanced level by level, and its upgrades,  *)
(* each with levels of its own that ask for a notebook level.  Both add hp *)
(* to the stored hpMax as the difference between two levels.  Each handler *)
(* runs in one locked transaction (PlayerLock) and is one step; Life puts  *)
(* these steps beside the others that change the same numbers.             *)
(***************************************************************************)
EXTENDS Progression, FiniteSetsExt

CONSTANTS Levels,           \* the levels of the notebook
          EnhanceCost(_),   \* the coins of going up to a level
          LevelBonusHP(_),  \* the hp of a notebook level
          Upgrades,         \* the upgrades of the catalog
          Steps(_),         \* the levels of an upgrade
          StepMinLevel(_, _), StepCost(_, _),
          StepHP(_, _)      \* the hp at a step, 0 for another bonus and at step 0

\* The first level gives least hp (TestCatalog_Notebook).
ASSUME NotebookAssumption ==
  /\ Levels \in Nat \ {0} /\ IsFiniteSet(Upgrades)
  /\ \A l \in 1 .. Levels : EnhanceCost(l) \in Nat /\ LevelBonusHP(l) \in Nat
                         /\ LevelBonusHP(1) <= LevelBonusHP(l)
  /\ \A u \in Upgrades : Steps(u) \in Nat /\ StepHP(u, 0) = 0
  /\ \A u \in Upgrades : \A k \in 1 .. Steps(u) :
       {StepMinLevel(u, k), StepCost(u, k), StepHP(u, k)} \subseteq Nat

VARIABLES coins,     \* players.coins
          notebook,  \* players.notebook_level
          steps      \* player_notebook_upgrades, 0 for no row

notebookVars == <<coins, notebook, steps>>

NotebookInit == /\ coins = 0
                /\ notebook = 1
                /\ steps = [u \in Upgrades |-> 0]

Pay(cost) == coins >= cost /\ coins' = coins - cost
-----------------------------------------------------------------------------
\* (Fault) The level the notebook has is paid for, not the next one.
EnhanceAtOldCost ==
  /\ notebook < Levels
  /\ Pay(EnhanceCost(notebook))
  /\ hero' = ChangeHP(hero, LevelBonusHP(notebook + 1) - LevelBonusHP(notebook))
  /\ notebook' = notebook + 1
  /\ UNCHANGED steps

\* The next level, refused at the last one before the coins are looked at.
Enhance ==
  /\ notebook < Levels
  /\ Pay(EnhanceCost(notebook + 1))
  /\ hero' = ChangeHP(hero, LevelBonusHP(notebook + 1) - LevelBonusHP(notebook))
  /\ notebook' = notebook + 1
  /\ UNCHANGED steps

HasLevelFor(u, k) == notebook >= StepMinLevel(u, k)

MayStep(u) == steps[u] < Steps(u)

\* The next level of an upgrade.
UpgradeNotebook(u) ==
  LET k == steps[u] + 1
  IN  /\ MayStep(u)
      /\ HasLevelFor(u, k)
      /\ Pay(StepCost(u, k))
      /\ hero' = ChangeHP(hero, StepHP(u, k) - StepHP(u, k - 1))
      /\ steps' = [steps EXCEPT ![u] = k]
      /\ UNCHANGED notebook

NotebookStep == Enhance \/ \E u \in Upgrades : UpgradeNotebook(u)
-----------------------------------------------------------------------------
NotebookType == /\ coins \in Nat
                /\ notebook \in 1 .. Levels
                /\ \A u \in Upgrades : steps[u] \in 0 .. Steps(u)

\* What the notebook gives to hpMax: its level, not all it has been, and the
\* upgrades at their steps.
NotebookHP == (LevelBonusHP(notebook) - LevelBonusHP(1))
                + SumFunction([u \in Upgrades |-> StepHP(u, steps[u])])

\* What the levels and the steps had cost, each once and at its own price.
CostOfUpgrade(u) == SumFunction([k \in 1 .. steps[u] |-> StepCost(u, k)])
NotebookCost == SumFunction([l \in 2 .. notebook |-> EnhanceCost(l)])
                  + SumFunction([u \in Upgrades |-> CostOfUpgrade(u)])
=============================================================================
