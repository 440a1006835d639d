CONSTANTS
  backend = backend
  tab1 = tab1
  tab2 = tab2
  FirstXP = 3
  HalfXP = 1
  FirstHP = 3
  LevelHP = 1
  Type = {backend}
  DeployLevel = {1, 2}
  AskedLevel = {1, 2}
  Tier <- MCTier
  Bonuses <- MCBonuses
  BoostCut = 2
  Boosters = 2
  Slot = {tab1, tab2}
  MaxJobs = 2
  MaxClock = 3
  Idle = Idle
  Never = Never
SPECIFICATION Spec
INVARIANTS
  OneRunningPerType
  RewardLedger
  TimeIsPaid
PROPERTIES
  JobsAreFrozen
  ReadyIsClaimable
SYMMETRY MCSymmetry
