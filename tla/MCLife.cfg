SPECIFICATION Spec
CONSTANTS
  front = front
  back = back
  f1 = f1
  f2 = f2
  f3 = f3
  b1 = b1
  battery = battery
  turbo = turbo
  FirstXP = 1
  HalfXP = 1
  FirstHP = 4
  LevelHP = 2
  Class = {front, back}
  Node <- MCNode
  NoNode = NoNode
  ClassOf <- MCClassOf
  Previous <- MCPrevious
  MaxNodeLevel = 3
  Cost <- MCCost
  HPAt <- MCHPAt
  Slots = 2
  NoSlot = NoSlot
  Levels = 3
  EnhanceCost <- MCEnhanceCost
  LevelBonusHP <- MCLevelBonusHP
  Upgrades = {battery, turbo}
  Steps <- MCSteps
  StepMinLevel <- MCStepMinLevel
  StepCost <- MCStepCost
  StepHP <- MCStepHP
  Reward = 3
  RewardXP = {0, 10}
  MaxRewards = 5
INVARIANTS
  LoadoutSound
  PointsLedger
  HPLedger
  CoinsLedger
PROPERTY LoopIsGainXP
