SPECIFICATION Spec
CONSTANTS
  FirstXP = 2
  HalfXP = 0
  FirstHP = 3
  LevelHP = 1
  Region = {"vila", "torre"}
  Home = "vila"
  MinLevel <- MCMinLevel
  PathLength <- MCPathLength
  NodeEnemy <- MCNodeEnemy
  Wild <- MCWild
  Command <- MCCommand
  Potion <- MCPotion
  Loot = "null_shard"
  PotionDrop = "sp_potion"
  StartItems <- MCStartItems
  CounterBlow = {1, 2}
  SPRegen = 1
  WeakPercent = 180
  VictoryXP = 2
  VictoryCoins = 1
  MaxPower = 2
  PerHit = 1
  PerCrit = 2
  BonusSP = {0, 1}
  BonusRegen = {0}
  BonusDamage = {0, 50}
  NoFight = NoFight
  NoNode = NoNode
  MaxFights = 3
PROPERTY FoughtInRegion
