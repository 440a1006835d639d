SPECIFICATION Spec
CONSTANTS
  potion = potion
  shard = shard
  moletom = moletom
  hoodie = hoodie
  golden = golden
  brew = brew
  sew = sew
  FirstXP = 3
  HalfXP = 1
  FirstHP = 4
  LevelHP = 1
  Item = {potion, shard}
  Gear = {moletom, hoodie}
  Skin = {DefaultSkin, golden}
  GearSlot = {"torso"}
  Recipe = {brew, sew}
  Currency = {"coins", "gems"}
  DefaultSkin = DefaultSkin
  NoGear = NoGear
  SlotOf <- MCSlotOf
  HPOf <- MCHPOf
  Price <- MCPrice
  ForSale = {potion, moletom, golden}
  Need <- MCNeed
  Output <- MCOutput
  XPOf <- MCXPOf
  StartItems <- MCStartItems
  Reward <- MCReward
  MaxRewards = 2
INVARIANTS
  KitSound
  HPLedger
  MoneyLedger
  MaterialsLedger
