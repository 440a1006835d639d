SPECIFICATION RoomsSpec
CONSTANTS
  cpu = cpu
  ram = ram
  poster = poster
  desk = desk
  chair = chair
  natural = natural
  neon = neon
  basic = basic
  gamer = gamer
  Currency = {"coins", "gems"}
  Component = {cpu, ram}
  RackSlots = 2
  Furniture = {poster, desk, chair}
  Zone = {"wall", "floor"}
  Cells <- MCCells
  ZoneOf <- MCZoneOf
  Price <- MCPrice
  Comfort <- MCComfort
  Light = {natural, neon}
  FirstLight = natural
  LightComfort <- MCLightComfort
  Template = {basic, gamer}
  Pieces <- MCPieces
  Money <- MCMoney
  Empty = Empty
  MaxRemoved = 3
INVARIANTS
  FurnishingLedger
PROPERTY TemplateAllOrNothing
