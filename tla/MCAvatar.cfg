SPECIFICATION AvatarSpec
CONSTANTS
  hair = hair
  top = top
  masculino = masculino
  feminino = feminino
  curto = curto
  rabo = rabo
  trancas = trancas
  moicano = moicano
  camiseta = camiseta
  regata = regata
  moletom = moletom
  Part = {hair, top}
  Option = {curto, rabo, trancas, moicano, camiseta, regata, moletom}
  Body = {masculino, feminino}
  NoOption = NoOption
  PartOf <- MCPartOf
  Bodies <- MCBodies
  GearOnly = {moletom}
  Price <- MCPrice
  Default <- MCDefault
  Coins = 2
  Tokens = 4
INVARIANTS
  LooksSound
  LookComesBack
