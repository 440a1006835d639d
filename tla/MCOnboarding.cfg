CONSTANTS
  ana = ana
  bia = bia
  DEV = DEV
  OPS = OPS
  ana1 = ana1
  ana2 = ana2
  bia1 = bia1
  bia2 = bia2
  bad = bad
  Nobody = Nobody
  User <- MCUser
  Name <- MCName
  Request <- MCRequest
  UserOf <- MCUserOf
  NameOf <- MCNameOf
  Valid <- MCValid
SPECIFICATION FairSpec
INVARIANTS
  NamesUnique
PROPERTIES
  ImplementsRegistry
  EveryCreateEnds
CHECK_DEADLOCK FALSE
