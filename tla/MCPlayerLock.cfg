CONSTANTS
  alice = alice
  bob = bob
  buy = buy
  sell = sell
  other = other
  me = me
  NoPlayer = NoPlayer
  NoRequest = NoRequest
  NoKid = 0
  Tables = 2
  PoolSize = 2
  User <- MCUser
  Request <- MCRequest
  Reader <- MCReader
  ReaderUser <- MCReaderUser
  Row <- MCRow
  Kid <- MCKid
  UserOf <- MCUserOf
  Accepts <- MCAccepts
  After <- MCAfter
SPECIFICATION MCSpec
INVARIANTS
  LockedExactly
  Fresh
  QuietReadIsExact
PROPERTIES
  ImplementsStore
  EveryCallEnds
CHECK_DEADLOCK FALSE
