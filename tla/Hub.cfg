SPECIFICATION DeliverySpec
CONSTANTS
  Serial = {x}
  MaxConn = 2
  QueueDepth = 2
  Dispatcher = {d1, d2}
  Msg = {m1, m2, m3}
  NoSession = NoSession
  NoMsg = NoMsg
INVARIANTS
  RegistryInv
  NewestSessionReachable
  DeliveredInOrder
PROPERTY DeadSessionLeaves
CHECK_DEADLOCK FALSE
