SPECIFICATION HubSpec
CONSTANTS
  Serial = {x}
  MaxConn = 3
  QueueDepth = 1
  Dispatcher = {d1}
  Msg = {m1}
  NoSession = NoSession
  NoMsg = NoMsg
INVARIANTS
  DispatchAnswers
CHECK_DEADLOCK FALSE
