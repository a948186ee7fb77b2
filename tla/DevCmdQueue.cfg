SPECIFICATION FairSpec
CONSTANTS
  dev = dev
  Serial = {x}
  MaxConn = 2
  QueueDepth = 1
  Dispatcher <- MCDispatcher
  Msg <- MCMsg
  NoSession = NoSession
  NoMsg = NoMsg
  Cmd = {qr}
  Queued = {qr}
  Linked = {}
  Device = {dev}
  DeviceOf <- MCDeviceOf
  NoSerial = NoSerial
  FlushLimit = 2
  DbFaults = FALSE
  MaxCrash = 1
  MaxReenroll = 0
INVARIANT NoLostPending
PROPERTY QueuedReachesAgent
CHECK_DEADLOCK FALSE
