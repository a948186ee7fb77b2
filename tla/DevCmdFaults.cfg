SPECIFICATION Spec
CONSTANTS
  dev = dev
  Serial = {x, y}
  MaxConn = 1
  QueueDepth = 1
  Dispatcher <- MCDispatcher
  Msg <- MCMsg
  NoSession = NoSession
  NoMsg = NoMsg
  Cmd = {op}
  Queued = {}
  Linked = {op}
  Device = {dev}
  DeviceOf <- MCDeviceOf
  NoSerial = NoSerial
  FlushLimit = 2
  DbFaults = TRUE
  MaxCrash = 0
  MaxReenroll = 1
INVARIANTS CommandsHonest StaleCertificateCannotReport OutcomeIsJournalled
PROPERTY RefusalKeepsOutcome
SYMMETRY SerialSymmetry
CHECK_DEADLOCK FALSE
