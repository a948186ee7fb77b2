SPECIFICATION Spec
CONSTANTS
  MaxBody = 4
  Limit = 3
  Depth = 2
  MaxConn = 2
  MaxFaults = 2
  MaxFile = 4
  ChanCap = 3
  Wire = 2
  MaxDownFaults = 2
  User = {u1, u2}
  AdminCall = {c1}
  Source = {s}
  Browser = {w}
  DashQueue = 2
  MaxVer = 2
  MaxShell = 2
  MaxTrouble = 3
  Server = {p1, p2}
  Tool = {t}
  MaxMig = 2
  MaxFails = 2
  Pkg = {}
  Asset = {a}
  Handler = {}
  Job = {j}
  MaxDep = 0
  MaxCert = 1
  Automation = {x}
  MaxClock = 2
  MaxStops = 1
  Builtin = {b}
  RuleOffline = {o}
  RuleMetric = {m}
  Critical = {b, m}
  QueueCap = 1
  MaxEvents = 2
INVARIANTS TransferInv ServerInv  AlertInv
PROPERTIES TransferEnds AuthorityEnds
  DashboardLeaves AgentReturns StartsEnd ScheduleFollows
  RecoveredAlertCloses CriticalKeepsIncident StillOpenIsAnnounced
