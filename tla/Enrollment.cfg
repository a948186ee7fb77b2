SPECIFICATION Spec
CONSTANTS
  r1 = r1
  r2 = r2
  r3 = r3
  a1 = a1
  a2 = a2
  NoRequest = NoRequest
  Request = {r1, r2, r3}
  Agent = {a1, a2}
  AgentOf <- MCAgentOf
  Token = {t1, t2}
  DbFaults = TRUE
  MaxStops = 1
CHECK_DEADLOCK FALSE
INVARIANTS TokenInv UsableMaterial
PROPERTIES ImplementsLedger IdentityKept
