SPECIFICATION ComplianceSpec
CONSTANTS
  Reporter = {r1, r2}
  MaxCmd = 2
  MaxTurns = 1
INVARIANT ComplianceInv
PROPERTY RecoveredIsCompliant
