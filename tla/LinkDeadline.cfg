SPECIFICATION LinkSpec
CONSTANTS
  MaxShell = 2
  MaxTrouble = 3
INVARIANT UplinkIsSent
