SPECIFICATION Spec
CONSTANTS
  Proc = {p1, p2}
  MaxGen = 3
  MaxLosses = 1
INVARIANTS StoreInv ClientsStayTrusted
SYMMETRY ProcSymmetry
CHECK_DEADLOCK FALSE
