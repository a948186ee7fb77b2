SPECIFICATION Spec
CONSTANTS
  Pkg = {p}
  Asset = {a}
  Handler = {h}
  Job = {j}
  MaxDep = 2
  MaxCert = 2
  Automation = {x}
  MaxClock = 2
  MaxStops = 0
  App = {m}
  Blob = {b1}
  CatHandler = {c1, c2}
  Install = {i1, i2}
  Profile = {f1, f2}
  Device = {d1, d2}
  Group = {g}
  Reader = {r1, r2}
  MaxPolEdits = 4
  Patcher = {q1, q2}
  Answer = {n}
  MaxPatches = 3
  Runner = {s1, s2}
  Second = {1, 2}
  Retention = 1
  MaxDay = 3
  Clerk = {k}
  Opener = {e1, e2}
  MaxInc = 2
  MaxNotes = 2
INVARIANTS DeploymentsHold FilesHold ProfilesHold WipeIsKept DeskInv
PROPERTY OutcomeStays
SYMMETRY CatSymmetry
CHECK_DEADLOCK FALSE
