SPECIFICATION UserSpec
CONSTANTS
  User = {u1, u2}
  AdminCall = {c1, c2}
PROPERTY AdminRemains
