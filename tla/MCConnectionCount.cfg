SPECIFICATION Spec
CONSTANTS
  Session = {s1}
  User = {u1}
  None = None
  Fold <- MCFold
  MaxConnections = 1
  MaxWrites = 1
  MaxQueue = 1
  MaxDrift = 1
CHECK_DEADLOCK FALSE
INVARIANT CountNotNegative
