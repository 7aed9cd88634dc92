SPECIFICATION Spec
CONSTANTS
  Session = {s1, s2}
  User = {u1, u2}
  None = None
  Fold <- MCFold
  MaxConnections = 2
  MaxWrites = 1
  MaxQueue = 1
  MaxDrift = 0
SYMMETRY Symmetry
CHECK_DEADLOCK FALSE
INVARIANTS TypeOK RegistrySound SingleReadChain
PROPERTIES SessionsOnlyEnd ImplementsDirectory
