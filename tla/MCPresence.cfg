SPECIFICATION Spec
CONSTANTS
  Session = {s1, s2, s3}
  User = {u1, u2}
  None = None
SYMMETRY Symmetry
CHECK_DEADLOCK FALSE
INVARIANTS TypeOK ViewsSettle
