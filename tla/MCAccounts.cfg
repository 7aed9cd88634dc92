SPECIFICATION Spec
CONSTANTS
  Session = {s1, s2}
  Client = {c1, c2}
  User = {u1}
  Key = {k1, k2}
  Password = {p1}
  None = None
  MaxGen = 2
  MaxOpks = 1
  Faults = TRUE
SYMMETRY Symmetry
INVARIANTS TypeOK OwnerOnly KeysMatchIdentity BundlesFresh
