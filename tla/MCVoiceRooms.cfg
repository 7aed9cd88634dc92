SPECIFICATION Spec
CONSTANTS
  User = {u1, u2, u3}
  Channel = {c1, c2}
  None = None
  MaxPerRoom = 2
SYMMETRY Symmetry
INVARIANTS TypeOK RoomsSound ViewsAgree
