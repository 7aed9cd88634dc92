SPECIFICATION Spec
CONSTANTS
  Sender = {p1, p2}
  Session = {s1, s2}
  User = {u1, u2}
  None = None
  MaxPerUser = 2
  MaxTotal = 3
  Ttl = 1
  MaxMessages = 2
  MaxTime = 1
  Faults = FALSE
SYMMETRY Symmetry
INVARIANTS TypeOK OneCopyOrDropped InOrderByTheSameWay OneStrandedPerSender
