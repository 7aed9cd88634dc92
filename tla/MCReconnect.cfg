SPECIFICATION LiveSpec
CONSTANTS
  Sender = {p1}
  Session = {s1, s2}
  User = {u1}
  None = None
  MaxPerUser = 2
  MaxTotal = 2
  Ttl = 1
  MaxMessages = 1
  MaxTime = 0
  Faults = FALSE
PROPERTY DeliveredAtReconnect
