SPECIFICATION MCSpec
CONSTANTS
  Worker = {w1, w2}
  Main = Main
  Tui = Tui
  ServerId = {d1, d2}
  None = None
  Config <- MCConfig
CHECK_DEADLOCK FALSE
INVARIANTS TypeOK ChainsHold EndsInOrder AcceptsWhileRunning
PROPERTIES ShutdownEnds Listed
