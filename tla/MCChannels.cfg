SPECIFICATION MCSpec
CONSTANTS
  User = {u1, u2}
  Nick = {}
  Channel = {c1}
  Worker = {w1, w2}
  Nobody = Nobody
  None = None
  Mixes <- MCMixes
  MaxCommands = 5
  MaxListed = 4
SYMMETRY Symmetry
INVARIANTS TypeOK BannedAreOut RightsOfOutsiders NicksAreCurrent ListsAgree
