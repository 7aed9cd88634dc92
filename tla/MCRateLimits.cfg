SPECIFICATION RateLiveSpec
CONSTANTS
  Strand = {h1, h2}
  Absent = Absent
  Max <- MCMax
  Window = 2
  MaxViolations = 2
  ViolationWindow = 1
  BanDuration = 2
INVARIANTS RateTypeOK GrantsBounded
PROPERTIES BansJust BanEnds
