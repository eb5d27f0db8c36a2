CONSTANTS
  a = a
  b = b
  File <- Files1
  Explicit <- OneCaller
  Verdict = {"pass", "fail"}
  MaxClock = 2
SPECIFICATION FairSpec
INVARIANTS
  SingleFlight
PROPERTIES
  NoDuplicateVerification
  PublishedFreshIsAccurate
  ToolEditStales
  FlightEnds
