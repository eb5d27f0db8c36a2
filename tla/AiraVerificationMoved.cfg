CONSTANTS
  a = a
  b = b
  File <- Files2
  Explicit <- OneCaller
  Verdict = {"pass", "fail"}
  MaxClock = 2
SPECIFICATION FairSpec
PROPERTIES
  MovedSetIsStaled
