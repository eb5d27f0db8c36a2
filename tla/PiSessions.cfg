CONSTANTS
  Conn = {c1, c2}
  Req = {r1, r2}
  MaxLive = 2
SPECIFICATION FairSpec
INVARIANTS
  SingleRuntime
  NotDisposedInUse
  OnlyAttachedServed
PROPERTIES
  AbandonedEnds
