CONSTANTS
  Conn = {c1, c2}
  MaxWorld = 2
SPECIFICATION FairSpec
INVARIANTS
  HelloFirst
PROPERTIES
  ImplementsMirror
  CatchesUp
