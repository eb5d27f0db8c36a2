CONSTANTS
  Conn = {c1, c2}
  Req = {r1, r2}
  MaxLive = 2
SPECIFICATION Spec
INVARIANTS
  AttachedIsServed
