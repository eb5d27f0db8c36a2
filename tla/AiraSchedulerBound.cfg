CONSTANTS
  t1 = t1
  t2 = t2
  t3 = t3
  Task <- Tasks3
  MaxConcurrency = 1
SPECIFICATION Spec
INVARIANTS
  ConcurrencyBounded
