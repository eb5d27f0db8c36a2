CONSTANTS
  Lease = {l1, l2, l3}
  MaxInbox = 2
SPECIFICATION FairSpec
INVARIANTS
  ExclusiveIsAlone
  CountIsLeases
  NothingLeaked
PROPERTIES
  NotDetachedUnder
  AcquisitionEnds
