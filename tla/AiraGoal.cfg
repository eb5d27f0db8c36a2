CONSTANTS
  MaxGoals = 2
  MaxRounds = 2
  MaxResults = 1
SPECIFICATION FairSpec
INVARIANTS
  RoundsBounded
  RecoveredNeedsUser
  OrphansStopped
PROPERTIES
  TerminalIsFinal
  VerifyingEnds
