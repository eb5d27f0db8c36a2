CONSTANTS
  t1 = t1
  t2 = t2
  t3 = t3
  Task <- Tasks3
  MaxConcurrency = 1
SPECIFICATION OFairSpec
INVARIANTS
  DependenciesCompleteFirst
  FailurePropagates
  NoLostWakeup
  RecordsMatchScheduler
  TruthfulOutcome
PROPERTIES
  NoLaunchAfterAbort
  SettledIsFinal
  CancelDrains
  BatchReturns
