CONSTANTS
  MaxGoals = 2
  MaxRounds = 2
  MaxResults = 2
SPECIFICATION FairSpec
PROPERTIES
  CompletionIsFresh
