SPECIFICATION SFairSpec
CONSTANTS
    MaxCalls = 2
    Limits <- MCLimits
INVARIANTS ResultsFollowCalls CallsAnswered OneSteeringPerTurn RequestSeesTranscript NothingLost
PROPERTIES NotStranded StaysStopped NoToolAfterAbort Settles
CHECK_DEADLOCK FALSE
