SPECIFICATION SSpec
CONSTANTS
    MaxCalls = 2
    Limits <- RecoveryLimits
INVARIANT ContinueAccepted
CHECK_DEADLOCK FALSE
