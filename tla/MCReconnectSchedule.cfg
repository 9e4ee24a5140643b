SPECIFICATION Spec
CONSTANTS
    FirstDelay = 500
    FastCap = 60000
    CalmInterval = 300000
    CalmAfter = 15
    PreflightMax = 5000
    HandshakeMax = 15000
    PollInterval = 30000
    MaxAttempts = 17
    MaxClock = 400000
INVARIANTS
    TypeOK
    HandshakeSpacing
    RecoveryWithinCalmInterval
