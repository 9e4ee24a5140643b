SPECIFICATION FairUse
CONSTANTS
    Session = {s1, s2}
    None = None
    Closed = Closed
    ProbeLimit = 2
    SelfLimit = 1
    MaxFailures = 2
    HttpMode = FALSE
PROPERTIES
    LinkRestored
    OutageReported
    StaleSessionWithdrawn
    ShutdownCompletes
    ImplementsClientSlot
