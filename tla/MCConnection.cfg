SPECIFICATION Spec
CONSTANTS
    Session = {s1, s2, s3}
    None = None
    ProbeLimit = 3
    SelfLimit = 3
    MaxFailures = 2
    HttpMode = TRUE
SYMMETRY Symmetry
INVARIANTS
    TypeOK
    SlotEmptyWhileReconnecting
    AtMostOneSession
    NoLeakedSession
    OutageFlagsAgree
    ExitOnlyWhenWedged
PROPERTIES
    ImplementsBrokerLink
