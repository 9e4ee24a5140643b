SPECIFICATION Spec
CONSTANTS
    Session = {s1, s2}
    None = None
    ProbeLimit = 3
    SelfLimit = 3
    MaxFailures = 2
    HttpMode = TRUE
INVARIANT GetClientMeansConnected
