SPECIFICATION Spec
CONSTANTS
    Caller = {c1}
    Key = {k1}
    None = None
INVARIANT RealtimeIsDefault
