SPECIFICATION FairSpec
CONSTANTS
    Caller = {c1, c2}
    Key = {k1}
    None = None
INVARIANTS
    TypeOK
    OnlyEarlyReturnStrands
PROPERTIES
    CascadeExhausted
    QuoteAnswered
