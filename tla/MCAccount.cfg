SPECIFICATION FairSpec
CONSTANTS
    Caller = {c1, c2}
    NLV = nlv
    Tags = {nlv, excess}
    None = None
    Corrupt = Corrupt
    CacheTtl = 1
    StaleMax = 2
    Cap = 1
INVARIANTS
    TypeOK
    OnePump
    LockDiscipline
    WaitBounded
    
PROPERTIES
    EveryCallAnswered
    PumpRecovers
