SPECIFICATION Spec
CONSTANTS
    None = None
    PaperAccount = {"DU1"}
    LiveAccount = {"U2"}
    Patience = 3
    Identity <- MCIdentity
    AccountOf <- MCAccountOf
    SymbolOf <- MCSymbolOf
    Omits <- MCOmits
    Contract = {"c1", "c2"}
    Fill = {"f1", "f2"}
    DayOf <- MCDayOf
    Days = 3
    TopClose = 2
    ConId = {1, 2}
    MaxScans = 2
    MaxRows = 2
    MaxGhosts = 1
    MaxRank = 3
    Exchange = {"X", "Y"}
    Symbols <- MCSymbols
    MaxFailures = 2
INVARIANT
    WorkingOrderNeverHidden
