CONSTANTS
    Addresses = {0, 1}
    Data = {0, 1}
    Floating = 9
    GAP = 3
    KEEP = 1
SPECIFICATION Spec
INVARIANT TypeOK
INVARIANT NoContention
INVARIANT TakesOnlyTheCallsWord
INVARIANT ReadIsCurrent
PROPERTY CallsImplemented
