CONSTANTS
    Closes <- MCPositiveCloses
    Scale = 20
    Slip = 1
    PerShare = 1
    MinCommission = 4
    U32 = 8
    Capacity = 2
    InitialCash = 200
    MaxBars = 6
SPECIFICATION Spec
INVARIANT NoNegativeCash
