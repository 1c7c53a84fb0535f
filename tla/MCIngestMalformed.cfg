CONSTANTS
    Files <- MCMalformed
    Base = 4
    TickerSize = 1
    ValueSize = 2
SPECIFICATION Spec
INVARIANT SkipsTheSameRows
