CONSTANTS
    t1 = t1
    t2 = t2
    r1 = r1
    Ticker <- MCTicker
    Reader <- MCReader
    Stamps <- MCStamps
    MaxTicks = 3
    MaxReads = 2
    Closes <- MCCloses
    Scale = 20
    Slip = 1
    PerShare = 1
    MinCommission = 4
    U32 = 8
    Capacity = 4
    InitialCash = 200
SPECIFICATION FairSpec
INVARIANTS TypeOK SnapshotConsistent SignalsIndexBars SharpeIsCurrent StoppedStateIsFinal AtMostOneBarAfterStop
PROPERTIES ImplementsAccount CallsReturn
