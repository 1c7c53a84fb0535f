CONSTANTS
    Files <- MCFiles
    Base = 4
    TickerSize = 1
    ValueSize = 2
SPECIFICATION Spec
INVARIANTS TypeOK PathsAgree TimestampsAreEpochs
PROPERTY ImplementsFeed
