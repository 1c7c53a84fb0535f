CONSTANTS
    sma = sma
    typo = typo
    Name <- MCName
    Known <- MCKnown
    Batches <- MCBatches
    Reported <- MCReported
SPECIFICATION FairSpec
INVARIANTS TypeOK InFlightBounded NoOrphans NothingStartsUnprepared
PROPERTIES ImplementsSequential Terminates
