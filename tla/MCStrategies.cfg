CONSTANTS
    Args <- MCArgs
    Bars <- MCBars
    Infinity = 1000
    MaxBars = 6
SPECIFICATION Spec
INVARIANTS TypeOK FollowsItsRule FlatInOpeningRange LeavesWhenOverbought
PROPERTY ImplementsSignaller
