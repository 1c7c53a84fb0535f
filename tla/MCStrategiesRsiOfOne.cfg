CONSTANTS
    Args <- MCRsiOfOne
    Bars <- MCBars
    Infinity = 1000
    MaxBars = 6
SPECIFICATION Spec
INVARIANT LeavesWhenOverbought
