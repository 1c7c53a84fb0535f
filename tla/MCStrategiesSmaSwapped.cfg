CONSTANTS
    Args <- MCSmaSwapped
    Bars <- MCSoundBars
    Infinity = 1000
    MaxBars = 6
SPECIFICATION Spec
INVARIANT SmaBuysOnFastAbove
