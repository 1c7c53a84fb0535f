CONSTANTS
    Equities <- MCEquities
    Pnls <- MCPnls
    MaxBars = 5
    MaxTrades = 2
SPECIFICATION Spec
INVARIANTS DrawdownIsWorstFall MetricsAgree
