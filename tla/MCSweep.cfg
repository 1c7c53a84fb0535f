CONSTANTS
    aapl = aapl
    nvda = nvda
    Strats <- MCStrats
    Forms <- MCForms
    Weights <- MCWeights
    Engines <- MCEngines
SPECIFICATION PageSpec
INVARIANTS ShownAsRun WinnerNotDominated
