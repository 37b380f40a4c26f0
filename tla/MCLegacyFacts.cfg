SPECIFICATION FairSpec
CONSTANTS
    Processes = {hermes, mcp}
    Mcp = {mcp}
    Texts = {a1, a2, b}
    Insights = {insight}
    Near <- MCNear
    Updates <- MCUpdates
    Budgets <- MCBudgets
    None = None
    MaxFacts = 4
    a1 = a1
    a2 = a2
    b = b
INVARIANTS
    FactsSound
    CacheCoherent
PROPERTIES
    ReplacementsSettle
CHECK_DEADLOCK FALSE
