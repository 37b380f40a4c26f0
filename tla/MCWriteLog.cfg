SPECIFICATION FairSpec
CONSTANTS
    Orders <- MCOrders
    Order <- MCOrder
    Sessions = {a, b}
    Keys = {k1, k2, k3, k4, k5}
    Texts = {t1, t2, key}
    Evidence = {e1}
    Scopes = {private, run}
    RunScopes = {run}
    Secrets = {key}
    Budgets <- MCBudgets
    None = None
    Unique = Unique
    MaxFacts = 4
    MaxObservations = 6
    a = a
    b = b
    k1 = k1
    k2 = k2
    k3 = k3
    k4 = k4
    k5 = k5
    t1 = t1
    t2 = t2
    key = key
    e1 = e1
    private = private
    run = run
INVARIANTS
    EvidenceSound
PROPERTIES
    OneOutcomePerKey
    EveryAskAnswered
CHECK_DEADLOCK FALSE
