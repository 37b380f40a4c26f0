SPECIFICATION FairSpec
CONSTANTS
    Servers = {s1, s2}
    Operator = Operator
    Nobody = Nobody
    Conns = {c1, c2}
    Backlog = 2
    Handlers = {h1, h2}
    Major = 1
    Minor = 0
    MaxFrame = 1
    Malformed = Malformed
    Nothing = Nothing
    Config <- MCConfig
    Lines <- MCLines
    s1 = s1
    s2 = s2
    c1 = c1
    c2 = c2
    h1 = h1
    h2 = h2
INVARIANTS
    Ownership
    HandlersOrderly
    WorkIsGranted
PROPERTIES
    NobodyWaitsForEver
