SPECIFICATION ReadSpec
CONSTANTS
    Slots = {s1, s2}
    Values = {v1, v2}
    Texts = {v1, v2}
    Authorities = {1}
    Times = {2}
    Clients = {owner}
    CorrectionAuthority = {}
    ResolutionAuthority = {owner}
    owner = owner
    s1 = s1
    s2 = s2
    v1 = v1
    v2 = v2
    NoSlot = NoSlot
    Erased = Erased
    Citations = {0}
    MaxFacts = 3
    MaxNow = 3
    Writers = {daemon}
    daemon = daemon
    Julian <- Milliseconds
INVARIANTS
    ChangesBridgeReads
    NoFactHidden
PROPERTIES
    AsOfStable
    ImplementsFactLife
SYMMETRY SlotSymmetry
