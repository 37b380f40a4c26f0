SPECIFICATION MergeSpec
CONSTANTS
    Slots = {s1}
    Values = {v1, v2}
    Texts = {v1, v2, v3}
    Authorities = {1}
    Times = {}
    Clients = {owner}
    CorrectionAuthority = {}
    ResolutionAuthority = {owner}
    owner = owner
    s1 = s1
    v1 = v1
    v2 = v2
    v3 = v3
    NoSlot = NoSlot
    Erased = Erased
    Citations = {0, 1}
    MaxFacts = 4
INVARIANTS
    MergeSound
