SPECIFICATION MixSpec
CONSTANTS
    Slots = {s1}
    Values = {v1, v2}
    Texts = {v1, v2}
    Authorities = {1, 2}
    Times = {1, 2}
    Clients = {agent, corrector, owner}
    CorrectionAuthority = {corrector, owner}
    ResolutionAuthority = {owner}
    agent = agent
    corrector = corrector
    owner = owner
    s1 = s1
    v1 = v1
    v2 = v2
    NoSlot = NoSlot
    Erased = Erased
    Citations = {0, 1}
    MaxFacts = 3
INVARIANTS
    OneSettledValue
    BelievedIntervalsDisjoint
    ConflictsSound
    HistorySound
PROPERTIES
    HistoryKept
    TruthReplacement
SYMMETRY Valued
