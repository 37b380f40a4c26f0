SPECIFICATION QueueFairSpec
CONSTANTS
    Processes = {hermes, mcp}
    Transcripts = {t}
    Texts = {a, b, c}
    Extractions <- MCExtractions
    Near <- MCNear
    Updates <- MCUpdates
    Chances <- MCChances
    None = None
    MaxRows = 2
    MaxAttempts = 2
    MaxGeneration = 2
    a = a
    b = b
    c = c
INVARIANTS
    
    QueueSound
PROPERTIES
    RowsEndWell
CHECK_DEADLOCK FALSE
