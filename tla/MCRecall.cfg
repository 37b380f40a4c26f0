SPECIFICATION RecallSpec
CONSTANTS
    MaxFacts = 3
    Workers = {w1, w2}
    w1 = w1
    w2 = w2
    NoWorker = NoWorker
    MaxAttempts = 2
    MaxCrashes = 1
    Worded = {1, 2}
    CandidateLimit = 1
    SampleSize = 1
    Unlimited = Unlimited
    HeaderChars = 85
    SummaryChars = 72
    MinKept = 8
    MaxFactChars = 120
    MaxResults = 2
    ItemChars = 100
    TotalChars = 550
    Texts <- MCTexts
    TokenBudgets = {21, 62, 120}
    Budgets <- MCBudgets
INVARIANTS
    OutboxSound
    IndexFaithful
    NothingMissed
    PromptSound
PROPERTIES
    EventuallyEmbedded
