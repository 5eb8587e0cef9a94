CONSTANTS
    codex = codex
    claude = claude
    p1 = p1
    p2 = p2
    p3 = p3
    none = none
    Agents = {codex, claude}
    Prompts = {p1, p2, p3}
    AgentOf <- TwoForOne
    Steerable = {codex}
    NoAgent = none
    MaxTimeouts = 1
    MaxDisconnects = 1
    MaxIds = 4
    t1 = t1
    t2 = t2
    blank = blank
    Turns = {t1, t2}
    Unmeasured = blank
    BatchLimit = 2
    MaxSent = 3
    MaxAttachments = 2
    MaxTexts = 2
    MaxSends = 2
    MaxAdded = 4
    BroadcastCapacity = 2
    ChannelCapacity = 1
    MaxAttempts = 2
    MaxEvents = 3
SPECIFICATION ConversationSpec
INVARIANTS
    QueueKeepsOrder
    DeliveryIsHonest
    NothingOutdated
    ShowsWhatWasSent
    TurnsAreTracked
    FirstCompletionAdvances
    HoldsItsOwn
PROPERTIES
    OnlyDisconnectLoses
    TextSurvives
CHECK_DEADLOCK FALSE
