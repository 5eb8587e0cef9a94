CONSTANTS
    codex = codex
    claude = claude
    p1 = p1
    p2 = p2
    p3 = p3
    none = none
    Agents <- OneAgent
    Prompts <- TwoPrompts
    AgentOf <- BothForOne
    Steerable <- NoAgent
    NoPrompt = none
    MaxTimeouts = 0
    MaxDisconnects = 1
    MaxIds = 4
SPECIFICATION Spec
INVARIANTS
    NothingLost
CHECK_DEADLOCK FALSE
