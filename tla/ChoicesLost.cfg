CONSTANTS
    codex = codex
    claude = claude
    fast = fast
    deep = deep
    a1 = a1
    p1 = p1
    None = none
    Providers = {codex, claude}
    Models = {fast, deep}
    Efforts <- TheEfforts
    DefaultModel = fast
    DefaultEffort <- TheDefault
    Catalogs <- TheCatalogs
    Agents = {a1}
    Projects = {p1}
    ProviderOf <- TheProviders
    IdCycle = 3
    MaxSessions = 1
    MaxChoices = 2
    MaxErrors = 2
SPECIFICATION Spec
PROPERTIES
    ChoicesSurviveErrors
CHECK_DEADLOCK FALSE
