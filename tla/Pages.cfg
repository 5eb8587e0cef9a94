CONSTANTS
    p1 = p1
    p2 = p2
    w1 = w1
    w2 = w2
    a1 = a1
    root = root
    sub = sub
    readme = readme
    None = none
    Projects <- TheProjects
    Workspaces <- TheWorkspaces
    Agents <- TheAgents
    ProjectOf <- TheProjectOf
    WorkspaceOf <- TheWorkspaceOf
    Dirs <- TheDirs
    Files <- TheFiles
    Root = root
    ParentOf <- TheParents
    Changes <- TheChanges
    MaxChanges = 1
    MaxSelections = 1
    MaxReads = 2
    Targets = {x, y}
    SourceFolders = 2
    MaxSubmissions = 3
    MaxLosses = 2
    Plans = {s1, s2}
    MaxTicks = 3
    MaxOperations = 1
    MaxVisits = 2
    PluginIds = {g1, g2}
    MaxPluginOps = 2
    MaxPluginVisits = 2
    DeviceIds = {x, y}
    MaxDeviceCalls = 4
    codex = codex
    claude = claude
    fast = fast
    deep = deep
    Providers = {codex, claude}
    Models = {fast, deep}
    Efforts <- TheEfforts
    DefaultModel = fast
    DefaultEffort <- TheDefault
    Catalogs <- TheCatalogs
    ProviderOf <- TheProviders
    IdCycle = 3
    MaxSessions = 1
    MaxChoices = 2
    MaxErrors = 1
    Applications = {a, b}
    Endpoints = {e1, e2, lan}
    Loopback = {e1, e2}
    DefaultEndpoint = e1
    Hosts = {h1, h2}
    MaxProfiles = 3
    MaxRestarts = 1
SPECIFICATION PagesSpec
INVARIANTS
    EveryPageIsFresh
    BusyHasWork
    ConfirmedIsShown
    RepeatedIsAppliedOnce
    ReportedSourcesExist
    ShownDevicesArePaired
    ChoicesAreOffered
    ActionsAreLimited
CHECK_DEADLOCK FALSE
