------------------------------- MODULE MCPages -------------------------------
(***************************************************************************)
(* The pages beside the conversation, one at a time: what the view shows   *)
(* of the workspace, resources, scheduled tasks, plugins, devices,         *)
(* provider catalog and integrations.  They share the session and nothing  *)
(* else, so TLC explores each of them by itself: `focus` says which one.   *)
(*                                                                         *)
(* One project with two workspaces, a task in the first, and an empty      *)
(* project.  A change touches a file and its directory, a directory and    *)
(* its parent, or everything.  Two providers: the second comes and goes,   *)
(* the first loses a model.                                                *)
(***************************************************************************)
EXTENDS WorkspaceView, TLC

CONSTANTS p1, p2, w1, w2, a1, root, sub, readme     \* WorkspaceView
CONSTANTS Targets, SourceFolders, MaxSubmissions, MaxLosses     \* ResourceMutations
CONSTANTS Plans, MaxTicks, MaxOperations, MaxVisits     \* Scheduled
CONSTANTS PluginIds, MaxPluginOps, MaxPluginVisits      \* Plugins
CONSTANTS DeviceIds, MaxDeviceCalls                     \* Devices
CONSTANTS codex, claude, fast, deep, Providers, Models, Efforts, DefaultModel, DefaultEffort,
          Catalogs, ProviderOf, IdCycle, MaxSessions, MaxChoices, MaxErrors     \* ProviderCatalog
CONSTANTS Applications, Endpoints, Loopback, DefaultEndpoint, Hosts, MaxProfiles,
          MaxRestarts                                   \* Integrations

TheProjects    == {p1, p2}
TheWorkspaces  == {w1, w2}
TheAgents      == {a1}
TheProjectOf   == [w \in {w1, w2} |-> p1]
TheWorkspaceOf == [a \in {a1} |-> w1]
TheDirs        == {root, sub}
TheFiles       == {readme}
TheParents     == (root :> root) @@ (sub :> root) @@ (readme :> root)
TheChanges     == {{root, readme}, {root, sub}, {sub}, {root, sub, readme}}

TheEfforts     == (fast :> {"low"}) @@ (deep :> {"low", "high"})
TheDefault     == (fast :> "low") @@ (deep :> "low")
TheCatalogs    == {(codex :> {fast, deep}) @@ (claude :> {}),
                   (codex :> {deep}) @@ (claude :> {fast})}
TheProviders   == a1 :> codex

VARIABLES
    focus,
    mSnapshot, op, task, fetched, kept, retry, armed, dialog, there, done, late, intent, project, ids, losses,
    onPage, shown, refresh, operation, inFlight, confirm, editing, clock, dPlans, due, ended,
    told, overtaken, operations, visits,
    catalog, listed, slot, busy, pArmed, pDialog, accounts, installed, at, wanted, warned, ops,
    pageVisits,
    supported, devices, call, dInFlight, dPending, offer, paired, open, dLate, unsure, calls,
    cOnline, resources, generation, models, failed, request, requestId, loop, chosen,
    projectProvider, provider, offered, reported, choices, errors,
    pane, prefs, saved, saveDue, access, accessTask, connector, connectorTask, input, tests,
    testTask, pending, iIds, restarts

Mut == INSTANCE ResourceMutations WITH snapshot <- mSnapshot
Sch == INSTANCE Scheduled
Plg == INSTANCE Plugins WITH armed <- pArmed, dialog <- pDialog
Dev == INSTANCE Devices WITH inFlight <- dInFlight, pending <- dPending, late <- dLate
Cat == INSTANCE ProviderCatalog WITH online <- cOnline, Projects <- {p1}
Int == INSTANCE Integrations WITH ids <- iIds

ASSUME PagesAssumption ==
    /\ Mut!MutationsAssumption /\ Sch!ScheduledAssumption /\ Plg!PluginsAssumption
    /\ Dev!DevicesAssumption /\ Cat!CatalogAssumption /\ Int!IntegrationsAssumption
    /\ SelectionAssumption /\ WorkspaceAssumption

wV == <<snapshot, sel, files, gits, queue, daemon, strayed, moves, reads>>
mV == <<mSnapshot, op, task, fetched, kept, retry, armed, dialog, there, done, late, intent,
        project, ids, losses>>
sV == <<onPage, shown, refresh, operation, inFlight, confirm, editing, clock, dPlans, due, ended,
        told, overtaken, operations, visits>>
pV == <<catalog, listed, slot, busy, pArmed, pDialog, accounts, installed, at, wanted, warned, ops,
        pageVisits>>
dV == <<supported, devices, call, dInFlight, dPending, offer, paired, open, dLate, unsure, calls>>
cV == <<cOnline, resources, generation, models, failed, request, requestId, loop, chosen,
        projectProvider, provider, offered, reported, choices, errors>>
iV == <<pane, prefs, saved, saveDue, access, accessTask, connector, connectorTask, input, tests,
        testTask, pending, iIds, restarts>>

Pages == {"workspace", "resources", "scheduled", "plugins", "devices", "catalog", "integrations"}

\* A page that is not looked at has one initial state.
PagesInit ==
    /\ focus \in Pages
    /\ Init /\ Mut!Init /\ Sch!Init /\ Plg!Init /\ Dev!Init /\ Cat!Init /\ Int!Init
    /\ focus # "scheduled" => dPlans = {}
    /\ focus # "plugins" => catalog = "local" /\ installed = {}
    /\ focus # "devices" => supported /\ paired = {}
    /\ focus # "catalog" => provider = codex /\ offered[claude] = {}
    /\ focus # "integrations" => pane = "ssh"

PagesNext ==
    \/ focus = "workspace" /\ Next /\ UNCHANGED <<focus, mV, sV, pV, dV, cV, iV>>
    \/ focus = "resources" /\ Mut!Next /\ UNCHANGED <<focus, wV, sV, pV, dV, cV, iV>>
    \/ focus = "scheduled" /\ Sch!Next /\ UNCHANGED <<focus, wV, mV, pV, dV, cV, iV>>
    \/ focus = "plugins" /\ Plg!Next /\ UNCHANGED <<focus, wV, mV, sV, dV, cV, iV>>
    \/ focus = "devices" /\ Dev!Next /\ UNCHANGED <<focus, wV, mV, sV, pV, cV, iV>>
    \/ focus = "catalog" /\ Cat!Next /\ UNCHANGED <<focus, online, wV, mV, sV, pV, dV, iV>>
    \/ focus = "integrations" /\ Int!Next /\ UNCHANGED <<focus, online, wV, mV, sV, pV, dV, cV>>

PagesSpec == PagesInit /\ [][PagesNext]_<<focus, online, wV, mV, sV, pV, dV, cV, iV>>
-----------------------------------------------------------------------------
\* What a page shows out of date, files, Git status, plans or plugins, is
\* about to be read again, or the user was told of a failure, with two
\* exceptions: the panes after the new-task page moved the selection without
\* clearing them (WorkspaceView), and the plans when an operation's answer
\* replaced a newer list (Scheduled).
EveryPageIsFresh ==
    /\ ShownIsFreshOrPending
    /\ Sch!PlansFreshOrPending
    /\ Plg!PluginsFreshOrPending

\* Whatever a page shows as running has a task that will end it or go on with
\* it: the plugin operation that disables the page, a connection test, and the
\* loop that keeps the catalog up to date.
BusyHasWork ==
    /\ Plg!BusyHasTask
    /\ Int!ProbesHaveTasks
    /\ Cat!LoopAlive

\* A second click deletes a plan or takes off a plugin that the user still
\* sees: a list read since the first click asks for two clicks again.
ConfirmedIsShown == Sch!ArmedIsShown /\ Plg!UninstallOfShown

\* ResourceMutations: a mutation the user repeats after an uncertain answer is
\* applied once.
RepeatedIsAppliedOnce == Mut!RepeatedIsAppliedOnce

\* ResourceMutations: what a failed creation of a project reports as created
\* exists.
ReportedSourcesExist == Mut!ReportedSourcesExist

\* Devices: a device that is listed can still connect, unless its own
\* revocation is running, failed or was cut off.
ShownDevicesArePaired == Dev!ShownDevicesArePaired

\* ProviderCatalog: a chosen model and effort is one the catalog offers.
ChoicesAreOffered == Cat!ChoicesAreOffered

\* Integrations: actions need observation and an application, also after a
\* restart.
ActionsAreLimited == Int!ActionsAreLimited
=============================================================================
