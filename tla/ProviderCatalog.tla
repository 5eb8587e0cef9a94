--------------------------- MODULE ProviderCatalog ---------------------------
(***************************************************************************)
(* The catalog of providers and models the daemon offers, read at the      *)
(* start of a session, by the user, and every minute                       *)
(* (provider_catalog.rs), and the choices of model and effort that are     *)
(* remembered for the defaults, each project and each agent and repaired   *)
(* against it (provider_selection.rs, tasks.rs, timeline.rs, settings.rs). *)
(*                                                                         *)
(* A catalog maps every provider to the set of its models; {} stands for   *)
(* a provider that is not listed, not available, or has no models.         *)
(***************************************************************************)
EXTENDS Naturals

CONSTANTS
    Providers, Models,
    Efforts,            \* [Models -> SUBSET of efforts]
    DefaultModel,       \* the model a provider's list marks as default
    DefaultEffort,      \* [Models -> effort]
    Catalogs,           \* what the daemon may offer
    Agents, Projects,
    ProviderOf,         \* [Agents -> Providers]
    IdCycle,            \* the request id wraps around
    MaxSessions, MaxChoices, MaxErrors,     \* bounds
    None

Empty  == [p \in Providers |-> {}]
Scopes == {"defaults"} \cup Agents \cup Projects

CatalogAssumption ==
    /\ Catalogs \subseteq [Providers -> SUBSET Models]
    /\ \A m \in Models : DefaultEffort[m] \in Efforts[m]
    /\ Agents \cap Projects = {} /\ "defaults" \notin Agents \cup Projects
    /\ ProviderOf \in [Agents -> Providers] /\ IdCycle \in Nat \ {0, 1}
    /\ MaxSessions \in Nat /\ MaxChoices \in Nat /\ MaxErrors \in Nat
    /\ None \notin 0..MaxSessions

VARIABLES
    online, resources,      \* the session's snapshot: None or the agents in it
    generation,             \* connection_generation
    models,                 \* provider_catalog: None or a catalog
    failed,                 \* provider_catalog_error
    request,                \* provider_catalog_task: None or [gen, id, source, answer]
    requestId,
    loop,                   \* provider_catalog_refresh_task: None or its generation
    chosen,                 \* composer_selections: [Scopes -> [Providers -> choice]]
    projectProvider,        \* project_providers: [Projects -> Providers or None]
    provider,               \* selected_provider
    offered,                \* the daemon's catalog
    reported,               \* history: the last catalog an answer of the session brought
    choices, errors

session == <<online, resources, generation>>
reading == <<models, failed, request, requestId, loop>>
prefs   == <<chosen, projectProvider, provider>>
vars    == <<session, reading, prefs, offered, reported, choices, errors>>

-----------------------------------------------------------------------------
(* Choices.                                                                 *)

NoChoice == [model |-> None, effort |-> None]

\* resolve_model, resolve_reasoning_effort.
ResolveModel(offer, m) ==
    IF m \in offer THEN m
    ELSE IF DefaultModel \in offer THEN DefaultModel
    ELSE IF offer = {} THEN None ELSE CHOOSE x \in offer : TRUE

ResolveEffort(m, e) == IF e \in Efforts[m] THEN e ELSE DefaultEffort[m]

\* reconcile_selection of one choice.
Repaired(offer, c) ==
    LET m == ResolveModel(offer, c.model)
    IN  IF m = None THEN NoChoice
        ELSE [model |-> m, effort |-> ResolveEffort(m, c.effort)]

\* reconcile_catalog: what is gone is forgotten; an agent has a choice for its
\* provider in any case.  Without a catalog or a snapshot nothing happens.
Reconciled(choice, cat, agents) ==
    IF cat = None \/ agents = None THEN choice
    ELSE [s \in Scopes |-> [p \in Providers |->
            IF cat[p] = {} \/ (s \in Agents /\ s \notin agents) THEN NoChoice
            ELSE IF choice[s][p] # NoChoice \/ (s \in agents /\ ProviderOf[s] = p)
                 THEN Repaired(cat[p], choice[s][p])
            ELSE NoChoice]]

Available(p) == models # None /\ models[p] # {}

\* ensure_selected_provider
Ensured(cat) ==
    IF cat[provider] # {} \/ cat = Empty THEN provider
    ELSE CHOOSE p \in Providers : cat[p] # {}

\* reconcile_project_providers
Kept(cat) == [j \in Projects |->
    IF projectProvider[j] # None /\ cat[projectProvider[j]] # {} THEN projectProvider[j] ELSE None]

-----------------------------------------------------------------------------
(* Reading.                                                                 *)

\* request_provider_catalog: a request that runs is not repeated.
Requested(source) ==
    IF request # None THEN UNCHANGED <<models, failed, request, requestId>>
    ELSE /\ models' = IF source = "Initial" THEN None ELSE models
         /\ failed' = FALSE
         /\ requestId' = (requestId + 1) % IdCycle
         /\ request' = [gen |-> generation, id |-> requestId', source |-> source, answer |-> None]

\* start_provider_catalog_if_ready, load and loop.
Bootstrap ==
    IF models = None /\ request = None
    THEN /\ Requested("Initial")
         /\ loop' = IF loop = None THEN generation ELSE loop
    ELSE UNCHANGED reading

Init ==
    /\ online = FALSE /\ resources = None /\ generation = 0
    /\ models = None /\ failed = FALSE /\ request = None /\ requestId = 0 /\ loop = None
    /\ chosen = [s \in Scopes |-> [p \in Providers |-> NoChoice]]
    /\ projectProvider = [j \in Projects |-> None] /\ provider \in Providers
    /\ offered \in Catalogs
    /\ reported = None
    /\ choices = 0 /\ errors = 0

\* The session's snapshot, which comes once it is online, or a mutation's.
SnapshotArrives(agents) ==
    /\ online
    /\ resources' = agents
    /\ chosen' = Reconciled(chosen, models, agents)
    /\ IF resources = None THEN Bootstrap ELSE UNCHANGED reading
    /\ UNCHANGED <<online, generation, projectProvider, provider, offered, reported,
                   choices, errors>>

ManualRefresh ==
    /\ online /\ request = None /\ resources # None
    /\ choices < MaxChoices /\ choices' = choices + 1
    /\ Requested("Manual")
    /\ UNCHANGED <<session, loop, prefs, offered, reported, errors>>

\* A minute has passed.  The loop would end if the connection were another one
\* or down, but then clear_connection_bound_state has dropped it: the test never
\* fails (LoopAlive), nor does the one of an answer's generation and id.
Tick ==
    /\ loop = generation /\ online
    /\ Requested("Automatic")
    /\ UNCHANGED <<session, loop, prefs, offered, reported, choices, errors>>

DaemonAnswers ==
    /\ request # None /\ request.answer = None
    /\ request' = [request EXCEPT !.answer = offered]
    /\ UNCHANGED <<session, models, failed, requestId, loop, prefs, offered, reported,
                   choices, errors>>

Current == request.gen = generation /\ request.id = requestId /\ online

\* Mutant: the choices are not looked at.
CatalogArrivesOnly ==
    /\ request # None /\ request.answer # None /\ Current
    /\ request' = None
    /\ models' = request.answer /\ reported' = request.answer
    /\ failed' = FALSE
    /\ UNCHANGED <<session, requestId, loop, prefs, offered, choices, errors>>

CatalogArrives ==
    /\ request # None /\ request.answer # None /\ Current
    /\ request' = None
    /\ models' = request.answer /\ reported' = request.answer
    /\ failed' = FALSE
    /\ provider' = Ensured(request.answer)
    /\ projectProvider' = Kept(request.answer)
    /\ chosen' = Reconciled(chosen, request.answer, resources)
    /\ UNCHANGED <<session, requestId, loop, offered, choices, errors>>

\* An error keeps a catalog that has entries; otherwise the catalog is empty.
CatalogFails ==
    /\ request # None /\ Current
    /\ errors < MaxErrors /\ errors' = errors + 1
    /\ request' = None
    /\ failed' = TRUE
    /\ models' = IF models = None THEN Empty ELSE models
    /\ UNCHANGED <<session, requestId, loop, prefs, offered, reported, choices>>

-----------------------------------------------------------------------------
(* The user chooses, among what the catalog offers.                         *)

Choose == choices < MaxChoices /\ choices' = choices + 1

\* choose_default_model, choose_model, choose_project_model.
ChooseModel(s, p, m) ==
    /\ Choose
    /\ Available(p) /\ m \in models[p]
    /\ s \in Agents => resources # None /\ s \in resources
    /\ chosen' = [chosen EXCEPT ![s][p] = Repaired(models[p], [@ EXCEPT !.model = m])]
    /\ UNCHANGED <<session, reading, projectProvider, provider, offered, reported, errors>>

\* choose_default_reasoning_effort and its kin.
ChooseEffort(s, p, e) ==
    /\ Choose
    /\ Available(p)
    /\ s \in Agents => resources # None /\ s \in resources
    /\ LET c == Repaired(models[p], chosen[s][p])
       IN  chosen' = [chosen EXCEPT ![s][p] =
                         IF e \in Efforts[c.model] THEN [c EXCEPT !.effort = e] ELSE c]
    /\ UNCHANGED <<session, reading, projectProvider, provider, offered, reported, errors>>

\* choose_default_provider, set_project_provider_preference.
ChooseProvider(p) ==
    /\ Choose /\ Available(p)
    /\ \/ provider' = p /\ UNCHANGED <<projectProvider, chosen>>
       \/ \E j \in Projects : projectProvider' = [projectProvider EXCEPT ![j] = p]
          /\ chosen' = Reconciled(chosen, models, resources) /\ UNCHANGED provider
    /\ UNCHANGED <<session, reading, offered, reported, errors>>

\* reset_selected_project_configuration, with clear_project: the project is
\* back to the defaults.
ResetProject(j) ==
    /\ Choose
    /\ projectProvider' = [projectProvider EXCEPT ![j] = None]
    /\ chosen' = [chosen EXCEPT ![j] = [p \in Providers |-> NoChoice]]
    /\ UNCHANGED <<session, reading, provider, offered, reported, errors>>

\* project_model: the project's choice, else the default.
ForNewTask(j, p) ==
    LET c == IF chosen[j][p] # NoChoice THEN chosen[j][p] ELSE chosen["defaults"][p]
    IN  Repaired(models[p], c)

\* remember_new_task_agent_selection: a new task's agent starts with what its
\* project had.
AgentCreated(a, j, p) ==
    /\ online /\ resources # None /\ a \notin resources
    /\ ProviderOf[a] = p /\ Available(p)
    /\ resources' = resources \cup {a}
    /\ chosen' = Reconciled([chosen EXCEPT ![a][p] = ForNewTask(j, p)], models, resources')
    /\ UNCHANGED <<online, generation, reading, projectProvider, provider, offered, reported,
                   choices, errors>>

-----------------------------------------------------------------------------
(* The session.                                                             *)

\* clear_connection_bound_state.
ClearSession ==
    /\ resources' = None
    /\ models' = None /\ failed' = FALSE
    /\ request' = None /\ requestId' = (requestId + 1) % IdCycle
    /\ loop' = None
    /\ reported' = None

Connect ==
    /\ generation < MaxSessions /\ generation' = generation + 1
    /\ online' = FALSE
    /\ ClearSession
    /\ UNCHANGED <<prefs, offered, choices, errors>>

GoesOnline ==
    /\ ~online /\ generation > 0
    /\ online' = TRUE
    /\ UNCHANGED <<resources, generation, reading, prefs, offered, reported, choices, errors>>

Disconnect ==
    /\ online /\ errors < MaxErrors /\ errors' = errors + 1
    /\ online' = FALSE
    /\ ClearSession
    /\ UNCHANGED <<generation, prefs, offered, choices>>

DaemonChanges ==
    /\ choices < MaxChoices /\ choices' = choices + 1
    /\ offered' \in Catalogs
    /\ UNCHANGED <<session, reading, prefs, reported, errors>>

Next ==
    \/ \E agents \in SUBSET Agents : SnapshotArrives(agents)
    \/ ManualRefresh \/ Tick \/ DaemonAnswers \/ CatalogArrives \/ CatalogFails
    \/ \E s \in Scopes, p \in Providers :
          \/ \E m \in Models : ChooseModel(s, p, m)
          \/ \E e \in UNION {Efforts[m] : m \in Models} : ChooseEffort(s, p, e)
    \/ (\E p \in Providers : ChooseProvider(p))
    \/ (\E j \in Projects : ResetProject(j))
    \/ (\E a \in Agents, j \in Projects, p \in Providers : AgentCreated(a, j, p))
    \/ Connect \/ GoesOnline \/ Disconnect \/ DaemonChanges

Spec == Init /\ [][Next]_vars

-----------------------------------------------------------------------------
\* What is remembered can be sent: a choice names a model the catalog offers,
\* with an effort of that model.
ChoicesAreOffered ==
    models # None /\ resources # None =>
        \A s \in Scopes, p \in Providers :
            LET c == chosen[s][p]
            IN  c # NoChoice /\ models[p] # {} => c.model \in models[p] /\ c.effort \in Efforts[c.model]

\* Once the session has a catalog, be it an empty one, a loop of this
\* connection refreshes it every minute (settings.rs:3146 tells the user so), and
\* no loop outlives its connection.
LoopAlive ==
    /\ online /\ models # None => loop = generation
    /\ loop # None => online /\ loop = generation

\* README: the choices are kept per agent and provider and restored.  What
\* neither the daemon said is gone nor the user resets is not forgotten.
ChoicesSurviveErrors ==
    [][\A s \in Scopes, p \in Providers :
          chosen[s][p] # NoChoice /\ chosen'[s][p] = NoChoice =>
              \/ s \in Agents /\ s \notin resources'
              \/ s \in Projects /\ choices' # choices
              \/ reported' # None /\ reported'[p] = {}]_vars
=============================================================================
