----------------------------- MODULE Integrations -----------------------------
(***************************************************************************)
(* Three settings pages that test something outside the program and keep  *)
(* what the user decided in the UI state file: computer control and the    *)
(* browser connector (integrations.rs) and SSH connections (coding.rs).    *)
(*                                                                         *)
(* The pages touch none of each other's state: a behaviour stays on one    *)
(* page.  Input fields stay editable while a test runs, and the results of *)
(* the tests do not survive a restart while the decisions do.              *)
(***************************************************************************)
EXTENDS Naturals

CONSTANTS
    Applications,       \* names for the list of applications Corbit may use
    Endpoints,          \* valid URLs the user may type
    Loopback,           \* those of them loopback_connector_address accepts
    DefaultEndpoint,
    Hosts,              \* SSH destinations
    MaxProfiles,        \* bound on profiles ever created: each has an id of its own
    MaxRestarts,
    None

IntegrationsAssumption ==
    /\ Loopback \subseteq Endpoints /\ DefaultEndpoint \in Loopback
    /\ None \notin Endpoints
    /\ MaxProfiles \in Nat /\ MaxRestarts \in Nat

VARIABLES
    pane,           \* the page this behaviour stays on
    prefs,          \* integration_preferences, coding_preferences
    saved,          \* what the UI state file holds of them
    saveDue,        \* a save was scheduled and has not run
    access,         \* computer_access_status
    accessTask,
    connector,      \* browser_connection_status
    connectorTask,  \* the endpoint the running probe was given, or None
    input,          \* what the field of the endpoint holds
    tests,          \* ssh_connection_tests
    testTask,       \* the profile id the running test is of, 0: none
    pending,        \* pending_ssh_connection_delete, 0: none
    ids,            \* profile ids used
    restarts

computer == <<access, accessTask>>
browser == <<connector, connectorTask, input>>
ssh == <<tests, testTask, pending, ids>>
vars == <<pane, prefs, saved, saveDue, computer, browser, ssh, restarts>>

Profiles == 1..MaxProfiles

Init ==
    /\ pane \in {"computer", "browser", "ssh"}
    /\ prefs = [observe |-> FALSE, actions |-> FALSE, allowed |-> {},
                enabled |-> FALSE, endpoint |-> DefaultEndpoint, ssh |-> {}]
    /\ saved = prefs /\ saveDue = FALSE
    /\ access = "not_checked" /\ accessTask = FALSE
    /\ connector = "not_checked" /\ connectorTask = None /\ input = DefaultEndpoint
    /\ tests = [i \in Profiles |-> "none"] /\ testTask = 0 /\ pending = 0 /\ ids = 0
    /\ restarts = 0

\* persist_integration_preferences, persist_coding_preferences: all of them
\* are written, at once; when that fails the user is told and goes on.
Persist(p) ==
    /\ prefs' = p
    /\ saved' \in {p, saved}
    /\ UNCHANGED saveDue

\* schedule_ui_state_save's timer.
SaveTimer ==
    /\ saveDue /\ saveDue' = FALSE
    /\ saved' \in {prefs, saved}
    /\ UNCHANGED <<pane, prefs, computer, browser, ssh, restarts>>

-----------------------------------------------------------------------------
(* Computer control.                                                        *)

\* The page's controls.  The switches are disabled without access, so they
\* cannot be switched off either.
ComputerOffers(control) ==
    /\ pane = "computer"
    /\ control \in {"observe", "actions"} => access = "ready"
    /\ control = "actions" => prefs.observe /\ prefs.allowed # {}
    /\ UNCHANGED <<pane, browser, ssh, restarts>>

CheckComputerAccess ==
    /\ ComputerOffers("check")
    /\ ~accessTask /\ accessTask' = TRUE
    /\ access' = "checking"
    /\ UNCHANGED <<prefs, saved, saveDue>>

AccessChecked ==
    /\ accessTask /\ accessTask' = FALSE
    /\ access' \in {"ready", "blocked"}
    /\ UNCHANGED <<pane, prefs, saved, saveDue, browser, ssh, restarts>>

\* Mutant: switching observation off leaves the actions as they were.
ObservationAlone(on) ==
    /\ ComputerOffers("observe")
    /\ on # prefs.observe
    /\ Persist([prefs EXCEPT !.observe = on])
    /\ UNCHANGED computer

\* set_computer_observation.
SetObservation(on) ==
    /\ ComputerOffers("observe")
    /\ on # prefs.observe
    /\ Persist([prefs EXCEPT !.observe = on, !.actions = @ /\ on])
    /\ UNCHANGED computer

SetActions(on) ==
    /\ ComputerOffers("actions")
    /\ on # prefs.actions
    /\ Persist([prefs EXCEPT !.actions = on])
    /\ UNCHANGED computer

AddApplication(a) ==
    /\ ComputerOffers("add")
    /\ a \notin prefs.allowed
    /\ Persist([prefs EXCEPT !.allowed = @ \cup {a}])
    /\ UNCHANGED computer

\* The last application takes the actions with it.
RemoveApplication(a) ==
    /\ ComputerOffers("remove")
    /\ a \in prefs.allowed
    /\ Persist([prefs EXCEPT !.allowed = @ \ {a}, !.actions = @ /\ prefs.allowed # {a}])
    /\ UNCHANGED computer

-----------------------------------------------------------------------------
(* The browser connector.                                                   *)

\* The page's controls: the connector is switched on once it was tested, and
\* only then off again.
BrowserOffers(control) ==
    /\ pane = "browser"
    /\ control = "enabled" => connector = "ready"
    /\ UNCHANGED <<pane, computer, ssh, restarts>>

TypeEndpoint(e) ==
    /\ BrowserOffers("endpoint")
    /\ e # input /\ input' = e
    /\ UNCHANGED <<prefs, saved, saveDue, connector, connectorTask>>

\* test_browser_connection refuses what is not a loopback address.
TestConnector ==
    /\ BrowserOffers("test")
    /\ connectorTask = None
    /\ input \in Loopback
    /\ connectorTask' = input
    /\ connector' = "checking"
    /\ UNCHANGED <<prefs, saved, saveDue, input>>

\* A working endpoint is stored, as the field now has it; a failed test
\* switches the connector off and schedules no save.
ConnectorTested ==
    /\ connectorTask # None /\ connectorTask' = None
    /\ \/ /\ connector' = "ready"
          /\ prefs' = [prefs EXCEPT !.endpoint = input]
          /\ saveDue' = TRUE
       \/ /\ connector' = "blocked"
          /\ prefs' = [prefs EXCEPT !.enabled = FALSE]
          /\ UNCHANGED saveDue
    /\ UNCHANGED <<pane, saved, input, computer, ssh, restarts>>

\* choose_browser_target: the test may go on running, and its result will
\* stand for the browser chosen now.
ChooseBrowser ==
    /\ BrowserOffers("browser")
    /\ connector' = "not_checked"
    /\ Persist(prefs)
    /\ UNCHANGED <<connectorTask, input>>

\* Started on the port of the field, which has to be a loopback address.
LaunchControlledBrowser ==
    /\ BrowserOffers("launch")
    /\ input \in Loopback
    /\ connector' = "not_checked"
    /\ UNCHANGED <<prefs, saved, saveDue, connectorTask, input>>

SetBrowserEnabled(on) ==
    /\ BrowserOffers("enabled")
    /\ on # prefs.enabled
    /\ Persist([prefs EXCEPT !.enabled = on])
    /\ UNCHANGED browser

-----------------------------------------------------------------------------
(* SSH connections.                                                         *)

\* The page's controls: a row has its test and its removal, and no row can be
\* tested while one of them is.
SshOffers(control) ==
    /\ pane = "ssh"
    /\ control = "test" => testTask = 0
    /\ UNCHANGED <<pane, computer, browser, restarts>>

Known(h) == \E p \in prefs.ssh : p.host = h

\* add_ssh_connection, and import_ssh_config for a host not listed yet.
AddConnection(h) ==
    /\ SshOffers("add")
    /\ ~Known(h) /\ ids < MaxProfiles /\ ids' = ids + 1
    /\ Persist([prefs EXCEPT !.ssh = @ \cup {[host |-> h, id |-> ids + 1]}])
    /\ UNCHANGED <<tests, testTask, pending>>

ArmRemoval(p) ==
    /\ SshOffers("remove")
    /\ p \in prefs.ssh /\ pending # p.id
    /\ pending' = p.id
    /\ UNCHANGED <<prefs, saved, saveDue, tests, testTask, ids>>

RemoveConnection(p) ==
    /\ SshOffers("remove")
    /\ p \in prefs.ssh /\ pending = p.id
    /\ pending' = 0
    /\ tests' = [tests EXCEPT ![p.id] = "none"]
    /\ Persist([prefs EXCEPT !.ssh = @ \ {p}])
    /\ UNCHANGED <<testTask, ids>>

\* test_ssh_connection: storing a second task would cancel the first.
TestConnection(p) ==
    /\ SshOffers("test")
    /\ p \in prefs.ssh /\ testTask = 0
    /\ testTask' = p.id
    /\ tests' = [tests EXCEPT ![p.id] = "testing"]
    /\ UNCHANGED <<prefs, saved, saveDue, pending, ids>>

\* The result is kept under the id it was started for, listed or not.
ConnectionTested ==
    /\ testTask # 0 /\ testTask' = 0
    /\ \E result \in {"reachable", "failed"} : tests' = [tests EXCEPT ![testTask] = result]
    /\ UNCHANGED <<pane, prefs, saved, saveDue, pending, ids, computer, browser, restarts>>

-----------------------------------------------------------------------------
\* The decisions come from the file, and nothing has been tested yet.
Restart ==
    /\ restarts < MaxRestarts /\ restarts' = restarts + 1
    /\ prefs' = saved /\ saveDue' = FALSE
    /\ access' = "not_checked" /\ accessTask' = FALSE
    /\ connector' = "not_checked" /\ connectorTask' = None /\ input' = saved.endpoint
    /\ tests' = [i \in Profiles |-> "none"] /\ testTask' = 0 /\ pending' = 0
    /\ UNCHANGED <<pane, saved, ids>>

Next ==
    \/ CheckComputerAccess \/ AccessChecked
    \/ \E on \in BOOLEAN : SetObservation(on) \/ SetActions(on) \/ SetBrowserEnabled(on)
    \/ \E a \in Applications : AddApplication(a) \/ RemoveApplication(a)
    \/ \E e \in Endpoints : TypeEndpoint(e)
    \/ TestConnector \/ ConnectorTested \/ ChooseBrowser \/ LaunchControlledBrowser
    \/ \E h \in Hosts : AddConnection(h)
    \/ \E p \in prefs.ssh : ArmRemoval(p) \/ RemoveConnection(p) \/ TestConnection(p)
    \/ ConnectionTested
    \/ SaveTimer \/ Restart

Spec == Init /\ [][Next]_vars

-----------------------------------------------------------------------------
\* Corbit may act on other applications only while it may also read them
\* and some application is listed, now and after any restart.
ActionsAreLimited ==
    \A p \in {prefs, saved} : p.actions => p.observe /\ p.allowed # {}

\* What is shown as being tested is being tested, so it will end.
ProbesHaveTasks ==
    /\ access = "checking" => accessTask
    /\ connector = "checking" => connectorTask # None
    /\ \A p \in prefs.ssh : tests[p.id] = "testing" => testTask = p.id

\* integrations.rs:1196: the connector is on this machine.  Not so: the
\* field can be edited while its earlier content is tested.
ConnectorIsLocal == prefs.endpoint \in Loopback
=============================================================================
