--------------------------- MODULE ConnectionView ---------------------------
(***************************************************************************)
(* The life of the connection as the views manage it (mod.rs: connect,     *)
(* connect_after_daemon_preflight, apply_connection_state and _error;      *)
(* settings.rs: saving the endpoint, restarting the local daemon): one     *)
(* preflight task, one restart task, one runtime at a time, and the state  *)
(* that decides which buttons work.                                        *)
(*                                                                         *)
(* What the runtime reports arrives in order (UiDelivery).  Dropping a     *)
(* GPUI task cancels it: no callback of a dropped task runs.               *)
(***************************************************************************)
EXTENDS Naturals

CONSTANTS
    Endpoints,      \* daemon endpoints the user may configure
    Reachable,      \* those whose /health answers at all
    NoEndpoint,     \* no preflight, no runtime, no request
    MaxSwitches     \* bound on what the user does to the connection

ASSUME EndpointsAssumption ==
    /\ Reachable \subseteq Endpoints
    /\ NoEndpoint \notin Endpoints
    /\ MaxSwitches \in Nat

VARIABLES
    endpoint,       \* daemon_endpoint
    preflight,      \* the endpoint daemon_preflight_task works on
    restart,        \* the endpoint the restart (daemon_action_task) works on
    runtime,        \* the endpoint of the runtime whose events are applied
    session,        \* where the runtime is
    state,          \* the connection state shown
    permissions,    \* the endpoints whose permission requests are shown
    request,        \* the endpoint an RPC of the views is in flight to
    switches

vars == <<endpoint, preflight, restart, runtime, session, state, permissions,
          request, switches>>

Busy     == {"Connecting", "Authenticating", "Reconnecting"}
UiStates == Busy \cup {"Offline", "Online", "AuthenticationFailed", "Incompatible"}
Sessions == {"none", "health", "connecting", "authenticating", "online",
             "failed", "over"}

\* new: connect is deferred, and runs first.
Init ==
    /\ endpoint \in Endpoints
    /\ preflight = endpoint
    /\ restart = NoEndpoint
    /\ runtime = NoEndpoint
    /\ session = "none"
    /\ state = "Connecting"
    /\ permissions = {}
    /\ request = NoEndpoint
    /\ switches = 0

-----------------------------------------------------------------------------
Switch == switches < MaxSwitches /\ switches' = switches + 1

\* clear_connection_bound_state: tasks that wait for the daemon are dropped.
ClearConnectionBoundState == request' = NoEndpoint

DropRuntime == runtime' = NoEndpoint /\ session' = "none"

\* Mutant: the permission requests of the last daemon stay.
ConnectingKeepingPermissions(e) ==
    IF preflight # NoEndpoint
    THEN UNCHANGED <<preflight, runtime, session, state, permissions, request>>
    ELSE /\ ClearConnectionBoundState
         /\ DropRuntime
         /\ state' = "Connecting"
         /\ preflight' = e
         /\ UNCHANGED permissions

\* The body of connect: nothing happens while a preflight runs.
Connecting(e) ==
    IF preflight # NoEndpoint
    THEN UNCHANGED <<preflight, runtime, session, state, permissions, request>>
    ELSE /\ ClearConnectionBoundState
         /\ DropRuntime
         /\ state' = "Connecting"
         /\ permissions' = {}
         /\ preflight' = e

\* Mutant: the save button works at any time.
ButtonsAlwaysEnabled == TRUE

\* The buttons of the connection are disabled while it is being established.
ButtonsEnabled == state \notin Busy

Connect ==
    /\ Switch
    /\ ButtonsEnabled
    /\ Connecting(endpoint)
    /\ UNCHANGED <<endpoint, restart>>

\* save_connection_settings and detect_local_daemon.
SaveEndpoint(e) ==
    /\ Switch
    /\ ButtonsEnabled
    /\ endpoint' = e
    /\ Connecting(e)
    /\ UNCHANGED restart

\* ensure_available succeeded: spawn the runtime for the endpoint the
\* preflight was started with, unless there is no credential.
PreflightOk ==
    /\ preflight # NoEndpoint
    /\ preflight' = NoEndpoint
    /\ \/ runtime' = preflight /\ session' = "health" /\ UNCHANGED state
       \/ state' = "Offline" /\ UNCHANGED <<runtime, session>>
    /\ UNCHANGED <<endpoint, restart, permissions, request, switches>>

\* Mutant: the view goes on showing Connecting.
PreflightFailsSilently ==
    /\ preflight # NoEndpoint
    /\ preflight' = NoEndpoint
    /\ UNCHANGED <<endpoint, restart, runtime, session, state, permissions,
                   request, switches>>

PreflightFails ==
    /\ preflight # NoEndpoint
    /\ preflight' = NoEndpoint
    /\ state' = "Offline"
    /\ UNCHANGED <<endpoint, restart, runtime, session, permissions, request, switches>>

\* restart_local_daemon.
Restart ==
    /\ Switch
    /\ restart = NoEndpoint /\ preflight = NoEndpoint
    /\ DropRuntime
    /\ ClearConnectionBoundState
    /\ state' = "Connecting"
    /\ restart' = endpoint
    /\ UNCHANGED <<endpoint, preflight, permissions>>

RestartOk ==
    /\ restart # NoEndpoint
    /\ restart' = NoEndpoint
    /\ Connecting(endpoint)
    /\ UNCHANGED <<endpoint, switches>>

RestartFails ==
    /\ restart # NoEndpoint
    /\ restart' = NoEndpoint
    /\ state' = "Offline"
    /\ UNCHANGED <<endpoint, preflight, runtime, session, permissions, request, switches>>

-----------------------------------------------------------------------------
(* What the runtime reports, in the order UiDelivery gives it.             *)

\* apply_connection_state.
Show(s) ==
    /\ state' = s
    /\ IF s = "Online" THEN UNCHANGED request ELSE ClearConnectionBoundState

Report(from, to, s) ==
    /\ runtime # NoEndpoint
    /\ session = from
    /\ session' = to
    /\ Show(s)
    /\ UNCHANGED <<endpoint, preflight, restart, runtime, permissions, switches>>

\* /health fails: the next state the views hear of is Reconnecting.
HealthFails == Report("health", "health", "Reconnecting")

ReportConnecting ==
    /\ runtime \in Reachable
    /\ Report("health", "connecting", "Connecting")
ReportAuthenticating == Report("connecting", "authenticating", "Authenticating")
ReportOnline         == Report("authenticating", "online", "Online")

\* An attempt or a session fails ...
ReportFailure ==
    \/ Report("authenticating", "failed", "Offline")
    \/ Report("online", "failed", "Offline")

\* ... and is retried, or ends the runtime (the error leaves Offline).
ReportReconnecting == Report("failed", "health", "Reconnecting")
ReportFinalError ==
    \/ Report("failed", "over", "Offline")
    \/ Report("health", "over", "Offline")
    \/ \E s \in {"AuthenticationFailed", "Incompatible"} :
          Report("authenticating", "over", s)
    \/ Report("online", "over", "AuthenticationFailed")

\* apply_connection_error for a lagging forwarder: the session lives on.
ReportLag == Report("online", "online", "Offline")

\* apply_permission, of a live event or of one replayed in the handshake.
Delivering == session \in {"authenticating", "online"}

PermissionRequested ==
    /\ Delivering
    /\ permissions' = permissions \cup {runtime}
    /\ UNCHANGED <<endpoint, preflight, restart, runtime, session, state,
                   request, switches>>
PermissionResolved ==
    /\ Delivering
    /\ permissions' = permissions \ {runtime}
    /\ UNCHANGED <<endpoint, preflight, restart, runtime, session, state,
                   request, switches>>

\* The daemon starts the history over: the requests go with the timeline.
HistoryReset ==
    /\ session = "authenticating"
    /\ permissions' = {}
    /\ UNCHANGED <<endpoint, preflight, restart, runtime, session, state,
                   request, switches>>

\* The views call the daemon (a mutation, a prompt, a decision) and apply the
\* answer or the error.
StartRequest ==
    /\ runtime # NoEndpoint
    /\ request = NoEndpoint
    /\ request' = runtime
    /\ UNCHANGED <<endpoint, preflight, restart, runtime, session, state,
                   permissions, switches>>
FinishRequest ==
    /\ request # NoEndpoint
    /\ request' = NoEndpoint
    /\ UNCHANGED <<endpoint, preflight, restart, runtime, session, state,
                   permissions, switches>>

-----------------------------------------------------------------------------
UserStep ==
    \/ Connect
    \/ \E e \in Endpoints : SaveEndpoint(e)
    \/ Restart
    \/ StartRequest

TaskStep ==
    \/ PreflightOk \/ PreflightFails
    \/ RestartOk \/ RestartFails
    \/ FinishRequest

RuntimeStep ==
    \/ HealthFails
    \/ ReportConnecting \/ ReportAuthenticating \/ ReportOnline
    \/ ReportFailure \/ ReportReconnecting \/ ReportFinalError \/ ReportLag
    \/ PermissionRequested \/ PermissionResolved \/ HistoryReset

Next == UserStep \/ TaskStep \/ RuntimeStep

Spec == Init /\ [][Next]_vars

\* Tasks finish, the runtime keeps trying, and a daemon that can be reached is
\* reached in the end; of the others nothing is assumed.
FairSpec ==
    /\ Spec
    /\ WF_vars(TaskStep) /\ WF_vars(RuntimeStep)
    /\ SF_vars(ReportConnecting) /\ SF_vars(ReportAuthenticating) /\ SF_vars(ReportOnline)

-----------------------------------------------------------------------------
Tasks == Endpoints \cup {NoEndpoint}

TypeOK ==
    /\ endpoint \in Endpoints
    /\ preflight \in Tasks /\ restart \in Tasks /\ runtime \in Tasks
    /\ session \in Sessions
    /\ (runtime = NoEndpoint) = (session = "none")
    /\ state \in UiStates
    /\ permissions \subseteq Endpoints
    /\ request \in Tasks
    /\ switches \in 0..MaxSwitches

\* The runtime talks to the endpoint the settings show: connect ignores a
\* call while a preflight runs, so nothing may change the endpoint then.
EndpointIsCurrent ==
    /\ preflight \in {endpoint, NoEndpoint}
    /\ runtime \in {endpoint, NoEndpoint}

\* A state that promises progress has somebody at work on it: a preflight, a
\* restart or a runtime that has not ended.
BusyMeansWork ==
    state \in Busy \cup {"Online"} =>
        \/ preflight # NoEndpoint
        \/ restart # NoEndpoint
        \/ session \notin {"none", "over"}

\* The three never work side by side: what one of them ends with cannot
\* overwrite what another one shows (restart_local_daemon's error sets
\* Offline without looking).
OneAtWork ==
    /\ preflight # NoEndpoint => restart = NoEndpoint /\ runtime = NoEndpoint
    /\ restart # NoEndpoint => runtime = NoEndpoint

\* Results and permission requests never cross from one daemon to another.
BoundToThisDaemon ==
    /\ request \in {runtime, NoEndpoint}
    /\ runtime # NoEndpoint => permissions \subseteq {runtime}

\* Whoever prepares a runtime keeps the buttons disabled, and starts it with a
\* clean view: what BoundToThisDaemon and OneAtWork rest on.
PreparesQuietly ==
    /\ preflight # NoEndpoint \/ restart # NoEndpoint => state \in Busy
    /\ preflight # NoEndpoint => permissions = {}

\* README: PendingPermission is emptied when the connection breaks.  The code
\* empties it in connect and at a HistoryReset only.
DisconnectDropsPermissions ==
    [][state = "Online" /\ state' # "Online" => permissions' = {}]_vars

\* The user gets to change the connection settings again and again, unless the
\* runtime is asking an endpoint whose /health does not answer: it retries for
\* ever, and the buttons of settings.rs stay disabled all the while.
EditableOnceAnswered ==
    []<>(ButtonsEnabled \/ runtime \in Endpoints \ Reachable)

\* README (line 290): the endpoint and the token can always be corrected by
\* hand.  Of an endpoint that never answers, they cannot.
EndpointStaysEditable == []<>ButtonsEnabled
=============================================================================
