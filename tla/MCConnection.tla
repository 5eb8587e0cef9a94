----------------------------- MODULE MCConnection -----------------------------
(***************************************************************************)
(* How the desktop comes to a session with a daemon, one component at a    *)
(* time: the view that runs preflights, restarts and runtimes              *)
(* (ConnectionView), the local daemon that its preflight ensures and its   *)
(* restart replaces (LocalDaemon), the installation of that daemon's files *)
(* (RuntimeInstall), and what a runtime reports to the view over channels  *)
(* that have room (UiDelivery).  `focus` says which one TLC explores.      *)
(*                                                                         *)
(* Two applications: an installed one, which prefers the LaunchAgent, and  *)
(* a debug build, with different bundles of the same version.              *)
(***************************************************************************)
EXTENDS ConnectionView, TLC

CONSTANTS loopback, remote
CONSTANTS prod, dev, Apps, Versions, MaxPids, MaxOperations, MaxFaults     \* LocalDaemon
CONSTANTS Digests, MaxInstalls, MaxErrors                                  \* RuntimeInstall
CONSTANTS BroadcastCapacity, ChannelCapacity, MaxAttempts, MaxEvents       \* UiDelivery

TwoEndpoints == {loopback, remote}
OnlyLoopback == {loopback}
TheModes  == prod :> "agent" @@ dev :> "direct"
TheBundle == prod :> 1 @@ dev :> 2

VARIABLES
    focus,
    expected, op, reapers, record, plist, agent, procs, port, pids, instances, operations, faults,
    astray, stopped,
    step, staging, backup, destination, present, stranded, installs, errors,
    stage, attempt, error, active, driver, committed, broadcast, skipped, held, channel, uState,
    shown, snapshot, applied, reported

Dmn == INSTANCE LocalDaemon WITH Mode <- TheModes
Ins == INSTANCE RuntimeInstall WITH Installers <- Apps, Bundle <- TheBundle
Dlv == INSTANCE UiDelivery WITH state <- uState

ASSUME ConnectionAssumption == Dmn!LocalDaemonAssumption /\ Ins!InstallAssumption /\ Dlv!DeliveryAssumption

cV == <<endpoint, preflight, restart, runtime, session, state, permissions, request, switches>>
dV == <<expected, op, reapers, record, plist, agent, procs, port, pids, instances, operations,
        faults, astray, stopped>>
iV == <<step, staging, backup, destination, present, stranded, installs, errors>>
uV == <<stage, attempt, error, active, driver, committed, broadcast, skipped, held, channel, uState,
        shown, snapshot, applied, reported>>
allVars == <<focus, cV, dV, iV, uV>>

OfView(A)     == focus = "view" /\ A /\ UNCHANGED <<focus, dV, iV, uV>>
OfDelivery(A) == focus = "delivery" /\ A /\ UNCHANGED <<focus, cV, dV, iV>>

ConnectionInit ==
    /\ focus \in {"view", "daemon", "install", "delivery"}
    /\ Init /\ Dmn!Init /\ Ins!Init /\ Dlv!Init
    /\ focus # "view" => endpoint = loopback
    /\ focus # "daemon" => port = 0 /\ \A c \in Apps : expected[c] = 1
    /\ focus # "install" => ~present

ConnectionNext ==
    \/ OfView(Next)
    \/ focus = "daemon" /\ Dmn!Next /\ UNCHANGED <<focus, cV, iV, uV>>
    \/ focus = "install" /\ Ins!Next /\ UNCHANGED <<focus, cV, dV, uV>>
    \/ OfDelivery(Dlv!Next)

\* The fairness of FairSpec in ConnectionView and in UiDelivery; nothing is
\* assumed of the daemon and of the file system.  A behaviour has steps of one
\* component only, so a condition on "A or B" is the one of whichever it has.
ConnectionSpec ==
    /\ ConnectionInit /\ [][ConnectionNext]_allVars
    /\ WF_allVars(OfView(TaskStep) \/ OfDelivery(Dlv!RuntimeStep))
    /\ WF_allVars(OfView(RuntimeStep) \/ OfDelivery(Dlv!Receive))
    /\ WF_allVars(OfDelivery(Dlv!Forward))
    /\ WF_allVars(OfDelivery(Dlv!ApplyEvent))
    /\ SF_allVars(OfView(ReportConnecting) \/ OfDelivery(Dlv!StartConnecting))
    /\ SF_allVars(OfView(ReportAuthenticating) \/ OfDelivery(Dlv!DeliverSnapshot))
    /\ SF_allVars(OfView(ReportOnline) \/ OfDelivery(Dlv!GiveUp))
-----------------------------------------------------------------------------
\* ConnectionView: the user gets to change the connection settings again and
\* again, unless the runtime is asking an endpoint (remote) that never answers.
EditableAgain == focus = "view" => EditableOnceAnswered
\* UiDelivery, with room in its channels: while a session serves, the view comes
\* to show it.
ViewFollowsSession == focus = "delivery" => Dlv!ViewFollowsSession
\* LocalDaemon: a daemon the desktop did not start is never told to stop; a
\* daemon it started is recorded, or it lost sight of it in one of three ways.
ForeignUntouched == Dmn!ForeignUntouched
NoStrays         == Dmn!NoStrays
\* RuntimeInstall: the runtime in place is a whole one, and it goes missing
\* only in the two ways named there.
InstallIsAtomic == Ins!InstallIsAtomic
=============================================================================
