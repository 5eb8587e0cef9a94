--------------------------- MODULE ConnectionProofs ---------------------------
(***************************************************************************)
(* What TLAPS proves of MCConnection, whatever the endpoints, the versions,*)
(* the bundles and the capacities are: first the invariants of             *)
(* ConnectionView, then what the composition keeps of each component.      *)
(*                                                                         *)
(* LocalDaemon and RuntimeInstall have proofs of their own; a step of the  *)
(* composition is a step of each component or leaves it alone, so their    *)
(* theorems hold of the composition.                                       *)
(***************************************************************************)
EXTENDS MCConnection, TLAPS

USE EndpointsAssumption

\* The inductive invariant.  OneAtWork needs PreparesQuietly: a button works
\* only when nothing prepares a runtime.  BoundToThisDaemon needs both: the
\* runtime a preflight starts finds no requests of an earlier one.
IInv ==
    /\ TypeOK
    /\ EndpointIsCurrent
    /\ OneAtWork
    /\ PreparesQuietly
    /\ BusyMeansWork
    /\ BoundToThisDaemon

LEMMA InitIInv == Init => IInv
BY DEF Init, IInv, TypeOK, EndpointIsCurrent, OneAtWork, PreparesQuietly,
       BusyMeansWork, BoundToThisDaemon, Tasks, Sessions, UiStates, Busy

\* connect establishes the invariant whenever it does anything: all it drops
\* is gone, and the preflight it starts is alone.
LEMMA ConnectingIInv ==
    ASSUME IInv, preflight = NoEndpoint, restart' = NoEndpoint,
           NEW e \in Endpoints, endpoint' = e, Connecting(e),
           switches' \in 0..MaxSwitches
    PROVE  IInv'
<1>1. /\ request' = NoEndpoint /\ runtime' = NoEndpoint /\ session' = "none"
      /\ state' = "Connecting" /\ permissions' = {} /\ preflight' = e
  BY DEF Connecting, ClearConnectionBoundState, DropRuntime
<1> QED
  BY <1>1 DEF IInv, TypeOK, EndpointIsCurrent, OneAtWork, PreparesQuietly,
              BusyMeansWork, BoundToThisDaemon, Tasks, Sessions, UiStates, Busy

\* A report of the runtime changes its session, the state shown and, unless
\* that is Online, the request in flight; it keeps the invariant if the
\* runtime is left at work in every state that promises progress.
LEMMA ReportIInv ==
    ASSUME IInv, NEW from \in Sessions, NEW to \in Sessions \ {"none"},
           NEW s \in UiStates,
           s \in Busy \cup {"Online"} => to # "over",
           Report(from, to, s)
    PROVE  IInv'
<1>1. /\ runtime # NoEndpoint /\ session' = to /\ state' = s
      /\ request' \in {request, NoEndpoint}
      /\ UNCHANGED <<endpoint, preflight, restart, runtime, permissions, switches>>
  BY DEF Report, Show, ClearConnectionBoundState
<1>2. preflight = NoEndpoint /\ restart = NoEndpoint
  BY <1>1 DEF IInv, OneAtWork
<1> QED
  BY <1>1, <1>2 DEF IInv, TypeOK, EndpointIsCurrent, OneAtWork, PreparesQuietly,
              BusyMeansWork, BoundToThisDaemon, Tasks, UiStates, Busy

LEMMA UserStepIInv == IInv /\ UserStep => IInv'
<1> SUFFICES ASSUME IInv, UserStep PROVE IInv'
  OBVIOUS
<1> USE DEF IInv, TypeOK
<1>1. ASSUME ButtonsEnabled
      PROVE  preflight = NoEndpoint /\ restart = NoEndpoint
  BY <1>1 DEF ButtonsEnabled, PreparesQuietly
<1>2. ASSUME Switch PROVE switches' \in 0..MaxSwitches
  BY <1>2 DEF Switch
<1>3. CASE Connect
  BY <1>1, <1>2, <1>3, ConnectingIInv DEF Connect
<1>4. CASE \E e \in Endpoints : SaveEndpoint(e)
  BY <1>1, <1>2, <1>4, ConnectingIInv DEF SaveEndpoint
<1>5. CASE Restart
  BY <1>2, <1>5
  DEF Restart, DropRuntime, ClearConnectionBoundState, EndpointIsCurrent,
     OneAtWork, PreparesQuietly, BusyMeansWork, BoundToThisDaemon, Tasks, Sessions,
     UiStates, Busy
<1>6. CASE StartRequest
  BY <1>6 DEF StartRequest, EndpointIsCurrent, OneAtWork, PreparesQuietly,
     BusyMeansWork, BoundToThisDaemon
<1> QED BY <1>3, <1>4, <1>5, <1>6 DEF UserStep

LEMMA TaskStepIInv == IInv /\ TaskStep => IInv'
<1> SUFFICES ASSUME IInv, TaskStep PROVE IInv'
  OBVIOUS
<1> USE DEF IInv, TypeOK
<1>1. CASE PreflightOk
  <2>1. runtime = NoEndpoint /\ restart = NoEndpoint /\ permissions = {}
        /\ request = NoEndpoint
    BY <1>1 DEF PreflightOk, OneAtWork, PreparesQuietly, BoundToThisDaemon
  <2> QED
    BY <1>1, <2>1
    DEF PreflightOk, EndpointIsCurrent, OneAtWork, PreparesQuietly,
       BusyMeansWork, BoundToThisDaemon, Tasks, Sessions, UiStates, Busy
<1>2. CASE PreflightFails
  BY <1>2 DEF PreflightFails, EndpointIsCurrent, OneAtWork, PreparesQuietly,
     BusyMeansWork, BoundToThisDaemon, Tasks, UiStates, Busy
<1>3. CASE RestartOk
  <2>1. preflight = NoEndpoint
    BY <1>3 DEF RestartOk, OneAtWork
  <2> QED BY <1>3, <2>1, ConnectingIInv DEF RestartOk
<1>4. CASE RestartFails
  BY <1>4 DEF RestartFails, EndpointIsCurrent, OneAtWork, PreparesQuietly,
     BusyMeansWork, BoundToThisDaemon, Tasks, UiStates, Busy
<1>5. CASE FinishRequest
  BY <1>5 DEF FinishRequest, EndpointIsCurrent, OneAtWork, PreparesQuietly,
     BusyMeansWork, BoundToThisDaemon, Tasks
<1> QED BY <1>1, <1>2, <1>3, <1>4, <1>5 DEF TaskStep

LEMMA RuntimeStepIInv == IInv /\ RuntimeStep => IInv'
<1> SUFFICES ASSUME IInv, RuntimeStep PROVE IInv'
  OBVIOUS
<1> USE DEF Sessions, UiStates, Busy
<1>1. CASE HealthFails
  BY <1>1, ReportIInv DEF HealthFails
<1>2. CASE ReportConnecting \/ ReportAuthenticating \/ ReportOnline
  BY <1>2, ReportIInv DEF ReportConnecting, ReportAuthenticating, ReportOnline
<1>3. CASE ReportFailure \/ ReportReconnecting \/ ReportLag
  BY <1>3, ReportIInv DEF ReportFailure, ReportReconnecting, ReportLag
<1>4. CASE ReportFinalError
  BY <1>4, ReportIInv DEF ReportFinalError
<1>5. CASE PermissionRequested \/ PermissionResolved \/ HistoryReset
  <2>1. /\ runtime \in Endpoints /\ preflight = NoEndpoint
        /\ permissions' \subseteq permissions \cup {runtime}
        /\ UNCHANGED <<endpoint, preflight, restart, runtime, session, state,
                       request, switches>>
    BY <1>5
    DEF PermissionRequested, PermissionResolved, HistoryReset, Delivering,
       IInv, TypeOK, OneAtWork, Tasks
  <2> QED
    BY <2>1 DEF IInv, TypeOK, EndpointIsCurrent, OneAtWork, PreparesQuietly,
       BusyMeansWork, BoundToThisDaemon, Tasks
<1> QED BY <1>1, <1>2, <1>3, <1>4, <1>5 DEF RuntimeStep

\* The invariant holds in every reachable state.
THEOREM Invariance == Spec => []IInv
<1>1. IInv /\ [Next]_vars => IInv'
  <2> SUFFICES ASSUME IInv, [Next]_vars PROVE IInv'
    OBVIOUS
  <2>1. CASE Next
    BY <2>1, UserStepIInv, TaskStepIInv, RuntimeStepIInv DEF Next
  <2>2. CASE UNCHANGED vars
    BY <2>2
    DEF vars, IInv, TypeOK, EndpointIsCurrent, OneAtWork, PreparesQuietly,
       BusyMeansWork, BoundToThisDaemon, Tasks
  <2> QED BY <2>1, <2>2
<1> QED BY <1>1, InitIInv, PTL DEF Spec

\* Every variable keeps its type.
THEOREM TypeCorrect == Spec => []TypeOK
<1>1. IInv => TypeOK
  BY DEF IInv
<1> QED BY <1>1, Invariance, PTL

\* Whatever the user saves, detects, restarts or reconnects, and whenever: the
\* preflight and the runtime work for the endpoint that the settings show.
THEOREM EndpointNeverStale == Spec => []EndpointIsCurrent
<1>1. IInv => EndpointIsCurrent
  BY DEF IInv
<1> QED BY <1>1, Invariance, PTL

\* Preflight, restart and runtime exclude each other, although no lock and no
\* guard of restart_local_daemon's callback says so.
THEOREM NeverTwoAtWork == Spec => []OneAtWork
<1>1. IInv => OneAtWork
  BY DEF IInv
<1> QED BY <1>1, Invariance, PTL

\* No request and, while a runtime lives, no permission request crosses from
\* one daemon to another.
THEOREM NothingCrossesDaemons == Spec => []BoundToThisDaemon
<1>1. IInv => BoundToThisDaemon
  BY DEF IInv
<1> QED BY <1>1, Invariance, PTL

\* The views never promise progress that nobody works on.
THEOREM NoIdlePromise == Spec => []BusyMeansWork
<1>1. IInv => BusyMeansWork
  BY DEF IInv
<1> QED BY <1>1, Invariance, PTL

\* The buttons stay disabled, and the view clean, while a runtime is prepared.
THEOREM PreparationIsQuiet == Spec => []PreparesQuietly
<1>1. IInv => PreparesQuietly
  BY DEF IInv
<1> QED BY <1>1, Invariance, PTL

-----------------------------------------------------------------------------
(* The composition.                                                         *)

DP == INSTANCE LocalDaemonProofs WITH Mode <- TheModes, Bundle <- TheBundle

\* A step of the composition is a step of every component, or leaves it alone.
LEMMA StepOfEach ==
    ASSUME [ConnectionNext]_allVars
    PROVE  /\ [Next]_vars
           /\ [Dmn!Next]_(Dmn!vars)
           /\ [Ins!Next]_(Ins!vars)
<1> USE DEF OfView, OfDelivery, cV, dV, iV, uV
<1>1. UNCHANGED cV => UNCHANGED vars
  BY DEF vars
<1>2. UNCHANGED dV => UNCHANGED Dmn!vars
  BY DEF Dmn!vars, Dmn!shared, Dmn!counts
<1>3. UNCHANGED iV => UNCHANGED Ins!vars
  BY DEF Ins!vars
<1>4. UNCHANGED allVars => UNCHANGED <<cV, dV, iV, uV>>
  BY DEF allVars
<1> QED
  BY <1>1, <1>2, <1>3, <1>4 DEF ConnectionNext

\* The proofs speak of the definitions their modules have from LocalDaemon and
\* RuntimeInstall, MCConnection of those that it has from there: they are the
\* same.
LEMMA SameDaemon ==
    /\ Dmn!LocalDaemonAssumption => DP!LocalDaemonAssumption
    /\ Dmn!Init => DP!Init
    /\ Dmn!Next => DP!Next
    /\ UNCHANGED Dmn!vars => UNCHANGED DP!vars
    /\ DP!ForeignUntouched => Dmn!ForeignUntouched
    /\ DP!NoStrays => Dmn!NoStrays
BY DEF
    Dmn!LocalDaemonAssumption, Dmn!shared, Dmn!counts, Dmn!vars, Dmn!None,
    Dmn!NoAgent, Dmn!Down, Dmn!Idle, Dmn!Process, Dmn!Alive, Dmn!With, Dmn!Without,
    Dmn!Init, Dmn!Fault, Dmn!Health, Dmn!Answers, Dmn!AnyInstance, Dmn!SameInstance,
    Dmn!NobodyTold, Dmn!KillFails, Dmn!LosesChild, Dmn!Matches, Dmn!Refreshed, Dmn!IsOwned, Dmn!Remove, Dmn!Told, Dmn!ToldToStop,
    Dmn!BootOut, Dmn!Set, Dmn!Goto, Dmn!End, Dmn!At, Dmn!Begin, Dmn!Look, Dmn!Load,
    Dmn!StopSees, Dmn!Check, Dmn!Recheck, Dmn!Terminate, Dmn!Wait, Dmn!Kill,
    Dmn!Confirm, Dmn!Prepare, Dmn!ReplaceAgent, Dmn!Bootstrap, Dmn!Spawn,
    Dmn!Abort, Dmn!Started, Dmn!GivesUp, Dmn!Reap, Dmn!Crash,
    Dmn!Listen, Dmn!Exit, Dmn!Relaunch, Dmn!StartByHand, Dmn!Next,
    Dmn!ForeignUntouched, Dmn!NoStrays, DP!LocalDaemonAssumption, DP!shared,
    DP!counts, DP!vars, DP!None, DP!NoAgent, DP!Down, DP!Idle, DP!Process, DP!Alive,
    DP!With, DP!Without, DP!Init, DP!Fault, DP!Health, DP!Answers, DP!AnyInstance,
    DP!SameInstance, DP!NobodyTold, DP!KillFails, DP!LosesChild, DP!Matches, DP!Refreshed, DP!IsOwned, DP!Remove, DP!Told,
    DP!ToldToStop, DP!BootOut, DP!Set, DP!Goto, DP!End, DP!At, DP!Begin, DP!Look,
    DP!Load, DP!StopSees, DP!Check, DP!Recheck, DP!Terminate, DP!Wait, DP!Kill,
    DP!Confirm, DP!Prepare, DP!ReplaceAgent, DP!Bootstrap, DP!Spawn,
    DP!Abort, DP!Started, DP!GivesUp, DP!Reap, DP!Crash, DP!Listen,
    DP!Exit, DP!Relaunch, DP!StartByHand, DP!Next, DP!ForeignUntouched, DP!NoStrays

LEMMA SameInstall ==
    /\ Ins!InstallAssumption => DP!Ins!InstallAssumption
    /\ Ins!Init => DP!Ins!Init
    /\ Ins!Next => DP!Ins!Next
    /\ UNCHANGED Ins!vars => UNCHANGED DP!Ins!vars
    /\ DP!Ins!InstallIsAtomic => Ins!InstallIsAtomic
BY DEF
    Ins!InstallAssumption, Ins!vars, Ins!Absent, Ins!Partial, Ins!Unmarked,
    Ins!Damaged, Ins!Whole, Ins!Init, Ins!Goto, Ins!Put, Ins!Error, Ins!Managed,
    Ins!BeginInstall, Ins!Copy, Ins!Mark, Ins!SetAside, Ins!Commit, Ins!CleanUp,
    Ins!PutBack, Ins!InstallFails, Ins!InstallerDies, Ins!Damage, Ins!Next,
    Ins!DestinationIsWhole, Ins!RuntimeReturns, Ins!InstallIsAtomic,
    DP!Ins!InstallAssumption, DP!Ins!vars, DP!Ins!Absent, DP!Ins!Partial,
    DP!Ins!Unmarked, DP!Ins!Damaged, DP!Ins!Whole, DP!Ins!Init, DP!Ins!Goto,
    DP!Ins!Put, DP!Ins!Error, DP!Ins!Managed, DP!Ins!BeginInstall, DP!Ins!Copy,
    DP!Ins!Mark, DP!Ins!SetAside, DP!Ins!Commit, DP!Ins!CleanUp, DP!Ins!PutBack,
    DP!Ins!InstallFails, DP!Ins!InstallerDies, DP!Ins!Damage, DP!Ins!Next,
    DP!Ins!DestinationIsWhole, DP!Ins!RuntimeReturns, DP!Ins!InstallIsAtomic

\* What the view relies on while it connects, restarts and switches daemons
\* holds of the composition as well.
THEOREM ConnectionKeepsView ==
    ConnectionSpec => [](EndpointIsCurrent /\ OneAtWork /\ BoundToThisDaemon /\ BusyMeansWork)
<1>1. ConnectionInit => Init
  BY DEF ConnectionInit
<1>2. [ConnectionNext]_allVars => [Next]_vars
  BY StepOfEach
<1>3. IInv => EndpointIsCurrent /\ OneAtWork /\ BoundToThisDaemon /\ BusyMeansWork
  BY DEF IInv
<1> QED
  BY <1>1, <1>2, <1>3, Invariance, PTL DEF ConnectionSpec, Spec

\* What starts as the daemons of LocalDaemonProofs do goes on as they do.
LEMMA DaemonsOfConnection == ConnectionSpec => DP!Spec
<1>1. ConnectionInit => DP!Init
  BY SameDaemon DEF ConnectionInit
<1>2. [ConnectionNext]_allVars => [DP!Next]_(DP!vars)
  BY StepOfEach, SameDaemon
<1> QED
  BY <1>1, <1>2, PTL DEF ConnectionSpec, DP!Spec

\* service.rs: no interleaving of two applications and of daemons that come
\* and go tells a daemon to stop that no application started.
THEOREM ConnectionSparesForeigners == ConnectionSpec => []ForeignUntouched
<1>1. DP!LocalDaemonAssumption
  BY ConnectionAssumption, SameDaemon DEF ConnectionAssumption
<1>2. DP!Spec => []DP!ForeignUntouched
  BY <1>1, DP!ForeignersAreSafe
<1>3. DP!ForeignUntouched => ForeignUntouched
  BY SameDaemon DEF ForeignUntouched
<1> QED
  BY <1>2, <1>3, DaemonsOfConnection, PTL

\* local_daemon.rs, service.rs: with every operation over, a daemon that an
\* application started by itself is recorded or on its way out, but for those
\* that the desktop lost sight of: one whose answer to a check while it was
\* being stopped came too late, one whose starter ended before it was recorded,
\* and one whose starter could not ask whether it had exited.
THEOREM ConnectionLeavesNothing == ConnectionSpec => []NoStrays
<1>1. DP!LocalDaemonAssumption
  BY ConnectionAssumption, SameDaemon DEF ConnectionAssumption
<1>2. DP!Spec => []DP!NoStrays
  BY <1>1, DP!NothingIsLeftBehind
<1>3. DP!NoStrays => NoStrays
  BY SameDaemon DEF NoStrays
<1> QED
  BY <1>2, <1>3, DaemonsOfConnection, PTL

\* local_daemon/runtime.rs (install_runtime_into): for any number of
\* applications that install different bundles at one place, no half of a copy
\* is found there, and a runtime that was there is missing only while it is
\* exchanged, or after the one who exchanged it ended between the two renamings
\* or failed to put the backup back.
THEOREM ConnectionInstallsAtomically == ConnectionSpec => []InstallIsAtomic
<1>1. ConnectionInit => DP!Ins!Init
  BY SameInstall DEF ConnectionInit
<1>2. [ConnectionNext]_allVars => [DP!Ins!Next]_(DP!Ins!vars)
  BY StepOfEach, SameInstall
<1>3. DP!Ins!InstallAssumption
  BY ConnectionAssumption, SameInstall DEF ConnectionAssumption
<1>4. DP!Ins!Spec => []DP!Ins!InstallIsAtomic
  BY <1>3, DP!Atomicity
<1>5. DP!Ins!InstallIsAtomic => InstallIsAtomic
  BY SameInstall DEF InstallIsAtomic
<1> QED
  BY <1>1, <1>2, <1>4, <1>5, PTL DEF ConnectionSpec, DP!Ins!Spec
=============================================================================
