----------------------------- MODULE LocalDaemon ------------------------------
(***************************************************************************)
(* The local daemon as the desktop manages it (local_daemon.rs and its     *)
(* ownership.rs, health.rs, service.rs): ensuring that one of the expected *)
(* version runs on the port, restarting the one the desktop owns, and the  *)
(* record that says which one that is.                                     *)
(*                                                                         *)
(* Several desktop applications may be open: an installed one that uses    *)
(* the LaunchAgent and a debug build that starts a process of its own.     *)
(* They share the port, the record, the agent's label and its plist.  In   *)
(* one application operations follow each other (ConnectionView).  An      *)
(* application may end at any step; the processes it started live on.      *)
(*                                                                         *)
(* A process id is not used twice, and comparing and removing the record   *)
(* is one step: the windows of microseconds in which another process could *)
(* take the id, or another record the file, are left out.                  *)
(***************************************************************************)
EXTENDS Naturals, FiniteSets

CONSTANTS
    Apps,
    Mode,           \* [Apps -> {"direct", "agent"}]: preferred_mode
    Versions,
    MaxPids,        \* bound on processes
    MaxOperations,  \* bound on operations
    MaxFaults       \* bound on: deaths, slow answers, failures, crashes

LocalDaemonAssumption ==
    /\ Mode \in [Apps -> {"direct", "agent"}]
    /\ {MaxPids, MaxOperations, MaxFaults} \subseteq Nat

VARIABLES
    (* the applications *)
    expected,   \* [Apps -> Versions]: EXPECTED_DAEMON_VERSION
    op,         \* [Apps -> the operation under way]
    reapers,    \* records of the children whose end some application waits for
    (* shared *)
    record,     \* desktop-daemon.json
    plist, agent,       \* the LaunchAgent's file, and what is loaded
    procs,      \* [live process ids -> processes]
    port,       \* the process listening on port 6768, 0: none
    (* history *)
    pids, instances, operations, faults,
    astray,     \* processes the desktop has lost sight of: see NoStrays
    stopped     \* instances the desktop told to stop; 0 is any other program

shared == <<record, plist, agent, procs, port>>
counts == <<pids, instances, operations, faults>>
vars == <<expected, op, reapers, shared, counts, astray, stopped>>

None == [inst |-> 0, pid |-> 0, ver |-> 0, mode |-> "none"]
NoAgent == [inst |-> 0, ver |-> 0]
Down == [up |-> FALSE, ver |-> 0, inst |-> 0, pid |-> 0]
Idle == [pc |-> "idle", kind |-> "none", seen |-> Down, rec |-> None, inst |-> 0, pid |-> 0]

Process(i, v, m) == [inst |-> i, ver |-> v, mode |-> m, state |-> "starting"]
Alive == DOMAIN procs
With(p, x) == [q \in Alive \cup {p} |-> IF q = p THEN x ELSE procs[q]]
Without(S) == [q \in Alive \ S |-> procs[q]]

\* A daemon of the desktop's, recorded; one nobody recorded; or none.
Init ==
    /\ expected \in [Apps -> Versions]
    /\ op = [c \in Apps |-> Idle] /\ reapers = {}
    /\ \E v \in Versions, m \in {"direct", "agent", "foreign", "none"} :
        IF m = "none"
        THEN procs = <<>> /\ port = 0 /\ record = None /\ agent = NoAgent /\ plist = NoAgent
        ELSE LET i == IF m = "foreign" THEN 0 ELSE 1
             IN  /\ procs = [q \in {1} |-> [Process(i, v, m) EXCEPT !.state = "up"]]
                 /\ port = 1
                 /\ record = IF m = "foreign" THEN None
                             ELSE [inst |-> 1, pid |-> 1, ver |-> v, mode |-> m]
                 /\ agent = IF m = "agent" THEN [inst |-> 1, ver |-> v] ELSE NoAgent
                 /\ plist = agent
    /\ pids = 1 /\ instances = 1 /\ operations = 0 /\ faults = 0
    /\ astray = {} /\ stopped = {}

-----------------------------------------------------------------------------
(* What the steps use.                                                      *)

Fault == faults < MaxFaults /\ faults' = faults + 1

\* health::status: version and owner; a daemon that does not answer in time
\* looks like none.
Health == IF port = 0 THEN Down
          ELSE [up |-> TRUE, ver |-> procs[port].ver, inst |-> procs[port].inst, pid |-> port]
Answers(h) ==
    \/ h = Health /\ UNCHANGED faults
    \/ h = Down /\ port # 0 /\ Fault

\* Mutant: only the version is compared.
AnyInstance(rec, h) == TRUE

SameInstance(rec, h) == h.inst # 0 /\ rec.inst = h.inst

\* OwnershipRecord::matches; launchd may have started the agent again.
Matches(rec, h) ==
    /\ rec # None /\ rec.ver = h.ver
    /\ SameInstance(rec, h)
    /\ rec.pid = h.pid \/ rec.mode = "agent"

\* load_matching stores the new process id.
Refreshed(h) == [record EXCEPT !.pid = h.pid]

\* ensure_same_owned_instance and wait_for_owned_stop compare both.
IsOwned(rec, h) == SameInstance(rec, h) /\ rec.pid = h.pid

\* remove_if_matches.
Remove(rec) == record' = IF record = rec THEN None ELSE record

Told(S) == stopped' = stopped \cup {procs[p].inst : p \in S}
ToldToStop(S) == [q \in Alive |-> IF q \in S THEN [procs[q] EXCEPT !.state = "stopping"]
                                            ELSE procs[q]]
\* bootout_launch_agent: by its label, whatever is loaded under it.
BootOut ==
    LET S == {p \in Alive : procs[p].mode = "agent" /\ procs[p].inst = agent.inst}
    IN  agent' = NoAgent /\ procs' = ToldToStop(S) /\ Told(S)

\* launchctl or the signal fails.
NobodyTold == UNCHANGED <<agent, procs, stopped>>

Set(c, o) == op' = [op EXCEPT ![c] = o]
Goto(c, l) == Set(c, [op[c] EXCEPT !.pc = l])
End(c) == Set(c, Idle)
At(c, l) == op[c].pc = l

-----------------------------------------------------------------------------
(* ensure_available and restart_owned.                                      *)

Begin(c, kind) ==
    /\ At(c, "idle") /\ operations < MaxOperations /\ operations' = operations + 1
    /\ Set(c, [Idle EXCEPT !.pc = "look", !.kind = kind])
    /\ UNCHANGED <<expected, reapers, shared, pids, instances, faults, astray, stopped>>

Look(c) ==
    /\ At(c, "look")
    /\ \E h \in {Health, Down} :
        /\ Answers(h)
        /\ Set(c, [op[c] EXCEPT !.pc = IF h.up THEN "load" ELSE "prepare", !.seen = h])
    /\ UNCHANGED <<expected, reapers, shared, pids, instances, operations, astray, stopped>>

\* A daemon of the expected version is used as it is, unless it is the
\* desktop's and should run as an agent; any other one is stopped, if it is
\* the desktop's.
Load(c) ==
    LET h == op[c].seen
        owned == Matches(record, h)
        migrates == owned /\ Mode[c] = "agent" /\ record.mode # "agent"
    IN  /\ At(c, "load")
        /\ record' = IF owned THEN Refreshed(h) ELSE record
        /\ IF ~owned \/ (op[c].kind = "ensure" /\ h.ver = expected[c] /\ ~migrates)
           THEN End(c)
           ELSE Set(c, [op[c] EXCEPT !.pc = "check", !.rec = Refreshed(h)])
        /\ UNCHANGED <<expected, reapers, plist, agent, procs, port, counts, astray, stopped>>

\* A health check while stopping: gone, still there, or somebody else.  What
\* did not answer in time is taken for gone, and forgotten.
StopSees(c, there) ==
    /\ \E h \in {Health, Down} :
        /\ Answers(h)
        /\ astray' = IF h.up \/ port = 0 THEN astray ELSE astray \cup {port}
        /\ IF ~h.up THEN Remove(op[c].rec) /\ Goto(c, "prepare")
           ELSE /\ UNCHANGED record
                /\ IF IsOwned(op[c].rec, h) THEN there ELSE End(c)
    /\ UNCHANGED <<expected, reapers, plist, agent, procs, port, pids, instances,
                   operations, stopped>>

\* ensure_same_owned_instance, before each signal.
Check(c) == At(c, "check") /\ StopSees(c, Goto(c, "terminate"))
Recheck(c) == At(c, "recheck") /\ StopSees(c, Goto(c, "kill"))

\* ownership::terminate; "gone": kill found no such process, or launchctl
\* failed.
Terminate(c) ==
    LET rec == op[c].rec
    IN  /\ At(c, "terminate")
        /\ \/ /\ rec.mode = "agent" /\ BootOut
              /\ Goto(c, "wait") /\ UNCHANGED faults
           \/ /\ rec.mode # "agent" /\ rec.pid \in Alive
              /\ procs' = ToldToStop({rec.pid}) /\ Told({rec.pid})
              /\ Goto(c, "wait") /\ UNCHANGED <<agent, faults>>
           \/ /\ rec.mode # "agent" /\ rec.pid \notin Alive
              /\ Goto(c, "gone") /\ NobodyTold /\ UNCHANGED faults
           \/ /\ rec.mode = "agent" /\ Fault
              /\ Goto(c, "gone") /\ NobodyTold
        /\ UNCHANGED <<expected, reapers, record, plist, port, pids, instances, operations, astray>>

\* STOP_TIMEOUT.
Wait(c) == At(c, "wait") /\ StopSees(c, Goto(c, "recheck"))

\* ownership::force_kill.
KillFails(c) ==
    /\ At(c, "kill") /\ op[c].rec.mode = "agent"
    /\ Fault
    /\ Goto(c, "gone")
    /\ UNCHANGED <<expected, reapers, shared, pids, instances, operations, astray, stopped>>

Kill(c) ==
    LET pid == op[c].rec.pid
        S == {p \in Alive : procs[p].mode = "agent" /\ procs[p].inst = agent.inst
                            /\ op[c].rec.mode = "agent"}
        known == {pid} \cap Alive
    IN  /\ At(c, "kill")
        /\ agent' = IF op[c].rec.mode = "agent" THEN NoAgent ELSE agent
        /\ procs' = [q \in Alive \ {pid} |-> ToldToStop(S)[q]]
        /\ Told(S \cup known)
        /\ port' = IF port = pid THEN 0 ELSE port
        /\ Goto(c, IF known = {} THEN "gone" ELSE "wait_kill")
        /\ UNCHANGED <<expected, reapers, record, plist, counts, astray>>

\* After a kill, or a signal that reached nobody: the daemon must be gone now.
Confirm(c) == (At(c, "wait_kill") \/ At(c, "gone")) /\ StopSees(c, End(c))

-----------------------------------------------------------------------------
(* start_daemon.                                                            *)

\* runtime::prepare; for the agent the plist is written too.
Prepare(c) ==
    /\ At(c, "prepare")
    /\ \/ /\ instances' = instances + 1
          /\ Set(c, [op[c] EXCEPT !.inst = instances',
                     !.pc = IF Mode[c] = "agent" THEN "bootout" ELSE "spawn"])
          /\ plist' = IF Mode[c] = "agent" THEN [inst |-> instances', ver |-> expected[c]]
                      ELSE plist
          /\ UNCHANGED faults
       \/ Fault /\ End(c) /\ UNCHANGED <<instances, plist>>
    /\ UNCHANGED <<expected, reapers, record, agent, procs, port, pids, operations, astray,
                   stopped>>

ReplaceAgent(c) ==
    /\ At(c, "bootout")
    /\ \/ BootOut /\ Goto(c, "bootstrap") /\ UNCHANGED faults
       \/ Fault /\ NobodyTold /\ End(c)
    /\ UNCHANGED <<expected, reapers, record, plist, port, pids, instances, operations, astray>>

\* launchctl loads what the plist holds now, unless the label is loaded or it
\* fails.
Bootstrap(c) ==
    /\ At(c, "bootstrap") /\ pids < MaxPids
    /\ \/ /\ agent = NoAgent
          /\ agent' = plist
          /\ pids' = pids + 1
          /\ procs' = With(pids', Process(plist.inst, plist.ver, "agent"))
          /\ Goto(c, "poll") /\ UNCHANGED stopped
       \/ (BootOut \/ NobodyTold) /\ End(c) /\ UNCHANGED pids
    /\ UNCHANGED <<expected, reapers, record, plist, port, instances, operations, faults, astray>>

Spawn(c) ==
    /\ At(c, "spawn") /\ pids < MaxPids
    /\ pids' = pids + 1
    /\ procs' = With(pids', Process(op[c].inst, expected[c], "direct"))
    /\ Set(c, [op[c] EXCEPT !.pc = "poll", !.pid = pids'])
    /\ UNCHANGED <<expected, reapers, record, plist, agent, port, instances, operations, faults,
                   astray, stopped>>

\* Mutant: a daemon that was not ready in time is left to itself.
AbortNothing(c) == UNCHANGED <<procs, port, agent, stopped>>

\* service::abort: the child, or whatever the label stands for; it ignores
\* that launchctl fails.
Abort(c) ==
    IF Mode[c] = "agent" THEN (BootOut \/ NobodyTold) /\ UNCHANGED port
    ELSE LET S == {op[c].pid} \cap Alive
         IN  /\ procs' = Without(S) /\ Told(S)
             /\ port' = IF port \in S THEN 0 ELSE port
             /\ UNCHANGED agent

\* Its own instance answers: it is recorded, and a child is waited for.
Started(c) ==
    LET h == Health
        rec == [inst |-> h.inst, pid |-> h.pid, ver |-> h.ver, mode |-> Mode[c]]
    IN  /\ At(c, "poll")
        /\ h.up /\ h.inst = op[c].inst /\ h.ver = expected[c]
        /\ record' = rec
        /\ reapers' = IF Mode[c] = "agent" THEN reapers
                      ELSE reapers \cup {[app |-> c, rec |-> rec]}
        /\ End(c)
        /\ UNCHANGED <<expected, plist, agent, procs, port, counts, astray, stopped>>

\* Somebody else's daemon answers, the record cannot be stored, the child has
\* exited, or START_TIMEOUT: what was started is taken back.
GivesUp(c) ==
    /\ At(c, "poll")
    /\ \/ Health.up /\ Health.inst # op[c].inst /\ UNCHANGED faults
       \/ Mode[c] = "direct" /\ op[c].pid \notin Alive /\ UNCHANGED faults
       \/ Fault
    /\ Abort(c)
    /\ End(c)
    /\ UNCHANGED <<expected, reapers, record, plist, pids, instances, operations, astray>>

\* try_wait(..)?: whether the child has exited is not known.  The operation
\* ends, and the child is neither ended nor waited for.
LosesChild(c) ==
    /\ At(c, "poll") /\ Mode[c] = "direct"
    /\ Fault
    /\ astray' = astray \cup {op[c].pid}
    /\ End(c)
    /\ UNCHANGED <<expected, reapers, shared, pids, instances, operations, stopped>>

\* runtime::reap_child.
Reap(r) ==
    /\ r \in reapers /\ r.rec.pid \notin Alive
    /\ reapers' = reapers \ {r}
    /\ Remove(r.rec)
    /\ UNCHANGED <<expected, op, plist, agent, procs, port, counts, astray, stopped>>

Crash(c) ==
    /\ Fault
    /\ End(c)
    /\ reapers' = {r \in reapers : r.app # c}
    /\ astray' = IF At(c, "poll") THEN astray \cup {op[c].pid} ELSE astray
    /\ UNCHANGED <<expected, shared, pids, instances, operations, stopped>>

-----------------------------------------------------------------------------
(* The processes and launchd.                                               *)

\* Only one process can have the port; the others exit.
Listen(p) ==
    /\ procs[p].state = "starting"
    /\ IF port = 0
       THEN port' = p /\ procs' = [procs EXCEPT ![p].state = "up"]
       ELSE procs' = Without({p}) /\ UNCHANGED port
    /\ UNCHANGED <<expected, op, reapers, record, plist, agent, counts, astray, stopped>>

Exit(p) ==
    /\ \/ procs[p].state = "stopping" /\ UNCHANGED faults
       \/ Fault
    /\ procs' = Without({p})
    /\ port' = IF port = p THEN 0 ELSE port
    /\ UNCHANGED <<expected, op, reapers, record, plist, agent, pids, instances, operations,
                   astray, stopped>>

\* KeepAlive.
Relaunch ==
    /\ agent # NoAgent /\ pids < MaxPids
    /\ \A p \in Alive : procs[p].mode # "agent" \/ procs[p].inst # agent.inst
    /\ pids' = pids + 1
    /\ procs' = With(pids', Process(agent.inst, agent.ver, "agent"))
    /\ UNCHANGED <<expected, op, reapers, record, plist, agent, port, instances, operations,
                   faults, astray, stopped>>

\* Somebody starts a daemon by hand.
StartByHand(v) ==
    /\ pids < MaxPids /\ port = 0 /\ Fault
    /\ pids' = pids + 1
    /\ procs' = With(pids', Process(0, v, "foreign"))
    /\ UNCHANGED <<expected, op, reapers, record, plist, agent, port, instances, operations,
                   astray, stopped>>

Next ==
    \/ \E c \in Apps :
        \/ \E kind \in {"ensure", "restart"} : Begin(c, kind)
        \/ Look(c) \/ Load(c) \/ Check(c) \/ Terminate(c) \/ Wait(c) \/ Recheck(c)
        \/ Kill(c) \/ KillFails(c) \/ Confirm(c)
        \/ Prepare(c) \/ ReplaceAgent(c) \/ Bootstrap(c) \/ Spawn(c) \/ Started(c) \/ GivesUp(c)
        \/ LosesChild(c) \/ Crash(c)
    \/ \E r \in reapers : Reap(r)
    \/ \E p \in Alive : Listen(p) \/ Exit(p)
    \/ Relaunch
    \/ \E v \in Versions : StartByHand(v)

Spec == Init /\ [][Next]_vars

-----------------------------------------------------------------------------
\* README:304: a daemon the desktop did not start is never told to stop, in
\* any interleaving of two applications and of daemons that come and go.
ForeignUntouched == 0 \notin stopped

Recorded == port # 0 /\ record # None /\ record.inst = procs[port].inst

\* With every operation over, a daemon that an application started by itself is
\* the recorded one, so that it can be stopped, or on its way out: whichever way
\* an operation fails.  The desktop loses sight of one in three ways only: a
\* health check while stopping it got no answer in time (local_daemon.rs:482),
\* and the application that had started it ended before it was recorded, or
\* could not ask whether it had exited (local_daemon.rs:327).
NoStrays ==
    (\A c \in Apps : At(c, "idle")) =>
        \A p \in Alive \ astray : procs[p].mode = "direct" /\ procs[p].state # "stopping"
            => record.inst = procs[p].inst

\* README:310: a debug build does not interfere with the installed service.
\* Not so when their versions differ: it stops the service it finds recorded.
DebugSparesService ==
    [][\A c \in Apps : Mode[c] = "direct" /\ At(c, "terminate") /\ op[c].kind = "ensure"
            => agent' = agent]_vars
=============================================================================
