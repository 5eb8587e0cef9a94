-------------------------- MODULE LocalDaemonProofs ---------------------------
(***************************************************************************)
(* ForeignUntouched and NoStrays for any number of applications, versions, *)
(* processes, operations, slow answers, failures and crashes; and, of      *)
(* RuntimeInstall, InstallIsAtomic for any number of bundles.              *)
(***************************************************************************)
EXTENDS LocalDaemon, TLAPS

VersionsOrNone == Versions \cup {0}
Modes     == {"direct", "agent", "foreign"}
States    == {"starting", "up", "stopping"}
Processes == [inst : Nat, ver : VersionsOrNone, mode : Modes, state : States]
Records   == [inst : Nat, pid : Nat, ver : VersionsOrNone, mode : Modes \cup {"none"}]
Loaded    == [inst : Nat, ver : VersionsOrNone]
Answered  == [up : BOOLEAN, ver : VersionsOrNone, inst : Nat, pid : Nat]

Stopping == {"check", "terminate", "wait", "recheck", "kill", "wait_kill", "gone"}
Starting == {"bootout", "bootstrap", "spawn", "poll"}
PCs == {"idle", "look", "load", "prepare"} \cup Stopping \cup Starting
Operations == [pc : PCs, kind : {"none", "ensure", "restart"}, seen : Answered, rec : Records,
               inst : Nat, pid : Nat]

\* The processes: ids go up, what launchd has loaded is the desktop's, and the
\* listener is one of them that has listened.
MachineInv ==
    /\ pids \in Nat /\ instances \in Nat \ {0}
    /\ Alive \subseteq 1..pids /\ procs \in [Alive -> Processes]
    /\ \A p \in Alive : procs[p].mode = "agent" => procs[p].inst # 0
    /\ record \in Records
    /\ plist \in Loaded
    /\ agent \in Loaded /\ (agent # NoAgent => agent.inst # 0)
    /\ port # 0 => port \in Alive /\ procs[port].state # "starting"

\* Whoever has the process id i now, it is instance x.
Names(x, i) == i \in 0..pids /\ (i \in Alive => procs[i].inst = x)

\* What an operation remembers is still true of the process it names, and what
\* it is about to stop or to abort is the desktop's.
OperationInv(c, o) ==
    /\ o \in Operations
    /\ Names(o.seen.inst, o.seen.pid)
    /\ o.pc \in Stopping => o.rec.inst # 0 /\ Names(o.rec.inst, o.rec.pid)
    /\ o.pc \in Starting => o.inst # 0
    /\ o.pc \in {"bootout", "bootstrap"} => Mode[c] = "agent" /\ plist.inst # 0
    /\ o.pc = "poll" /\ Mode[c] = "direct" => Names(o.inst, o.pid)

AppsInv ==
    /\ expected \in [Apps -> Versions]
    /\ DOMAIN op = Apps /\ op = [c \in Apps |-> op[c]]
    /\ \A c \in Apps : OperationInv(c, op[c])

DaemonInv == MachineInv /\ AppsInv /\ ForeignUntouched

\* No process changes its identity, and no id is given away again.
Keeps ==
    /\ pids' \in Nat /\ pids <= pids'
    /\ \A i \in Alive' : i <= pids => i \in Alive /\ procs'[i].inst = procs[i].inst
    /\ plist.inst # 0 => plist'.inst # 0

LEMMA NamesKept ==
    ASSUME MachineInv, Keeps, NEW x, NEW i, Names(x, i)
    PROVE  Names(x, i)'
BY DEF MachineInv, Keeps, Names

LEMMA OperationKept ==
    ASSUME MachineInv, Keeps, NEW c, NEW o, OperationInv(c, o)
    PROVE  OperationInv(c, o)'
BY NamesKept DEF OperationInv, Keeps

\* One operation goes on, or none.
LEMMA AppsKept ==
    ASSUME MachineInv, Keeps, AppsInv, UNCHANGED expected,
           \/ UNCHANGED op
           \/ \E c \in Apps : \E o : op' = [op EXCEPT ![c] = o] /\ OperationInv(c, o)'
    PROVE  AppsInv'
<1>1. CASE UNCHANGED op
  BY <1>1, OperationKept DEF AppsInv
<1>2. ASSUME NEW c \in Apps, NEW o, op' = [op EXCEPT ![c] = o], OperationInv(c, o)'
      PROVE  AppsInv'
  BY <1>2, OperationKept DEF AppsInv
<1> QED
  BY <1>1, <1>2

\* Telling processes to stop, and ending some.
LEMMA Told_ ==
    ASSUME NEW S \in SUBSET Alive, MachineInv
    PROVE  /\ DOMAIN ToldToStop(S) = Alive
           /\ ToldToStop(S) \in [Alive -> Processes]
           /\ \A p \in Alive : /\ ToldToStop(S)[p].inst = procs[p].inst
                               /\ ToldToStop(S)[p].mode = procs[p].mode
                               /\ procs[p].state # "starting"
                                    => ToldToStop(S)[p].state # "starting"
BY DEF ToldToStop, MachineInv, Processes, States

\* launchctl bootout reaches the agents of the desktop only.
LEMMA BootOutSpares ==
    ASSUME MachineInv, ForeignUntouched, BootOut,
           UNCHANGED <<record, plist, port, pids, instances>>
    PROVE  MachineInv' /\ Keeps /\ ForeignUntouched'
<1> DEFINE S == {p \in Alive : procs[p].mode = "agent" /\ procs[p].inst = agent.inst}
<1>1. procs' = ToldToStop(S) /\ agent' = NoAgent /\ Told(S)
  BY DEF BootOut
<1>2. S \in SUBSET Alive /\ \A p \in S : procs[p].inst # 0
  BY DEF MachineInv
<1> HIDE DEF S
<1>3. MachineInv' /\ Keeps
  BY <1>1, <1>2, Told_ DEF MachineInv, Keeps, NoAgent, Loaded, VersionsOrNone, Alive
<1>4. ForeignUntouched'
  BY <1>1, <1>2 DEF Told, ForeignUntouched
<1> QED
  BY <1>3, <1>4

LEMMA BootOutOrNot ==
    ASSUME MachineInv, ForeignUntouched, BootOut \/ NobodyTold,
           UNCHANGED <<record, plist, port, pids, instances>>
    PROVE  MachineInv' /\ Keeps /\ ForeignUntouched'
<1>1. CASE BootOut
  BY <1>1, BootOutSpares
<1>2. CASE NobodyTold
  BY <1>2 DEF NobodyTold, MachineInv, Keeps, Alive, ForeignUntouched
<1> QED
  BY <1>1, <1>2

\* A health check tells the truth about the listener, or nothing.
LEMMA HealthIsTrue ==
    ASSUME MachineInv
    PROVE  /\ Health \in Answered /\ Names(Health.inst, Health.pid)
           /\ Down \in Answered /\ Names(Down.inst, Down.pid)
<1>1. Down \in Answered /\ Names(Down.inst, Down.pid)
  BY DEF MachineInv, Down, Answered, Names, VersionsOrNone
<1>2. CASE port = 0
  BY <1>1, <1>2 DEF Health
<1>3. CASE port # 0
  <2>1. port \in Alive /\ procs[port] \in Processes /\ port \in 1..pids /\ pids \in Nat
    BY <1>3 DEF MachineInv
  <2>2. Health.inst = procs[port].inst /\ Health.pid = port
    BY <1>3 DEF Health
  <2>3. Health \in Answered
    BY <1>3, <2>1 DEF Health, Answered, Processes
  <2> QED
    BY <1>1, <2>1, <2>2, <2>3 DEF Names
<1> QED
  BY <1>2, <1>3

\* Nothing that matters to the processes changes.
LEMMA MachineKept ==
    ASSUME MachineInv, record' \in Records,
           UNCHANGED <<plist, agent, procs, port, pids, instances>>
    PROVE  MachineInv' /\ Keeps
BY DEF MachineInv, Keeps, Alive

\* A step of one application's operation, to where it needs to know no more.
LEMMA GoesOn ==
    ASSUME NEW c \in Apps, NEW l \in PCs, AppsInv, Goto(c, l),
           l \in Stopping => op[c].pc \in Stopping, l \in Starting => FALSE
    PROVE  \E o : op' = [op EXCEPT ![c] = o] /\ OperationInv(c, o)
<1>1. PICK o : o = [op[c] EXCEPT !.pc = l]
  OBVIOUS
<1>2. op' = [op EXCEPT ![c] = o]
  BY <1>1 DEF Goto, Set
<1>3. OperationInv(c, o)
  <2>1. op[c] \in Operations /\ OperationInv(c, op[c])
    BY DEF AppsInv, OperationInv
  <2>2. /\ o \in Operations /\ o.pc = l /\ o.seen = op[c].seen /\ o.rec = op[c].rec
    BY <1>1, <2>1 DEF Operations
  <2> QED
    BY <2>1, <2>2 DEF OperationInv, Starting
<1> QED
  BY <1>2, <1>3

LEMMA Ends ==
    ASSUME NEW c \in Apps, MachineInv, AppsInv, End(c)
    PROVE  \E o : op' = [op EXCEPT ![c] = o] /\ OperationInv(c, o)
<1>1. PICK o : o = Idle
  OBVIOUS
<1>2. op' = [op EXCEPT ![c] = o]
  BY <1>1 DEF End, Set
<1>3. OperationInv(c, o)
  BY <1>1
  DEF OperationInv, Operations, Idle, Down, None, Answered, Records, VersionsOrNone, PCs,
      Stopping, Starting, Names, MachineInv
<1> QED
  BY <1>2, <1>3

\* What StopSees comes to: the record may go, and the operation goes on
\* stopping, gives up or begins to start.
LEMMA StoppingGoesOn ==
    ASSUME DaemonInv, NEW c \in Apps, op[c].pc \in Stopping,
           record' \in {record, None},
           (\E l \in Stopping \cup {"prepare"} : Goto(c, l)) \/ End(c),
           UNCHANGED <<expected, plist, agent, procs, port, pids, instances, stopped>>
    PROVE  DaemonInv'
<1>1. record' \in Records
  BY DEF DaemonInv, MachineInv, None, Records, VersionsOrNone
<1>2. MachineInv' /\ Keeps
  BY <1>1, MachineKept DEF DaemonInv
<1>3. \E o : op' = [op EXCEPT ![c] = o] /\ OperationInv(c, o)
  BY GoesOn, Ends DEF DaemonInv, PCs, Stopping, Starting
<1>4. AppsInv'
  BY <1>2, <1>3, AppsKept, OperationKept DEF DaemonInv
<1> QED
  BY <1>2, <1>4 DEF DaemonInv, ForeignUntouched

LEMMA Checks ==
    ASSUME DaemonInv, NEW c \in Apps, Check(c) \/ Recheck(c) \/ Wait(c) \/ Confirm(c)
    PROVE  DaemonInv'
BY StoppingGoesOn DEF Check, Recheck, Wait, Confirm, StopSees, Remove, At, Stopping

\* ownership::terminate: the process is the one the operation looked at.
LEMMA TerminateSpares ==
    ASSUME DaemonInv, NEW c \in Apps, Terminate(c)
    PROVE  DaemonInv'
<1>1. op[c].pc = "terminate" /\ OperationInv(c, op[c])
  BY DEF Terminate, At, DaemonInv, AppsInv
<1>2. \E o : op' = [op EXCEPT ![c] = o] /\ OperationInv(c, o)
  <2>1. Goto(c, "wait") \/ Goto(c, "gone")
    BY DEF Terminate
  <2> QED
    BY <1>1, <2>1, GoesOn DEF DaemonInv, PCs, Stopping, Starting
<1>3. MachineInv' /\ Keeps /\ ForeignUntouched'
  <2>1. CASE BootOut
    BY <2>1, BootOutSpares DEF Terminate, DaemonInv, counts
  <2>2. ASSUME op[c].rec.pid \in Alive, procs' = ToldToStop({op[c].rec.pid}),
               Told({op[c].rec.pid}), UNCHANGED agent
        PROVE  MachineInv' /\ Keeps /\ ForeignUntouched'
    <3>1. procs[op[c].rec.pid].inst # 0
      BY <1>1, <2>2 DEF OperationInv, Names, Stopping
    <3>2. MachineInv' /\ Keeps
      BY <2>2, Told_ DEF Terminate, DaemonInv, MachineInv, Keeps, Alive, counts
    <3> QED
      BY <2>2, <3>1, <3>2 DEF Told, ForeignUntouched, DaemonInv
  <2>3. CASE UNCHANGED <<agent, procs, stopped>>
    <3>1. UNCHANGED <<record, plist, agent, procs, port, pids, instances, stopped>>
      BY <2>3 DEF Terminate, counts
    <3>2. record' \in Records
      BY <3>1 DEF DaemonInv, MachineInv
    <3> QED
      BY <3>1, <3>2, MachineKept DEF DaemonInv, ForeignUntouched
  <2> QED
    BY <2>1, <2>2, <2>3 DEF Terminate, NobodyTold
<1>4. AppsInv'
  BY <1>2, <1>3, AppsKept, OperationKept DEF Terminate, DaemonInv
<1> QED
  BY <1>3, <1>4 DEF DaemonInv

\* ownership::force_kill: the process, and the agent if it was one.
LEMMA KillSpares ==
    ASSUME DaemonInv, NEW c \in Apps, Kill(c)
    PROVE  DaemonInv'
<1> DEFINE pid == op[c].rec.pid
           S == {p \in Alive : procs[p].mode = "agent" /\ procs[p].inst = agent.inst
                               /\ op[c].rec.mode = "agent"}
           known == {pid} \cap Alive
<1>1. op[c].pc = "kill" /\ OperationInv(c, op[c])
  BY DEF Kill, At, DaemonInv, AppsInv
<1>2. /\ agent' \in {NoAgent, agent} /\ procs' = [q \in Alive \ {pid} |-> ToldToStop(S)[q]]
      /\ Told(S \cup known) /\ port' = IF port = pid THEN 0 ELSE port
      /\ Goto(c, "gone") \/ Goto(c, "wait_kill")
      /\ UNCHANGED <<expected, record, plist, pids, instances>>
  BY DEF Kill, counts
<1>3. S \in SUBSET Alive /\ \A p \in S \cup known : p \in Alive /\ procs[p].inst # 0
  BY <1>1 DEF DaemonInv, MachineInv, OperationInv, Names, Stopping
<1>4. \E o : op' = [op EXCEPT ![c] = o] /\ OperationInv(c, o)
  BY <1>1, <1>2, GoesOn DEF DaemonInv, PCs, Stopping, Starting
<1> HIDE DEF pid, S, known
<1>5. MachineInv' /\ Keeps
  BY <1>2, <1>3, Told_ DEF DaemonInv, MachineInv, Keeps, Alive, NoAgent, Loaded, VersionsOrNone
<1>6. ForeignUntouched'
  BY <1>2, <1>3 DEF Told, ForeignUntouched, DaemonInv
<1>7. AppsInv'
  BY <1>2, <1>4, <1>5, AppsKept, OperationKept DEF DaemonInv
<1> QED
  BY <1>5, <1>6, <1>7 DEF DaemonInv

LEMMA KillFailsInv ==
    ASSUME DaemonInv, NEW c \in Apps, KillFails(c)
    PROVE  DaemonInv'
BY StoppingGoesOn DEF KillFails, At, Stopping, shared

LEMMA BeginInv ==
    ASSUME DaemonInv, NEW c \in Apps, NEW kind \in {"ensure", "restart"}, Begin(c, kind)
    PROVE  DaemonInv'
<1>1. PICK o : o = [Idle EXCEPT !.pc = "look", !.kind = kind]
  OBVIOUS
<1>2. op' = [op EXCEPT ![c] = o]
  BY <1>1 DEF Begin, Set
<1>3. OperationInv(c, o)
  <2>1. Idle \in Operations /\ Idle.seen = Down
    BY DEF Operations, Idle, Down, None, Answered, Records, VersionsOrNone, PCs
  <2>2. o \in Operations /\ o.pc = "look" /\ o.seen = Down
    BY <1>1, <2>1 DEF Operations, PCs
  <2>3. Names(Down.inst, Down.pid)
    BY HealthIsTrue DEF DaemonInv
  <2> QED
    BY <2>2, <2>3 DEF OperationInv, Stopping, Starting
<1>4. MachineInv' /\ Keeps
  BY MachineKept DEF Begin, DaemonInv, MachineInv, shared
<1>5. AppsInv'
  BY <1>2, <1>3, <1>4, AppsKept, OperationKept DEF Begin, DaemonInv
<1> QED
  BY <1>4, <1>5 DEF Begin, DaemonInv, ForeignUntouched

\* ensure_available, restart_owned: what was seen is remembered.
LEMMA LookInv ==
    ASSUME DaemonInv, NEW c \in Apps, Look(c)
    PROVE  DaemonInv'
<1>1. PICK h \in {Health, Down} :
        op' = [op EXCEPT ![c] = [op[c] EXCEPT !.pc = IF h.up THEN "load" ELSE "prepare",
                                              !.seen = h]]
  BY DEF Look, Set
<1>2. PICK o : o = [op[c] EXCEPT !.pc = IF h.up THEN "load" ELSE "prepare", !.seen = h]
  OBVIOUS
<1>3. h \in Answered /\ Names(h.inst, h.pid)
  BY HealthIsTrue DEF DaemonInv
<1>4. OperationInv(c, o)
  <2>1. op[c] \in Operations
    BY DEF DaemonInv, AppsInv, OperationInv
  <2>2. o \in Operations /\ o.pc \in {"load", "prepare"} /\ o.seen = h
    BY <1>2, <1>3, <2>1 DEF Operations, PCs
  <2> QED
    BY <1>3, <2>2 DEF OperationInv, Stopping, Starting
<1>5. MachineInv' /\ Keeps
  BY MachineKept DEF Look, DaemonInv, MachineInv, shared
<1>6. AppsInv'
  BY <1>1, <1>2, <1>4, <1>5, AppsKept, OperationKept DEF Look, DaemonInv
<1> QED
  BY <1>5, <1>6 DEF Look, DaemonInv, ForeignUntouched

\* load_matching: only what the record and the health check both name.
LEMMA LoadInv ==
    ASSUME DaemonInv, NEW c \in Apps, Load(c)
    PROVE  DaemonInv'
<1> DEFINE h == op[c].seen
<1>1. op[c] \in Operations /\ h \in Answered /\ Names(h.inst, h.pid)
  BY DEF DaemonInv, AppsInv, OperationInv, Operations
<1>2. Refreshed(h) \in Records /\ Refreshed(h).inst = record.inst /\ Refreshed(h).pid = h.pid
  BY <1>1 DEF Refreshed, DaemonInv, MachineInv, Records, Answered
<1>3. record' \in Records
  BY <1>2 DEF Load, DaemonInv, MachineInv
<1>4. MachineInv' /\ Keeps
  BY <1>3, MachineKept DEF Load, DaemonInv, counts
<1>5. \E o : op' = [op EXCEPT ![c] = o] /\ OperationInv(c, o)
  <2>1. CASE End(c)
    BY <2>1, Ends DEF DaemonInv
  <2>2. ASSUME Matches(record, h), Set(c, [op[c] EXCEPT !.pc = "check", !.rec = Refreshed(h)])
        PROVE  \E o : op' = [op EXCEPT ![c] = o] /\ OperationInv(c, o)
    <3>1. PICK o : o = [op[c] EXCEPT !.pc = "check", !.rec = Refreshed(h)]
      OBVIOUS
    <3>2. o \in Operations /\ o.pc = "check" /\ o.seen = h /\ o.rec = Refreshed(h)
      BY <1>1, <1>2, <3>1 DEF Operations, PCs, Stopping
    <3>3. h.inst # 0 /\ record.inst = h.inst
      BY <2>2 DEF Matches, SameInstance
    <3>4. OperationInv(c, o)
      BY <1>1, <1>2, <3>2, <3>3 DEF OperationInv, Starting
    <3> QED
      BY <2>2, <3>1, <3>4 DEF Set
  <2> QED
    BY <2>1, <2>2 DEF Load
<1>6. AppsInv'
  BY <1>4, <1>5, AppsKept, OperationKept DEF Load, DaemonInv
<1> QED
  BY <1>4, <1>6 DEF Load, DaemonInv, ForeignUntouched

\* runtime::prepare: a new instance id, and the plist for it.
LEMMA PrepareInv ==
    ASSUME LocalDaemonAssumption, DaemonInv, NEW c \in Apps, Prepare(c)
    PROVE  DaemonInv'
<1>1. op[c] \in Operations /\ OperationInv(c, op[c]) /\ instances \in Nat \ {0}
      /\ expected[c] \in Versions
  BY DEF DaemonInv, AppsInv, MachineInv, OperationInv
<1>2. MachineInv' /\ Keeps /\ ForeignUntouched'
  BY <1>1 DEF Prepare, DaemonInv, MachineInv, Keeps, Loaded, VersionsOrNone, ForeignUntouched, Alive
<1>3. \E o : op' = [op EXCEPT ![c] = o] /\ OperationInv(c, o)'
  <2>1. CASE End(c)
    BY <1>2, <2>1, Ends, OperationKept DEF DaemonInv
  <2>2. ASSUME instances' = instances + 1,
               Set(c, [op[c] EXCEPT !.inst = instances',
                                    !.pc = IF Mode[c] = "agent" THEN "bootout" ELSE "spawn"]),
               plist' = IF Mode[c] = "agent" THEN [inst |-> instances', ver |-> expected[c]]
                        ELSE plist
        PROVE  \E o : op' = [op EXCEPT ![c] = o] /\ OperationInv(c, o)'
    <3>1. PICK o : o = [op[c] EXCEPT !.inst = instances + 1,
                                     !.pc = IF Mode[c] = "agent" THEN "bootout" ELSE "spawn"]
      OBVIOUS
    <3>2. /\ o \in Operations /\ o.pc \in {"bootout", "spawn"} /\ o.seen = op[c].seen
          /\ o.inst = instances + 1 /\ (o.pc = "bootout" => Mode[c] = "agent")
      <4>1. PICK l : l = IF Mode[c] = "agent" THEN "bootout" ELSE "spawn"
        OBVIOUS
      <4>2. l \in PCs /\ l \in {"bootout", "spawn"} /\ (l = "bootout" => Mode[c] = "agent")
        BY <4>1 DEF PCs, Starting
      <4>3. o = [op[c] EXCEPT !.inst = instances + 1, !.pc = l] /\ instances + 1 \in Nat
        BY <1>1, <3>1, <4>1
      <4> QED
        BY <1>1, <4>2, <4>3 DEF Operations
    <3>3. Names(o.seen.inst, o.seen.pid)'
      BY <1>1, <1>2, <3>2, NamesKept DEF DaemonInv, OperationInv
    <3>4. OperationInv(c, o)'
      BY <1>1, <2>2, <3>2, <3>3 DEF OperationInv, Stopping
    <3> QED
      BY <2>2, <3>1, <3>4 DEF Set
  <2> QED
    BY <2>1, <2>2 DEF Prepare
<1>4. AppsInv'
  BY <1>2, <1>3, AppsKept DEF Prepare, DaemonInv
<1> QED
  BY <1>2, <1>4 DEF DaemonInv

\* A process more, under an id of its own.
LEMMA NewProcess ==
    ASSUME MachineInv, NEW x \in Processes, x.mode = "agent" => x.inst # 0,
           pids' = pids + 1, procs' = With(pids', x),
           agent' \in Loaded, agent' # NoAgent => agent'.inst # 0,
           UNCHANGED <<record, plist, port, instances>>
    PROVE  MachineInv' /\ Keeps /\ pids' \in Alive' /\ procs'[pids'] = x
<1>1. pids + 1 \notin Alive /\ pids + 1 \in Nat
  BY DEF MachineInv
<1>2. /\ Alive' = Alive \cup {pids + 1} /\ procs' \in [Alive' -> Processes]
      /\ procs'[pids + 1] = x /\ \A i \in Alive : procs'[i] = procs[i]
  BY <1>1 DEF With, Alive, MachineInv
<1>3. Alive' \subseteq 1..pids' /\ pids' \in Nat
  BY <1>1, <1>2 DEF MachineInv
<1>4. \A p \in Alive' : procs'[p].mode = "agent" => procs'[p].inst # 0
  BY <1>2 DEF MachineInv
<1>5. port' # 0 => port' \in Alive' /\ procs'[port'].state # "starting"
  BY <1>2 DEF MachineInv
<1>6. MachineInv'
  BY <1>2, <1>3, <1>4, <1>5 DEF MachineInv
<1>7. Keeps
  BY <1>1, <1>2, <1>3 DEF MachineInv, Keeps
<1> QED
  BY <1>2, <1>6, <1>7

\* Some processes fewer.
LEMMA FewerProcesses ==
    ASSUME MachineInv, NEW S, procs' = Without(S),
           (port' = port /\ port \notin S) \/ port' = 0,
           UNCHANGED <<record, plist, agent, pids, instances>>
    PROVE  MachineInv' /\ Keeps
BY DEF MachineInv, Keeps, Without, Alive

LEMMA ReplaceAgentInv ==
    ASSUME DaemonInv, NEW c \in Apps, ReplaceAgent(c)
    PROVE  DaemonInv'
<1>1. MachineInv' /\ Keeps /\ ForeignUntouched'
  BY BootOutOrNot DEF ReplaceAgent, NobodyTold, DaemonInv
<1>2. PICK o : o = [op[c] EXCEPT !.pc = "bootstrap"]
  OBVIOUS
<1>3. OperationInv(c, op[c]) /\ op[c].pc = "bootout"
  BY DEF DaemonInv, AppsInv, ReplaceAgent, At
<1>4. OperationInv(c, o)
  <2>1. /\ o \in Operations /\ o.pc = "bootstrap" /\ o.seen = op[c].seen
        /\ o.inst = op[c].inst
    BY <1>2, <1>3 DEF OperationInv, Operations, PCs, Starting
  <2> QED
    BY <1>3, <2>1 DEF OperationInv, Stopping, Starting
<1>5. CASE Goto(c, "bootstrap")
  <2>1. op' = [op EXCEPT ![c] = o]
    BY <1>2, <1>5 DEF Goto, Set
  <2>2. AppsInv'
    BY <1>1, <1>4, <2>1, AppsKept, OperationKept DEF ReplaceAgent, DaemonInv
  <2> QED
    BY <1>1, <2>2 DEF DaemonInv
<1>6. CASE End(c)
  <2>1. AppsInv'
    BY <1>1, <1>6, Ends, AppsKept, OperationKept DEF ReplaceAgent, DaemonInv
  <2> QED
    BY <1>1, <2>1 DEF DaemonInv
<1> QED
  BY <1>5, <1>6 DEF ReplaceAgent

\* A step to "poll": a child is the instance the operation is about to start.
LEMMA Polls ==
    ASSUME NEW c \in Apps, NEW x, x = op[c].inst, NEW o \in Operations,
           o.pc = "poll", o.seen = op[c].seen, o.inst = x,
           OperationInv(c, op[c]), op[c].pc \in Starting,
           MachineInv, Keeps, Mode[c] = "direct" => Names(x, o.pid)'
    PROVE  OperationInv(c, o)'
<1>1. Names(o.seen.inst, o.seen.pid)'
  BY NamesKept DEF OperationInv
<1>2. x # 0
  BY DEF OperationInv
<1> QED
  BY <1>1, <1>2 DEF OperationInv, Stopping

LEMMA BootstrapInv ==
    ASSUME LocalDaemonAssumption, DaemonInv, NEW c \in Apps, Bootstrap(c)
    PROVE  DaemonInv'
<1>1. OperationInv(c, op[c]) /\ op[c].pc = "bootstrap" /\ op[c] \in Operations
  BY DEF DaemonInv, AppsInv, Bootstrap, At, OperationInv
<1>2. CASE /\ agent = NoAgent /\ agent' = plist /\ pids' = pids + 1
           /\ procs' = With(pids', Process(plist.inst, plist.ver, "agent"))
           /\ Goto(c, "poll") /\ UNCHANGED stopped
  <2>1. PICK x : x = Process(plist.inst, plist.ver, "agent")
    OBVIOUS
  <2>2. x \in Processes /\ x.inst # 0
    BY <1>1, <2>1 DEF Process, Processes, Modes, States, OperationInv, DaemonInv, MachineInv, Loaded
  <2>3. agent' = plist /\ pids' = pids + 1 /\ procs' = With(pids', x) /\ UNCHANGED stopped
    BY <1>2, <2>1
  <2>9. MachineInv' /\ Keeps
    BY <1>1, <2>2, <2>3, NewProcess
    DEF Bootstrap, DaemonInv, MachineInv, OperationInv
  <2>4. PICK o : o = [op[c] EXCEPT !.pc = "poll"]
    OBVIOUS
  <2>5. /\ o \in Operations /\ o.pc = "poll" /\ o.seen = op[c].seen /\ o.inst = op[c].inst
    BY <1>1, <2>4 DEF Operations, PCs, Starting
  <2>6. OperationInv(c, o)'
    BY <1>1, <2>9, <2>5, Polls DEF OperationInv, Starting, DaemonInv
  <2>7. op' = [op EXCEPT ![c] = o]
    BY <1>2, <2>4 DEF Goto, Set
  <2>8. AppsInv'
    BY <2>9, <2>6, <2>7, AppsKept DEF Bootstrap, DaemonInv
  <2> QED
    BY <2>3, <2>9, <2>8 DEF DaemonInv, ForeignUntouched
<1>3. CASE (BootOut \/ NobodyTold) /\ End(c) /\ UNCHANGED pids
  <2>1. MachineInv' /\ Keeps /\ ForeignUntouched'
    BY <1>3, BootOutOrNot DEF Bootstrap, DaemonInv
  <2>2. AppsInv'
    BY <1>3, <2>1, Ends, AppsKept, OperationKept DEF Bootstrap, DaemonInv
  <2> QED
    BY <2>1, <2>2 DEF DaemonInv
<1> QED
  BY <1>2, <1>3 DEF Bootstrap

LEMMA SpawnInv ==
    ASSUME DaemonInv, NEW c \in Apps, Spawn(c)
    PROVE  DaemonInv'
<1>1. /\ OperationInv(c, op[c]) /\ op[c].pc = "spawn" /\ op[c] \in Operations
      /\ expected[c] \in Versions /\ pids \in Nat
  BY DEF DaemonInv, AppsInv, MachineInv, Spawn, At, OperationInv
<1>2. PICK x : x = Process(op[c].inst, expected[c], "direct")
  OBVIOUS
<1>3. x \in Processes /\ x.inst = op[c].inst /\ x.mode = "direct"
  BY <1>1, <1>2 DEF Process, Processes, Modes, States, Operations, VersionsOrNone
<1>4. MachineInv' /\ Keeps /\ pids' \in Alive' /\ procs'[pids'] = x
  BY <1>2, <1>3, NewProcess DEF Spawn, DaemonInv, MachineInv
<1>5. PICK o : o = [op[c] EXCEPT !.pc = "poll", !.pid = pids + 1]
  OBVIOUS
<1>6. /\ o \in Operations /\ o.pc = "poll" /\ o.seen = op[c].seen /\ o.inst = op[c].inst
      /\ o.pid = pids + 1
  <2>1. PICK i \in Nat : i = pids + 1
    BY <1>1
  <2>2. o = [op[c] EXCEPT !.pc = "poll", !.pid = i] /\ "poll" \in PCs
    BY <1>5, <2>1 DEF PCs, Starting
  <2> QED
    BY <1>1, <2>1, <2>2 DEF Operations
<1>7. PICK n : n = op[c].inst
  OBVIOUS
<1>8. Names(n, o.pid)'
  <2>1. pids' = o.pid /\ pids' \in 0..pids'
    BY <1>1, <1>6 DEF Spawn
  <2> QED
    BY <1>3, <1>4, <1>7, <2>1 DEF Names
<1>9. OperationInv(c, o)'
  BY <1>1, <1>4, <1>6, <1>7, <1>8, Polls DEF Starting, DaemonInv
<1>10. op' = [op EXCEPT ![c] = o]
  BY <1>5 DEF Spawn, Set
<1>11. AppsInv'
  BY <1>4, <1>9, <1>10, AppsKept DEF Spawn, DaemonInv
<1> QED
  BY <1>4, <1>11 DEF Spawn, DaemonInv, ForeignUntouched

LEMMA StartedInv ==
    ASSUME LocalDaemonAssumption, DaemonInv, NEW c \in Apps, Started(c)
    PROVE  DaemonInv'
<1>1. record' \in Records
  <2>1. Health \in Answered /\ Mode[c] \in {"direct", "agent"}
    BY HealthIsTrue DEF DaemonInv, LocalDaemonAssumption
  <2> QED
    BY <2>1 DEF Started, Records, Answered, Modes
<1>2. MachineInv' /\ Keeps
  BY <1>1, MachineKept DEF Started, DaemonInv, counts
<1>3. AppsInv'
  BY <1>2, Ends, AppsKept, OperationKept DEF Started, DaemonInv
<1> QED
  BY <1>2, <1>3 DEF Started, DaemonInv, ForeignUntouched

\* service::abort: the child the operation started, or the agent.
LEMMA GivesUpInv ==
    ASSUME LocalDaemonAssumption, DaemonInv, NEW c \in Apps, GivesUp(c)
    PROVE  DaemonInv'
<1>1. OperationInv(c, op[c]) /\ op[c].pc = "poll" /\ Mode[c] \in {"direct", "agent"}
  BY DEF DaemonInv, AppsInv, GivesUp, At, LocalDaemonAssumption
<1>2. MachineInv' /\ Keeps /\ ForeignUntouched'
  <2>1. CASE Mode[c] = "agent"
    BY <2>1, BootOutOrNot DEF GivesUp, Abort, DaemonInv
  <2>2. CASE Mode[c] = "direct"
    <3>1. PICK S : S = {op[c].pid} \cap Alive
      OBVIOUS
    <3>2. procs' = Without(S) /\ Told(S) /\ port' = (IF port \in S THEN 0 ELSE port)
          /\ UNCHANGED agent
      BY <2>2, <3>1 DEF GivesUp, Abort
    <3>3. \A p \in S : p \in Alive /\ procs[p].inst # 0
      BY <1>1, <2>2, <3>1 DEF OperationInv, Names, Starting
    <3>4. MachineInv' /\ Keeps
      BY <3>2, FewerProcesses DEF GivesUp, DaemonInv
    <3>5. ForeignUntouched'
      BY <3>2, <3>3 DEF Told, ForeignUntouched, DaemonInv
    <3> QED
      BY <3>4, <3>5
  <2> QED
    BY <1>1, <2>1, <2>2
<1>3. AppsInv'
  BY <1>2, Ends, AppsKept, OperationKept DEF GivesUp, DaemonInv
<1> QED
  BY <1>2, <1>3 DEF DaemonInv

\* An application's end, its reapers, the processes, launchd and the user.
LEMMA OthersInv ==
    ASSUME DaemonInv,
           \/ \E c \in Apps : LosesChild(c) \/ Crash(c)
           \/ \E r \in reapers : Reap(r)
           \/ \E p \in Alive : Listen(p) \/ Exit(p)
           \/ Relaunch
           \/ \E v \in Versions : StartByHand(v)
    PROVE  DaemonInv'
<1>1. ASSUME NEW c \in Apps, LosesChild(c) \/ Crash(c) PROVE DaemonInv'
  <2>1. End(c) /\ UNCHANGED <<expected, record, plist, agent, procs, port, pids, instances, stopped>>
    BY <1>1 DEF LosesChild, Crash, shared
  <2>2. MachineInv' /\ Keeps
    BY <2>1, MachineKept DEF DaemonInv, MachineInv
  <2>3. AppsInv'
    BY <2>1, <2>2, Ends, AppsKept, OperationKept DEF DaemonInv
  <2> QED
    BY <2>1, <2>2, <2>3 DEF DaemonInv, ForeignUntouched
<1>2. ASSUME NEW r \in reapers, Reap(r) PROVE DaemonInv'
  <2>1. record' \in Records
    BY <1>2 DEF Reap, Remove, None, Records, VersionsOrNone, DaemonInv, MachineInv
  <2>2. MachineInv' /\ Keeps
    BY <1>2, <2>1, MachineKept DEF Reap, DaemonInv, counts
  <2> QED
    BY <1>2, <2>2, AppsKept DEF Reap, DaemonInv, ForeignUntouched
<1>3. ASSUME NEW p \in Alive, Listen(p) PROVE DaemonInv'
  <2>1. CASE port = 0
    <3>1. port' = p /\ procs' = [procs EXCEPT ![p].state = "up"]
      BY <1>3, <2>1 DEF Listen
    <3>2. /\ Alive' = Alive /\ procs' \in [Alive -> Processes] /\ procs'[p].state = "up"
          /\ \A q \in Alive : procs'[q].inst = procs[q].inst /\ procs'[q].mode = procs[q].mode
      BY <3>1 DEF DaemonInv, MachineInv, Alive, Processes, States
    <3>3. MachineInv' /\ Keeps
      BY <1>3, <3>1, <3>2 DEF Listen, counts, DaemonInv, MachineInv, Keeps
    <3> QED
      BY <1>3, <3>3, AppsKept DEF Listen, DaemonInv, ForeignUntouched
  <2>2. CASE port # 0
    <3>1. port # p
      BY <1>3, <2>2 DEF Listen, DaemonInv, MachineInv
    <3>2. MachineInv' /\ Keeps
      BY <1>3, <2>2, <3>1, FewerProcesses DEF Listen, counts, DaemonInv
    <3> QED
      BY <1>3, <3>2, AppsKept DEF Listen, DaemonInv, ForeignUntouched
  <2> QED
    BY <2>1, <2>2
<1>4. ASSUME NEW p \in Alive, Exit(p) PROVE DaemonInv'
  <2>1. MachineInv' /\ Keeps
    BY <1>4, FewerProcesses DEF Exit, DaemonInv
  <2> QED
    BY <1>4, <2>1, AppsKept DEF Exit, DaemonInv, ForeignUntouched
<1>5. CASE Relaunch
  <2>1. PICK x : x = Process(agent.inst, agent.ver, "agent")
    OBVIOUS
  <2>2. x \in Processes /\ x.inst # 0
    BY <1>5, <2>1 DEF Relaunch, Process, Processes, Modes, States, DaemonInv, MachineInv, Loaded
  <2>3. MachineInv' /\ Keeps
    BY <1>5, <2>1, <2>2, NewProcess DEF Relaunch, DaemonInv, MachineInv
  <2> QED
    BY <1>5, <2>3, AppsKept DEF Relaunch, DaemonInv, ForeignUntouched
<1>6. ASSUME NEW v \in Versions, StartByHand(v) PROVE DaemonInv'
  <2>1. PICK x : x = Process(0, v, "foreign")
    OBVIOUS
  <2>2. x \in Processes /\ x.mode = "foreign"
    BY <2>1 DEF Process, Processes, Modes, States, VersionsOrNone
  <2>3. MachineInv' /\ Keeps
    BY <1>6, <2>1, <2>2, NewProcess DEF StartByHand, DaemonInv, MachineInv
  <2> QED
    BY <1>6, <2>3, AppsKept DEF StartByHand, DaemonInv, ForeignUntouched
<1> QED
  BY <1>1, <1>2, <1>3, <1>4, <1>5, <1>6

LEMMA InitInv == LocalDaemonAssumption /\ Init => DaemonInv
<1> SUFFICES ASSUME LocalDaemonAssumption, Init PROVE DaemonInv
  OBVIOUS
<1>1. MachineInv
  <2>1. PICK v \in Versions, m \in {"direct", "agent", "foreign", "none"} :
          IF m = "none"
          THEN procs = <<>> /\ port = 0 /\ record = None /\ agent = NoAgent /\ plist = NoAgent
          ELSE LET i == IF m = "foreign" THEN 0 ELSE 1
               IN  /\ procs = [q \in {1} |-> [Process(i, v, m) EXCEPT !.state = "up"]]
                   /\ port = 1
                   /\ record = IF m = "foreign" THEN None
                               ELSE [inst |-> 1, pid |-> 1, ver |-> v, mode |-> m]
                   /\ agent = IF m = "agent" THEN [inst |-> 1, ver |-> v] ELSE NoAgent
                   /\ plist = agent
    BY DEF Init
  <2>2. pids = 1 /\ instances = 1
    BY DEF Init
  <2>3. CASE m = "none"
    <3>1. Alive = {}
      BY <2>1, <2>3 DEF Alive
    <3> QED
      BY <2>1, <2>2, <2>3, <3>1
      DEF MachineInv, None, NoAgent, Records, Loaded, VersionsOrNone
  <2>4. CASE m # "none"
    <3>1. PICK i \in {0, 1} : i = IF m = "foreign" THEN 0 ELSE 1
      OBVIOUS
    <3>2. PICK x : x = [Process(i, v, m) EXCEPT !.state = "up"]
      OBVIOUS
    <3>3. x \in Processes /\ x.inst = i /\ x.mode = m /\ x.state = "up"
      BY <2>4, <3>1, <3>2 DEF Process, Processes, Modes, States, VersionsOrNone
    <3>4. procs = [q \in {1} |-> x] /\ Alive = {1} /\ port = 1
      BY <2>1, <2>4, <3>1, <3>2 DEF Alive
    <3>5. record \in Records /\ agent \in Loaded /\ plist \in Loaded
          /\ (agent # NoAgent => agent.inst # 0)
      BY <2>1, <2>4 DEF None, NoAgent, Records, Loaded, VersionsOrNone, Modes
    <3> QED
      BY <2>2, <2>4, <3>1, <3>3, <3>4, <3>5 DEF MachineInv
  <2> QED
    BY <2>3, <2>4
<1>2. \A c \in Apps : OperationInv(c, Idle)
  <2>1. Idle \in Operations /\ Idle.seen = Down /\ Idle.pc = "idle"
    BY DEF Operations, Idle, Down, None, Answered, Records, VersionsOrNone, PCs
  <2> QED
    BY <1>1, <2>1, HealthIsTrue DEF OperationInv, Stopping, Starting
<1>3. AppsInv
  BY <1>2 DEF Init, AppsInv
<1> QED
  BY <1>1, <1>3 DEF Init, DaemonInv, ForeignUntouched

LEMMA DaemonStep ==
    ASSUME LocalDaemonAssumption, DaemonInv, [Next]_vars
    PROVE  DaemonInv'
<1>1. ASSUME UNCHANGED vars PROVE DaemonInv'
  <2>1. MachineInv' /\ Keeps
    BY <1>1, MachineKept DEF vars, shared, counts, DaemonInv, MachineInv
  <2> QED
    BY <1>1, <2>1, AppsKept DEF vars, DaemonInv, ForeignUntouched
<1> QED
  BY <1>1, BeginInv, LookInv, LoadInv, Checks, TerminateSpares, KillSpares, KillFailsInv, PrepareInv,
     ReplaceAgentInv, BootstrapInv, SpawnInv, StartedInv, GivesUpInv, OthersInv
  DEF Next

\* local_daemon.rs, ownership.rs, service.rs: a daemon the desktop did not
\* start is never told to stop, however many applications, operations, slow
\* answers and crashes there are and whichever processes come and go.
THEOREM ForeignersAreSafe ==
    ASSUME LocalDaemonAssumption
    PROVE  Spec => []ForeignUntouched
<1>1. Init => DaemonInv
  BY InitInv
<1>2. DaemonInv /\ [Next]_vars => DaemonInv'
  BY DaemonStep
<1>3. DaemonInv => ForeignUntouched
  BY DEF DaemonInv
<1> QED
  BY <1>1, <1>2, <1>3, PTL DEF Spec

-----------------------------------------------------------------------------
(* NoStrays.  The invariant says whose each instance is: a process that an  *)
(* operation starts by itself is the only one of its instance, is never     *)
(* what launchd starts, and belongs to its operation until it is recorded.  *)

Awaits(c) == op[c].pc = "poll" /\ Mode[c] = "direct"

\* Instance x was started by an application itself, as process i.
Child(x, i) ==
    \/ i \in Alive /\ procs[i].mode = "direct" /\ procs[i].inst = x
    \/ \E r \in reapers : r.rec.inst = x /\ r.rec.pid = i
    \/ \E c \in Apps : Awaits(c) /\ op[c].inst = x /\ op[c].pid = i

\* Instance x is launchd's to start.
Service(x) ==
    /\ x # 0
    /\ \/ x \in {plist.inst, agent.inst}
       \/ \E p \in Alive : procs[p].mode # "direct" /\ procs[p].inst = x

\* The instance an operation is about to start is its own.
StartsOwn(c) ==
    /\ op[c].pc = "spawn" => Mode[c] = "direct"
    /\ op[c].inst # 0 =>
        /\ op[c].pc \in Starting /\ op[c].inst \in 1..instances
        /\ \A d \in Apps : op[d].inst = op[c].inst => d = c
        /\ Mode[c] = "direct" => ~Service(op[c].inst)
        /\ \A i : Child(op[c].inst, i) => Awaits(c) /\ op[c].pid = i

ChildrenInv ==
    /\ \A x, i : Child(x, i) => x \in 1..instances /\ ~Service(x)
    /\ \A x, i, j : Child(x, i) /\ Child(x, j) => i = j
    /\ \A x : Service(x) => x \in 1..instances
    /\ \A c \in Apps : StartsOwn(c)

\* A process of an application's own is awaited, or listens and is recorded,
\* unless the desktop has lost sight of it.
CareInv ==
    /\ \A p \in Alive : procs[p].state = "up" => port = p
    /\ \A p \in Alive \ astray : procs[p].mode = "direct" /\ procs[p].state # "stopping" =>
            \/ \E c \in Apps : Awaits(c) /\ op[c].pid = p
            \/ procs[p].state = "up" /\ record.inst = procs[p].inst

StraysInv == DaemonInv /\ ChildrenInv /\ CareInv

\* What most steps are to the children and the services: none is added, none
\* changes hands.
ProcessesStay ==
    \A p \in Alive' :
        /\ procs'[p].mode = "direct" =>
            /\ p \in Alive /\ procs[p].mode = "direct" /\ procs'[p].inst = procs[p].inst
            /\ procs'[p].state \in {procs[p].state, "stopping"}
        /\ procs'[p].state = "up" => p \in Alive /\ procs[p].state = "up" /\ port' = port

OperationsStay ==
    \A c \in Apps :
        \/ op'[c].inst = 0 /\ op'[c].pc # "spawn" /\ ~Awaits(c)'
        \/ /\ op'[c].inst = op[c].inst /\ op'[c].pid = op[c].pid
           /\ op'[c].pc \in Starting /\ (op'[c].pc = "spawn" => Mode[c] = "direct")
           /\ Awaits(c)' <=> Awaits(c)

ServicesStay == \A x : Service(x)' => Service(x)

ChildrenStay == \A x, i : Child(x, i)' => Child(x, i)

LEMMA NoNewChildren ==
    ASSUME ProcessesStay, OperationsStay, reapers' \subseteq reapers
    PROVE  ChildrenStay
<1> SUFFICES ASSUME NEW x, NEW i, Child(x, i)' PROVE Child(x, i)
  BY DEF ChildrenStay
<1>1. CASE i \in Alive' /\ procs'[i].mode = "direct" /\ procs'[i].inst = x
  BY <1>1 DEF ProcessesStay, Child
<1>2. CASE \E r \in reapers' : r.rec.inst = x /\ r.rec.pid = i
  BY <1>2 DEF Child
<1>3. CASE \E c \in Apps : Awaits(c)' /\ op'[c].inst = x /\ op'[c].pid = i
  BY <1>3 DEF OperationsStay, Child
<1> QED
  BY <1>1, <1>2, <1>3 DEF Child

LEMMA CalmKeepsChildren ==
    ASSUME ChildrenInv, ChildrenStay, OperationsStay, ServicesStay, UNCHANGED instances
    PROVE  ChildrenInv'
<1>1. \A x, i : Child(x, i)' => Child(x, i)
  BY DEF ChildrenStay
<1>2. \A x : Service(x)' => Service(x)
  BY DEF ServicesStay
<1>3. ASSUME NEW c \in Apps PROVE StartsOwn(c)'
  <2>1. CASE op'[c].inst = 0 /\ op'[c].pc # "spawn"
    BY <2>1 DEF StartsOwn
  <2>2. CASE /\ op'[c].inst = op[c].inst /\ op'[c].pid = op[c].pid
             /\ op'[c].pc \in Starting /\ (op'[c].pc = "spawn" => Mode[c] = "direct")
             /\ Awaits(c)' <=> Awaits(c)
    <3>1. CASE op[c].inst = 0
      BY <2>2, <3>1 DEF StartsOwn
    <3>2. CASE op[c].inst # 0
      <4>1. StartsOwn(c)
        BY DEF ChildrenInv
      <4>2. \A d \in Apps : op'[d].inst = op'[c].inst => d = c
        BY <2>2, <3>2, <4>1 DEF OperationsStay, StartsOwn
      <4>3. op'[c].inst \in 1..instances'
        BY <2>2, <3>2, <4>1 DEF StartsOwn
      <4>4. PICK x : x = op[c].inst
        OBVIOUS
      <4>5. Mode[c] = "direct" => ~Service(x)'
        BY <1>2, <3>2, <4>1, <4>4 DEF StartsOwn
      <4>6. \A i : Child(x, i)' => Awaits(c)' /\ op'[c].pid = i
        BY <1>1, <2>2, <3>2, <4>1, <4>4 DEF StartsOwn
      <4> QED
        BY <2>2, <4>2, <4>3, <4>4, <4>5, <4>6 DEF StartsOwn
    <3> QED
      BY <3>1, <3>2
  <2> QED
    BY <2>1, <2>2 DEF OperationsStay
<1> QED
  BY <1>1, <1>2, <1>3 DEF ChildrenInv

\* The operations that wait go on waiting, and the record goes on naming the
\* daemon that listens.
LEMMA CareKept ==
    ASSUME CareInv, ProcessesStay, astray \subseteq astray',
           \A c \in Apps : Awaits(c) /\ op[c].pid \in Alive' \ astray'
                => Awaits(c)' /\ op'[c].pid = op[c].pid,
           \A p \in Alive' \ astray' :
                procs'[p].mode = "direct" /\ procs'[p].state = "up"
                    /\ record.inst = procs'[p].inst
                => record'.inst = record.inst
    PROVE  CareInv'
<1>1. \A p \in Alive' : procs'[p].state = "up" => port' = p
  BY DEF CareInv, ProcessesStay
<1>2. ASSUME NEW p \in Alive' \ astray', procs'[p].mode = "direct",
             procs'[p].state # "stopping"
      PROVE  \/ \E c \in Apps : Awaits(c)' /\ op'[c].pid = p
             \/ procs'[p].state = "up" /\ record'.inst = procs'[p].inst
  <2>1. /\ p \in Alive /\ procs[p].mode = "direct" /\ procs'[p].inst = procs[p].inst
        /\ procs'[p].state = procs[p].state
    BY <1>2 DEF ProcessesStay
  <2>2. p \notin astray
    BY <1>2
  <2>3. CASE \E c \in Apps : Awaits(c) /\ op[c].pid = p
    BY <1>2, <2>3
  <2>4. CASE procs[p].state = "up" /\ record.inst = procs[p].inst
    BY <1>2, <2>1, <2>4
  <2> QED
    BY <1>2, <2>1, <2>2, <2>3, <2>4 DEF CareInv
<1> QED
  BY <1>1, <1>2 DEF CareInv

\* An operation's step: the others stay as they are.
LEMMA OthersStay ==
    ASSUME StraysInv, NEW c \in Apps, NEW o, op' = [op EXCEPT ![c] = o],
           \/ o.inst = 0 /\ o.pc # "spawn" /\ o.pc # "poll"
           \/ /\ o.inst = op[c].inst /\ o.pid = op[c].pid
              /\ o.pc \in Starting \ {"spawn"}
              /\ (o.pc = "poll" /\ Mode[c] = "direct") <=> Awaits(c)
    PROVE  OperationsStay
<1>1. op'[c] = o /\ \A d \in Apps \ {c} : op'[d] = op[d]
  BY DEF StraysInv, DaemonInv, AppsInv
<1>2. ASSUME NEW d \in Apps \ {c}
      PROVE  \/ op[d].inst = 0 /\ op[d].pc # "spawn" /\ ~Awaits(d)
             \/ op[d].pc \in Starting /\ (op[d].pc = "spawn" => Mode[d] = "direct")
  <2>1. StartsOwn(d) /\ (op[d].pc \in Starting => op[d].inst # 0)
    BY DEF StraysInv, ChildrenInv, DaemonInv, AppsInv, OperationInv
  <2> QED
    BY <2>1 DEF StartsOwn, Awaits, Starting
<1> QED
  BY <1>1, <1>2 DEF OperationsStay, Awaits

LEMMA AllStay ==
    ASSUME StraysInv, UNCHANGED op
    PROVE  OperationsStay
<1>1. ASSUME NEW d \in Apps
      PROVE  \/ op[d].inst = 0 /\ op[d].pc # "spawn" /\ ~Awaits(d)
             \/ op[d].pc \in Starting /\ (op[d].pc = "spawn" => Mode[d] = "direct")
  <2>1. StartsOwn(d) /\ (op[d].pc \in Starting => op[d].inst # 0)
    BY DEF StraysInv, ChildrenInv, DaemonInv, AppsInv, OperationInv
  <2> QED
    BY <2>1 DEF StartsOwn, Awaits, Starting
<1> QED
  BY <1>1 DEF OperationsStay, Awaits

\* While it is looking or stopping an operation has no instance of its own.
LEMMA NotStarting ==
    ASSUME StraysInv, NEW c \in Apps, op[c].pc \notin Starting
    PROVE  op[c].inst = 0 /\ ~Awaits(c)
BY DEF StraysInv, ChildrenInv, StartsOwn, Awaits, Starting

\* An operation's step leaves those that wait waiting, unless it ends one.
LEMMA WaitersStay ==
    ASSUME StraysInv, NEW c \in Apps, NEW o, op' = [op EXCEPT ![c] = o],
           Awaits(c) => o = op[c]
    PROVE  \A d \in Apps : Awaits(d) => Awaits(d)' /\ op'[d].pid = op[d].pid
<1>1. op'[c] = o /\ \A d \in Apps \ {c} : op'[d] = op[d]
  BY DEF StraysInv, DaemonInv, AppsInv
<1> QED
  BY <1>1 DEF Awaits

LEMMA ShopStays ==
    ASSUME UNCHANGED <<plist, agent, procs, port>>
    PROVE  ProcessesStay /\ ServicesStay
BY DEF ProcessesStay, ServicesStay, Service, Alive

\* Telling processes to stop starts none.
LEMMA ToldStay ==
    ASSUME MachineInv, NEW S \in SUBSET Alive, NEW K, UNCHANGED plist,
           procs' = [q \in Alive \ K |-> ToldToStop(S)[q]],
           agent' \in {agent, NoAgent},
           port' = port \/ (port \in K /\ port' = 0),
           \A p \in Alive : procs[p].state = "up" => port = p
    PROVE  ProcessesStay /\ ServicesStay
<1>1. /\ Alive' = Alive \ K
      /\ \A p \in Alive' : /\ p \in Alive
                           /\ procs'[p].inst = procs[p].inst /\ procs'[p].mode = procs[p].mode
                           /\ procs'[p].state \in {procs[p].state, "stopping"}
  BY DEF Alive, ToldToStop, MachineInv, Processes
<1>2. ASSUME NEW p \in Alive', procs'[p].state = "up" PROVE procs[p].state = "up" /\ port' = port
  BY <1>1, <1>2
<1>3. ProcessesStay
  BY <1>1, <1>2 DEF ProcessesStay
<1>4. ServicesStay
  BY <1>1 DEF ServicesStay, Service, NoAgent
<1> QED
  BY <1>3, <1>4

LEMMA BootOutStays ==
    ASSUME StraysInv, BootOut, UNCHANGED <<plist, port>>
    PROVE  ProcessesStay /\ ServicesStay
<1>1. PICK S \in SUBSET Alive : procs' = ToldToStop(S) /\ agent' = NoAgent
  BY DEF BootOut
<1>2. ToldToStop(S) = [q \in Alive \ {} |-> ToldToStop(S)[q]]
  BY DEF ToldToStop
<1> QED
  BY <1>1, <1>2, ToldStay DEF StraysInv, CareInv, DaemonInv

LEMMA EndsIdle ==
    ASSUME NEW c, End(c)
    PROVE  \E o : op' = [op EXCEPT ![c] = o] /\ o.inst = 0 /\ o.pc # "spawn" /\ o.pc # "poll"
<1>1. PICK o : o = Idle
  OBVIOUS
<1>2. o.inst = 0 /\ o.pc = "idle"
  BY <1>1 DEF Idle
<1> QED
  BY <1>1, <1>2 DEF End, Set

\* A step of an operation that has not begun to start anything.
LEMMA LookingStays ==
    ASSUME StraysInv, NEW c \in Apps, op[c].pc \notin Starting,
           (\E l \in PCs \ {"spawn", "poll"} : Goto(c, l)) \/ End(c)
    PROVE  /\ OperationsStay
           /\ \A d \in Apps : Awaits(d) => Awaits(d)' /\ op'[d].pid = op[d].pid
<1>1. op[c].inst = 0 /\ ~Awaits(c) /\ op[c] \in Operations
  BY NotStarting DEF StraysInv, DaemonInv, AppsInv, OperationInv
<1>2. PICK o : op' = [op EXCEPT ![c] = o] /\ o.inst = 0 /\ o.pc # "spawn" /\ o.pc # "poll"
  <2>1. CASE End(c)
    BY <2>1, EndsIdle
  <2>2. ASSUME NEW l \in PCs \ {"spawn", "poll"}, Goto(c, l)
        PROVE  \E o : op' = [op EXCEPT ![c] = o] /\ o.inst = 0 /\ o.pc # "spawn" /\ o.pc # "poll"
    <3>1. PICK o : o = [op[c] EXCEPT !.pc = l]
      OBVIOUS
    <3>2. o.inst = 0 /\ o.pc = l
      BY <1>1, <3>1 DEF Operations
    <3> QED
      BY <2>2, <3>1, <3>2 DEF Goto, Set
  <2> QED
    BY <2>1, <2>2
<1>3. OperationsStay
  BY <1>2, OthersStay
<1>4. \A d \in Apps : Awaits(d) => Awaits(d)' /\ op'[d].pid = op[d].pid
  BY <1>1, <1>2, WaitersStay
<1> QED
  BY <1>3, <1>4

\* All of it together, for a step that touches no child.
LEMMA CalmStep ==
    ASSUME StraysInv, ProcessesStay, OperationsStay, ServicesStay,
           reapers' \subseteq reapers, UNCHANGED instances, astray \subseteq astray',
           \A c \in Apps : Awaits(c) /\ op[c].pid \in Alive' \ astray'
                => Awaits(c)' /\ op'[c].pid = op[c].pid,
           \/ record'.inst = record.inst
           \/ port \in astray'
           \/ port = 0
    PROVE  ChildrenInv' /\ CareInv'
<1>1. ChildrenInv'
  BY NoNewChildren, CalmKeepsChildren DEF StraysInv
<1>2. ASSUME NEW p \in Alive' \ astray', procs'[p].mode = "direct", procs'[p].state = "up"
      PROVE  record'.inst = record.inst
  <2>1. p \in Alive /\ procs[p].state = "up"
    BY <1>2 DEF ProcessesStay
  <2>2. port = p /\ p # 0
    BY <2>1 DEF StraysInv, CareInv, DaemonInv, MachineInv
  <2> QED
    BY <1>2, <2>2
<1>3. CareInv'
  BY <1>2, CareKept DEF StraysInv
<1> QED
  BY <1>1, <1>3

\* Begin, Look, Load and the checks before a signal touch no process.
LEMMA LookingStrays ==
    ASSUME StraysInv, NEW c \in Apps,
           \/ \E kind \in {"ensure", "restart"} : Begin(c, kind)
           \/ Look(c) \/ Load(c)
    PROVE  ChildrenInv' /\ CareInv'
<1>1. op[c].pc \notin Starting
  BY DEF Begin, Look, Load, At, Starting
<1>2. op[c].inst = 0 /\ ~Awaits(c) /\ op[c] \in Operations
  BY <1>1, NotStarting DEF StraysInv, DaemonInv, AppsInv, OperationInv
<1>3. PICK o : op' = [op EXCEPT ![c] = o] /\ o.inst = 0 /\ o.pc # "spawn" /\ o.pc # "poll"
  <2>1. ASSUME NEW kind \in {"ensure", "restart"}, Begin(c, kind)
        PROVE  \E o : op' = [op EXCEPT ![c] = o] /\ o.inst = 0 /\ o.pc # "spawn" /\ o.pc # "poll"
    <3>1. PICK o : o = [Idle EXCEPT !.pc = "look", !.kind = kind]
      OBVIOUS
    <3>2. o.inst = 0 /\ o.pc = "look"
      BY <3>1 DEF Idle
    <3> QED
      BY <2>1, <3>1, <3>2 DEF Begin, Set
  <2>2. CASE Look(c)
    <3>1. PICK h \in {Health, Down} :
            op' = [op EXCEPT ![c] = [op[c] EXCEPT !.pc = IF h.up THEN "load" ELSE "prepare",
                                                  !.seen = h]]
      BY <2>2 DEF Look, Set
    <3>2. PICK l \in {"load", "prepare"} : l = IF h.up THEN "load" ELSE "prepare"
      OBVIOUS
    <3>3. PICK o : o = [op[c] EXCEPT !.pc = l, !.seen = h]
      OBVIOUS
    <3>4. o.inst = 0 /\ o.pc = l
      BY <1>2, <3>3 DEF Operations
    <3> QED
      BY <3>1, <3>2, <3>3, <3>4
  <2>3. CASE Load(c)
    <3>1. CASE End(c)
      BY <3>1, EndsIdle
    <3>2. CASE Set(c, [op[c] EXCEPT !.pc = "check", !.rec = Refreshed(op[c].seen)])
      <4>1. PICK o : o = [op[c] EXCEPT !.pc = "check", !.rec = Refreshed(op[c].seen)]
        OBVIOUS
      <4>2. o.inst = 0 /\ o.pc = "check"
        BY <1>2, <4>1 DEF Operations
      <4> QED
        BY <3>2, <4>1, <4>2 DEF Set
    <3> QED
      BY <2>3, <3>1, <3>2 DEF Load
  <2> QED
    BY <2>1, <2>2, <2>3
<1>4. OperationsStay /\ \A d \in Apps : Awaits(d) => Awaits(d)' /\ op'[d].pid = op[d].pid
  BY <1>2, <1>3, OthersStay, WaitersStay
<1>5. UNCHANGED <<plist, agent, procs, port, reapers, instances>>
  BY DEF Begin, Look, Load, shared, counts
<1>6. record'.inst = record.inst
  <2>1. CASE record' = record
    BY <2>1
  <2>2. CASE record' = Refreshed(op[c].seen)
    BY <2>2 DEF Refreshed, StraysInv, DaemonInv, MachineInv, Records
  <2> QED
    BY <2>1, <2>2 DEF Begin, Look, Load, shared
<1>7. astray \subseteq astray'
  BY DEF Begin, Look, Load, counts
<1>8. ProcessesStay /\ ServicesStay
  BY <1>5, ShopStays
<1> QED
  BY <1>4, <1>5, <1>6, <1>7, <1>8, CalmStep

\* What a health check does not find may be removed from the record: unless
\* it missed a daemon there is none.
LEMMA StoppingStrays ==
    ASSUME StraysInv, NEW c \in Apps, Check(c) \/ Recheck(c) \/ Wait(c) \/ Confirm(c)
    PROVE  ChildrenInv' /\ CareInv'
<1>1. op[c].pc \notin Starting
  BY DEF Check, Recheck, Wait, Confirm, At, Starting
<1>2. (\E l \in PCs \ {"spawn", "poll"} : Goto(c, l)) \/ End(c)
  BY DEF Check, Recheck, Wait, Confirm, StopSees, PCs, Stopping
<1>3. OperationsStay /\ \A d \in Apps : Awaits(d) => Awaits(d)' /\ op'[d].pid = op[d].pid
  BY <1>1, <1>2, LookingStays
<1>4. UNCHANGED <<plist, agent, procs, port, reapers, instances>>
  BY DEF Check, Recheck, Wait, Confirm, StopSees
<1>5. PICK h \in {Health, Down} :
        /\ ~h.up \/ UNCHANGED record
        /\ astray' = IF h.up \/ port = 0 THEN astray ELSE astray \cup {port}
  BY DEF Check, Recheck, Wait, Confirm, StopSees
<1>6. astray \subseteq astray' /\ (record'.inst = record.inst \/ port \in astray' \/ port = 0)
  BY <1>5
<1>7. ProcessesStay /\ ServicesStay
  BY <1>4, ShopStays
<1> QED
  BY <1>3, <1>4, <1>6, <1>7, CalmStep

LEMMA SignalStrays ==
    ASSUME StraysInv, NEW c \in Apps, Terminate(c) \/ Kill(c) \/ KillFails(c)
    PROVE  ChildrenInv' /\ CareInv'
<1>1. op[c].pc \notin Starting
  BY DEF Terminate, Kill, KillFails, At, Starting
<1>2. (\E l \in PCs \ {"spawn", "poll"} : Goto(c, l)) \/ End(c)
  BY DEF Terminate, Kill, KillFails, PCs, Stopping
<1>3. OperationsStay /\ \A d \in Apps : Awaits(d) => Awaits(d)' /\ op'[d].pid = op[d].pid
  BY <1>1, <1>2, LookingStays
<1>4. UNCHANGED <<record, plist, reapers, instances, astray>>
  BY DEF Terminate, Kill, KillFails, shared, counts
<1>5. ProcessesStay /\ ServicesStay
  <2>1. CASE Terminate(c) /\ BootOut
    BY <2>1, BootOutStays DEF Terminate
  <2>2. CASE Terminate(c) /\ UNCHANGED <<agent, procs>>
    BY <2>2, ShopStays DEF Terminate
  <2>3. CASE Terminate(c) /\ op[c].rec.pid \in Alive /\ UNCHANGED agent
             /\ procs' = ToldToStop({op[c].rec.pid})
    <3>1. PICK S \in SUBSET Alive : procs' = ToldToStop(S)
      BY <2>3
    <3>2. ToldToStop(S) = [q \in Alive \ {} |-> ToldToStop(S)[q]]
      BY DEF ToldToStop
    <3> QED
      BY <2>3, <3>1, <3>2, ToldStay DEF Terminate, StraysInv, CareInv, DaemonInv
  <2>4. CASE Kill(c)
    <3>1. PICK S \in SUBSET Alive, K \in {{op[c].rec.pid}} :
            procs' = [q \in Alive \ K |-> ToldToStop(S)[q]]
      BY <2>4 DEF Kill
    <3>2. agent' \in {agent, NoAgent} /\ (port' = port \/ (port \in K /\ port' = 0))
      BY <2>4, <3>1 DEF Kill
    <3> QED
      BY <1>4, <3>1, <3>2, ToldStay DEF StraysInv, CareInv, DaemonInv
  <2>5. CASE KillFails(c)
    BY <2>5, ShopStays DEF KillFails, shared
  <2> QED
    BY <2>1, <2>2, <2>3, <2>4, <2>5 DEF Terminate, NobodyTold
<1> QED
  BY <1>3, <1>4, <1>5, CalmStep

LEMMA GoneStays ==
    ASSUME NEW S, procs' = Without(S), UNCHANGED <<plist, agent>>,
           port' = port \/ (port \in S /\ port' = 0),
           \A p \in Alive : procs[p].state = "up" => port = p
    PROVE  ProcessesStay /\ ServicesStay
<1>1. Alive' = Alive \ S /\ \A p \in Alive' : p \in Alive /\ procs'[p] = procs[p]
  BY DEF Without, Alive
<1>2. ProcessesStay
  BY <1>1 DEF ProcessesStay
<1>3. ServicesStay
  BY <1>1 DEF ServicesStay, Service
<1> QED
  BY <1>2, <1>3

\* A process that no application starts by itself.
LEMMA ServiceStarts ==
    ASSUME MachineInv, NEW x, x.mode # "direct", x.state = "starting",
           x.inst = 0 \/ Service(x.inst),
           pids' = pids + 1, procs' = With(pids', x),
           agent' \in {agent, plist}, UNCHANGED <<plist, port>>
    PROVE  ProcessesStay /\ ServicesStay
<1>1. pids + 1 \notin Alive /\ Alive' = Alive \cup {pids + 1}
      /\ procs'[pids + 1] = x /\ \A i \in Alive : procs'[i] = procs[i]
  BY DEF With, Alive, MachineInv
<1>2. ProcessesStay
  BY <1>1 DEF ProcessesStay
<1>3. ASSUME NEW y, Service(y)' PROVE Service(y)
  <2>1. CASE y \in {plist'.inst, agent'.inst}
    BY <1>3, <2>1 DEF Service
  <2>2. ASSUME NEW p \in Alive', procs'[p].mode # "direct", procs'[p].inst = y PROVE Service(y)
    BY <1>1, <1>3, <2>2 DEF Service
  <2> QED
    BY <1>3, <2>1, <2>2 DEF Service
<1> QED
  BY <1>2, <1>3 DEF ServicesStay

\* runtime::prepare: the instance is a new one.
LEMMA PrepareStrays ==
    ASSUME LocalDaemonAssumption, StraysInv, NEW c \in Apps, Prepare(c)
    PROVE  ChildrenInv' /\ CareInv'
<1>1. op[c].pc = "prepare" /\ op[c].pc \notin Starting
  BY DEF Prepare, At, Starting
<1>2. op[c].inst = 0 /\ ~Awaits(c) /\ op[c] \in Operations
  BY <1>1, NotStarting DEF StraysInv, DaemonInv, AppsInv, OperationInv
<1>3. UNCHANGED <<reapers, record, agent, procs, port, astray>>
  BY DEF Prepare
<1>4. CASE End(c) /\ UNCHANGED <<instances, plist>>
  <2>1. OperationsStay /\ \A d \in Apps : Awaits(d) => Awaits(d)' /\ op'[d].pid = op[d].pid
    BY <1>1, <1>4, LookingStays
  <2>2. ProcessesStay /\ ServicesStay
    BY <1>3, <1>4, ShopStays
  <2> QED
    BY <1>3, <1>4, <2>1, <2>2, CalmStep
<1>5. ASSUME instances' = instances + 1,
             Set(c, [op[c] EXCEPT !.inst = instances',
                                  !.pc = IF Mode[c] = "agent" THEN "bootout" ELSE "spawn"]),
             plist' = IF Mode[c] = "agent" THEN [inst |-> instances', ver |-> expected[c]]
                      ELSE plist
      PROVE  ChildrenInv' /\ CareInv'
  <2>1. PICK n \in Nat : n = instances + 1 /\ n \notin 1..instances /\ n \in 1..instances'
    BY <1>5 DEF StraysInv, DaemonInv, MachineInv
  <2>2. PICK l \in {"bootout", "spawn"} : l = IF Mode[c] = "agent" THEN "bootout" ELSE "spawn"
    OBVIOUS
  <2>3. PICK o : o = [op[c] EXCEPT !.inst = n, !.pc = l]
    OBVIOUS
  <2>4. o.inst = n /\ o.pc = l /\ op' = [op EXCEPT ![c] = o]
    BY <1>2, <1>5, <2>1, <2>2, <2>3 DEF Operations, Set
  <2>5. op'[c] = o /\ \A d \in Apps \ {c} : op'[d] = op[d]
    BY <2>4 DEF StraysInv, DaemonInv, AppsInv
  <2>6. \A x, i : Child(x, i)' => Child(x, i)
    BY <1>3, <2>2, <2>4, <2>5 DEF Child, Awaits, Alive
  <2>7. \A x : Service(x)' => Service(x) \/ (x = n /\ Mode[c] = "agent")
    BY <1>3, <1>5, <2>1 DEF Service, Alive
  <2>8. ASSUME NEW d \in Apps \ {c} PROVE StartsOwn(d)'
    <3>1. StartsOwn(d) /\ op'[d] = op[d] /\ op'[c].inst = n
      BY <2>4, <2>5 DEF StraysInv, ChildrenInv
    <3>2. CASE op[d].inst = 0
      BY <3>1, <3>2 DEF StartsOwn
    <3>3. CASE op[d].inst # 0
      <4>1. PICK x : x = op[d].inst
        OBVIOUS
      <4>2. x \in 1..instances /\ x # n /\ x \in 1..instances'
        BY <1>5, <2>1, <3>1, <3>3, <4>1 DEF StartsOwn, StraysInv, DaemonInv, MachineInv
      <4>3. \A e \in Apps : op'[e].inst = x => e = d
        BY <2>5, <3>1, <3>3, <4>1, <4>2 DEF StartsOwn
      <4>4. Mode[d] = "direct" => ~Service(x)'
        BY <2>7, <3>1, <3>3, <4>1, <4>2 DEF StartsOwn
      <4>5. \A i : Child(x, i)' => Awaits(d)' /\ op'[d].pid = i
        BY <2>6, <3>1, <3>3, <4>1 DEF StartsOwn, Awaits
      <4> QED
        BY <3>1, <3>3, <4>1, <4>2, <4>3, <4>4, <4>5 DEF StartsOwn
    <3> QED
      BY <3>2, <3>3
  <2>9. StartsOwn(c)'
    <3>1. o.pc \in Starting /\ n # 0 /\ (o.pc = "spawn" => Mode[c] = "direct")
      BY <2>1, <2>2, <2>4 DEF Starting, LocalDaemonAssumption
    <3>2. \A d \in Apps : op'[d].inst = n => d = c
      BY <2>1, <2>5 DEF StraysInv, ChildrenInv, StartsOwn
    <3>3. Mode[c] = "direct" => ~Service(n)'
      BY <2>1, <2>7 DEF StraysInv, ChildrenInv
    <3>4. \A i : ~Child(n, i)'
      BY <2>1, <2>6 DEF StraysInv, ChildrenInv
    <3> QED
      BY <2>1, <2>4, <2>5, <3>1, <3>2, <3>3, <3>4 DEF StartsOwn
  <2>10. ChildrenInv'
    <3>1. ASSUME NEW x, NEW i, Child(x, i)' PROVE x \in 1..instances' /\ ~Service(x)'
      <4>1. Child(x, i) /\ x \in 1..instances /\ ~Service(x)
        BY <2>6, <3>1 DEF StraysInv, ChildrenInv
      <4> QED
        BY <1>5, <2>1, <2>7, <4>1 DEF StraysInv, DaemonInv, MachineInv
    <3>2. \A x : Service(x)' => x \in 1..instances'
      BY <1>5, <2>1, <2>7 DEF StraysInv, ChildrenInv, DaemonInv, MachineInv
    <3>3. \A x, i, j : Child(x, i)' /\ Child(x, j)' => i = j
      BY <2>6 DEF StraysInv, ChildrenInv
    <3> QED
      BY <2>8, <2>9, <3>1, <3>2, <3>3 DEF ChildrenInv
  <2>11. CareInv'
    <3>1. ProcessesStay
      BY <1>3 DEF ProcessesStay, Alive
    <3>2. \A d \in Apps : Awaits(d) => Awaits(d)' /\ op'[d].pid = op[d].pid
      BY <1>2, <2>5 DEF Awaits
    <3> QED
      BY <1>3, <3>1, <3>2, CareKept DEF StraysInv
  <2> QED
    BY <2>10, <2>11
<1> QED
  BY <1>4, <1>5 DEF Prepare

\* The agent is booted out, or loaded again from the plist.
LEMMA AgentStrays ==
    ASSUME LocalDaemonAssumption, StraysInv, NEW c \in Apps, ReplaceAgent(c) \/ Bootstrap(c)
    PROVE  ChildrenInv' /\ CareInv'
<1>1. OperationInv(c, op[c]) /\ op[c] \in Operations /\ op[c].pc \in {"bootout", "bootstrap"}
  BY DEF StraysInv, DaemonInv, AppsInv, OperationInv, ReplaceAgent, Bootstrap, At
<1>2. Mode[c] = "agent" /\ ~Awaits(c) /\ plist.inst # 0
  BY <1>1 DEF OperationInv, Awaits
<1>3. UNCHANGED <<record, plist, reapers, port, instances, astray>>
  BY DEF ReplaceAgent, Bootstrap, counts
<1>4. PICK o : /\ op' = [op EXCEPT ![c] = o]
               /\ \/ o.inst = 0 /\ o.pc # "spawn" /\ o.pc # "poll"
                  \/ o.inst = op[c].inst /\ o.pid = op[c].pid /\ o.pc \in {"bootstrap", "poll"}
  <2>1. ASSUME NEW l \in {"bootstrap", "poll"}, Goto(c, l)
        PROVE  \E o : /\ op' = [op EXCEPT ![c] = o]
                      /\ o.inst = op[c].inst /\ o.pid = op[c].pid /\ o.pc = l
    <3>1. PICK o : o = [op[c] EXCEPT !.pc = l]
      OBVIOUS
    <3>2. o.inst = op[c].inst /\ o.pid = op[c].pid /\ o.pc = l
      BY <1>1, <3>1 DEF Operations
    <3> QED
      BY <2>1, <3>1, <3>2 DEF Goto, Set
  <2>2. Goto(c, "bootstrap") \/ Goto(c, "poll") \/ End(c)
    BY DEF ReplaceAgent, Bootstrap
  <2> QED
    BY <2>1, <2>2, EndsIdle
<1>5. OperationsStay
  BY <1>2, <1>4, OthersStay DEF Starting
<1>6. \A d \in Apps : Awaits(d) => Awaits(d)' /\ op'[d].pid = op[d].pid
  BY <1>2, <1>4, WaitersStay
<1>7. ProcessesStay /\ ServicesStay
  <2>1. CASE BootOut
    BY <1>3, <2>1, BootOutStays
  <2>3. CASE NobodyTold
    BY <1>3, <2>3, ShopStays DEF NobodyTold
  <2>2. CASE agent' = plist /\ pids' = pids + 1
             /\ procs' = With(pids', Process(plist.inst, plist.ver, "agent"))
    <3>1. PICK x : x = Process(plist.inst, plist.ver, "agent")
      OBVIOUS
    <3>2. x.mode = "agent" /\ x.state = "starting" /\ x.inst = plist.inst
      BY <3>1 DEF Process
    <3>3. Service(x.inst)
      BY <1>2, <3>2 DEF Service
    <3> QED
      BY <1>3, <2>2, <3>1, <3>2, <3>3, ServiceStarts DEF StraysInv, DaemonInv
  <2> QED
    BY <2>1, <2>2, <2>3 DEF ReplaceAgent, Bootstrap
<1> QED
  BY <1>3, <1>5, <1>6, <1>7, CalmStep

\* service::start of a child: it is awaited under the id it gets.
LEMMA SpawnStrays ==
    ASSUME StraysInv, NEW c \in Apps, Spawn(c)
    PROVE  ChildrenInv' /\ CareInv'
<1>1. op[c].pc = "spawn" /\ op[c] \in Operations /\ op[c].inst # 0 /\ StartsOwn(c)
  BY DEF StraysInv, DaemonInv, AppsInv, OperationInv, ChildrenInv, Spawn, At, Starting
<1>2. PICK n, i : n = op[c].inst /\ i = pids + 1
  OBVIOUS
<1>3. /\ n # 0 /\ n \in 1..instances /\ Mode[c] = "direct" /\ ~Awaits(c) /\ ~Service(n)
      /\ \A j : ~Child(n, j)
  BY <1>1, <1>2 DEF StartsOwn, Awaits
<1>4. PICK x : x = Process(n, expected[c], "direct")
  OBVIOUS
<1>5. x.inst = n /\ x.mode = "direct" /\ x.state = "starting"
  BY <1>4 DEF Process
<1>6. /\ i \notin Alive /\ Alive' = Alive \cup {i}
      /\ procs'[i] = x /\ \A p \in Alive : procs'[p] = procs[p]
  BY <1>2, <1>4 DEF Spawn, With, Alive, StraysInv, DaemonInv, MachineInv
<1>7. PICK o : o = [op[c] EXCEPT !.pc = "poll", !.pid = i]
  OBVIOUS
<1>8. o.inst = n /\ o.pid = i /\ o.pc = "poll" /\ op' = [op EXCEPT ![c] = o]
  BY <1>1, <1>2, <1>7 DEF Operations, Spawn, Set
<1>9. op'[c] = o /\ \A d \in Apps \ {c} : op'[d] = op[d]
  BY <1>8 DEF StraysInv, DaemonInv, AppsInv
<1>10. UNCHANGED <<reapers, record, plist, agent, port, instances, astray>>
  BY DEF Spawn
<1>11. ASSUME NEW y, NEW j, Child(y, j)' PROVE Child(y, j) \/ (y = n /\ j = i)
  <2>1. CASE j \in Alive' /\ procs'[j].mode = "direct" /\ procs'[j].inst = y
    BY <1>5, <1>6, <2>1 DEF Child
  <2>2. CASE \E r \in reapers' : r.rec.inst = y /\ r.rec.pid = j
    BY <1>10, <2>2 DEF Child
  <2>3. CASE \E d \in Apps : Awaits(d)' /\ op'[d].inst = y /\ op'[d].pid = j
    BY <1>8, <1>9, <2>3 DEF Child, Awaits
  <2> QED
    BY <1>11, <2>1, <2>2, <2>3 DEF Child
<1>12. \A y : Service(y)' => Service(y)
  BY <1>5, <1>6, <1>10 DEF Service
<1>13. ASSUME NEW d \in Apps \ {c} PROVE StartsOwn(d)'
  <2>1. StartsOwn(d) /\ op'[d] = op[d] /\ op'[c].inst = op[c].inst
    BY <1>2, <1>8, <1>9 DEF StraysInv, ChildrenInv
  <2>2. PICK y : y = op[d].inst
    OBVIOUS
  <2>3. CASE y = 0
    BY <2>1, <2>2, <2>3 DEF StartsOwn
  <2>4. CASE y # 0
    <3>1. y # n
      BY <1>2, <1>3, <2>1, <2>2, <2>4 DEF StartsOwn
    <3>2. \A e \in Apps : op'[e].inst = y => e = d
      BY <1>9, <2>1, <2>2, <2>4 DEF StartsOwn
    <3>3. \A j : Child(y, j)' => Awaits(d)' /\ op'[d].pid = j
      BY <1>11, <2>1, <2>2, <2>4, <3>1 DEF StartsOwn, Awaits
    <3>4. Mode[d] = "direct" => ~Service(y)'
      BY <1>12, <2>1, <2>2, <2>4 DEF StartsOwn
    <3> QED
      BY <1>10, <2>1, <2>2, <2>4, <3>2, <3>3, <3>4 DEF StartsOwn
  <2> QED
    BY <2>3, <2>4
<1>14. StartsOwn(c)'
  <2>1. \A d \in Apps : op'[d].inst = n => d = c
    BY <1>1, <1>2, <1>9 DEF StartsOwn
  <2>2. \A j : Child(n, j)' => Awaits(c)' /\ op'[c].pid = j
    BY <1>3, <1>8, <1>9, <1>11 DEF Awaits
  <2>3. ~Service(n)'
    BY <1>3, <1>12
  <2> QED
    BY <1>3, <1>8, <1>9, <1>10, <2>1, <2>2, <2>3 DEF StartsOwn, Starting
<1>15. ChildrenInv'
  <2>1. \A y, j : Child(y, j)' => y \in 1..instances' /\ ~Service(y)'
    BY <1>3, <1>10, <1>11, <1>12 DEF StraysInv, ChildrenInv
  <2>2. \A y, j, k : Child(y, j)' /\ Child(y, k)' => j = k
    BY <1>3, <1>11 DEF StraysInv, ChildrenInv
  <2>3. \A y : Service(y)' => y \in 1..instances'
    BY <1>10, <1>12 DEF StraysInv, ChildrenInv
  <2> QED
    BY <1>13, <1>14, <2>1, <2>2, <2>3 DEF ChildrenInv
<1>16. CareInv'
  <2>1. \A p \in Alive' : procs'[p].state = "up" => port' = p
    BY <1>5, <1>6, <1>10 DEF StraysInv, CareInv
  <2>2. ASSUME NEW p \in Alive' \ astray', procs'[p].mode = "direct",
               procs'[p].state # "stopping"
        PROVE  \/ \E d \in Apps : Awaits(d)' /\ op'[d].pid = p
               \/ procs'[p].state = "up" /\ record'.inst = procs'[p].inst
    <3>1. CASE p = i
      BY <1>3, <1>8, <1>9, <3>1 DEF Awaits
    <3>2. CASE p # i
      <4>1. p \in Alive /\ procs'[p] = procs[p]
        BY <1>6, <3>2
      <4>2. \/ \E d \in Apps : Awaits(d) /\ op[d].pid = p
            \/ procs[p].state = "up" /\ record.inst = procs[p].inst
        BY <1>10, <2>2, <4>1 DEF StraysInv, CareInv
      <4> QED
        BY <1>3, <1>9, <1>10, <4>1, <4>2 DEF Awaits
    <3> QED
      BY <3>1, <3>2
  <2> QED
    BY <2>1, <2>2 DEF CareInv
<1> QED
  BY <1>15, <1>16

\* An operation ends.
LEMMA EndStays ==
    ASSUME StraysInv, NEW c \in Apps, End(c)
    PROVE  /\ OperationsStay
           /\ \A d \in Apps \ {c} : Awaits(d) => Awaits(d)' /\ op'[d].pid = op[d].pid
<1>1. PICK o : op' = [op EXCEPT ![c] = o] /\ o.inst = 0 /\ o.pc # "spawn" /\ o.pc # "poll"
  BY EndsIdle
<1>2. \A d \in Apps \ {c} : op'[d] = op[d]
  BY <1>1 DEF StraysInv, DaemonInv, AppsInv
<1> QED
  BY <1>1, <1>2, OthersStay DEF Awaits

\* The instance that answers is the operation's own: it is its child that
\* listens, and what is recorded is that.
LEMMA StartedStrays ==
    ASSUME LocalDaemonAssumption, StraysInv, NEW c \in Apps, Started(c)
    PROVE  ChildrenInv' /\ CareInv'
<1>1. /\ OperationInv(c, op[c]) /\ op[c].pc = "poll" /\ op[c].inst # 0 /\ StartsOwn(c)
      /\ MachineInv
  BY DEF StraysInv, DaemonInv, AppsInv, OperationInv, ChildrenInv, Started, At, Starting
<1>2. /\ port # 0 /\ Health.inst = procs[port].inst /\ Health.pid = port
      /\ procs[port].inst = op[c].inst
  BY DEF Started, Health, Down
<1>3. port \in Alive /\ procs[port].state # "starting"
  BY <1>1, <1>2 DEF MachineInv
<1>4. UNCHANGED <<plist, agent, procs, port, instances, astray>> /\ End(c)
  BY DEF Started, counts
<1>5. OperationsStay /\ \A d \in Apps \ {c} : Awaits(d) => Awaits(d)' /\ op'[d].pid = op[d].pid
  BY <1>4, EndStays
<1>6. ProcessesStay /\ ServicesStay
  BY <1>4, ShopStays
<1>7. ASSUME Mode[c] = "direct"
      PROVE  Awaits(c) /\ procs[port].mode = "direct" /\ op[c].pid = port
  <2>1. ~Service(procs[port].inst)
    BY <1>1, <1>2, <1>7 DEF StartsOwn
  <2>2. procs[port].mode = "direct"
    BY <1>1, <1>2, <1>3, <2>1 DEF Service
  <2>3. Child(op[c].inst, port)
    BY <1>2, <1>3, <2>2 DEF Child
  <2> QED
    BY <1>1, <1>7, <2>2, <2>3 DEF StartsOwn, Awaits
<1>8. PICK rec : rec = [inst |-> Health.inst, pid |-> Health.pid, ver |-> Health.ver,
                        mode |-> Mode[c]]
  OBVIOUS
<1>9. /\ rec.inst = procs[port].inst /\ rec.pid = port /\ record' = rec
      /\ reapers' = IF Mode[c] = "agent" THEN reapers
                    ELSE reapers \cup {[app |-> c, rec |-> rec]}
  BY <1>2, <1>8 DEF Started
<1>10. \A x, i : Child(x, i)' => Child(x, i)
  <2> SUFFICES ASSUME NEW x, NEW i, Child(x, i)' PROVE Child(x, i)
    OBVIOUS
  <2>1. CASE i \in Alive' /\ procs'[i].mode = "direct" /\ procs'[i].inst = x
    BY <1>4, <2>1 DEF Child, Alive
  <2>2. ASSUME NEW r \in reapers', r.rec.inst = x, r.rec.pid = i PROVE Child(x, i)
    <3>1. CASE r \in reapers
      BY <2>2, <3>1 DEF Child
    <3>2. CASE r \notin reapers
      <4>1. Mode[c] = "direct" /\ r = [app |-> c, rec |-> rec]
        BY <1>9, <3>2 DEF LocalDaemonAssumption
      <4>2. x = procs[port].inst /\ i = port
        BY <1>9, <2>2, <4>1
      <4> QED
        BY <1>3, <1>7, <4>1, <4>2 DEF Child
    <3> QED
      BY <3>1, <3>2
  <2>3. CASE \E d \in Apps : Awaits(d)' /\ op'[d].inst = x /\ op'[d].pid = i
    BY <1>5, <2>3 DEF OperationsStay, Child
  <2> QED
    BY <2>1, <2>2, <2>3 DEF Child
<1>11. ChildrenInv'
  BY <1>4, <1>5, <1>6, <1>10, CalmKeepsChildren DEF StraysInv, ChildrenStay
<1>12. CareInv'
  <2>1. \A p \in Alive' : procs'[p].state = "up" => port' = p
    BY <1>4 DEF StraysInv, CareInv, Alive
  <2>2. ASSUME NEW p \in Alive' \ astray', procs'[p].mode = "direct",
               procs'[p].state # "stopping"
        PROVE  \/ \E d \in Apps : Awaits(d)' /\ op'[d].pid = p
               \/ procs'[p].state = "up" /\ record'.inst = procs'[p].inst
    <3>1. p \in Alive \ astray /\ procs' = procs /\ procs[p].state \in States
      BY <1>1, <1>4, <2>2 DEF Alive, MachineInv, Processes
    <3>2. CASE procs[p].state = "up"
      BY <1>9, <3>1, <3>2 DEF StraysInv, CareInv
    <3>3. CASE procs[p].state # "up"
      <4>1. PICK d \in Apps : Awaits(d) /\ op[d].pid = p
        BY <2>2, <3>1, <3>3 DEF StraysInv, CareInv
      <4>2. procs[p].state = "starting"
        BY <2>2, <3>1, <3>3 DEF States
      <4>3. d # c
        BY <1>1, <1>3, <1>7, <4>1, <4>2 DEF Awaits
      <4> QED
        BY <1>5, <4>1, <4>3
    <3> QED
      BY <3>2, <3>3
  <2> QED
    BY <2>1, <2>2 DEF CareInv
<1> QED
  BY <1>11, <1>12

\* service::abort: a child that is not ready in time is ended.
LEMMA GivesUpStrays ==
    ASSUME LocalDaemonAssumption, StraysInv, NEW c \in Apps, GivesUp(c)
    PROVE  ChildrenInv' /\ CareInv'
<1>1. UNCHANGED <<record, plist, reapers, instances, astray>> /\ End(c)
  BY DEF GivesUp
<1>2. OperationsStay /\ \A d \in Apps \ {c} : Awaits(d) => Awaits(d)' /\ op'[d].pid = op[d].pid
  BY <1>1, EndStays
<1>3. CASE Mode[c] = "agent"
  <2>1. ProcessesStay /\ ServicesStay
    BY <1>1, <1>3, BootOutStays, ShopStays DEF GivesUp, Abort, NobodyTold
  <2>2. ~Awaits(c)
    BY <1>3 DEF Awaits
  <2> QED
    BY <1>1, <1>2, <2>1, <2>2, CalmStep
<1>4. CASE Mode[c] = "direct"
  <2>1. PICK S : S = {op[c].pid} \cap Alive
    OBVIOUS
  <2>2. procs' = Without(S) /\ port' = (IF port \in S THEN 0 ELSE port) /\ UNCHANGED agent
    BY <1>4, <2>1 DEF GivesUp, Abort
  <2>3. ProcessesStay /\ ServicesStay
    BY <1>1, <2>2, GoneStays DEF StraysInv, CareInv
  <2>4. op[c].pid \notin Alive'
    BY <2>1, <2>2 DEF Without, Alive
  <2> QED
    BY <1>1, <1>2, <2>3, <2>4, CalmStep
<1> QED
  BY <1>3, <1>4 DEF LocalDaemonAssumption

\* runtime::reap_child removes the record of the child that has ended, and of
\* no other one.
LEMMA ReapStrays ==
    ASSUME StraysInv, NEW r \in reapers, Reap(r)
    PROVE  ChildrenInv' /\ CareInv'
<1>1. UNCHANGED <<op, plist, agent, procs, port, instances, astray>>
      /\ reapers' \subseteq reapers /\ r.rec.pid \notin Alive /\ Remove(r.rec)
  BY DEF Reap, counts
<1>2. OperationsStay /\ ProcessesStay /\ ServicesStay
  BY <1>1, AllStay, ShopStays
<1>3. ChildrenInv'
  BY <1>1, <1>2, NoNewChildren, CalmKeepsChildren DEF StraysInv
<1>4. ASSUME NEW p \in Alive', procs'[p].mode = "direct", record.inst = procs'[p].inst
      PROVE  record'.inst = record.inst
  <2>1. CASE record = r.rec
    <3>1. Child(record.inst, p) /\ Child(record.inst, r.rec.pid)
      BY <1>1, <1>4, <2>1 DEF Child, Alive
    <3>2. p = r.rec.pid /\ p \in Alive
      BY <1>1, <3>1 DEF StraysInv, ChildrenInv, Alive
    <3> QED
      BY <1>1, <3>2
  <2>2. CASE record # r.rec
    BY <1>1, <2>2 DEF Remove
  <2> QED
    BY <2>1, <2>2
<1>5. \A d \in Apps : Awaits(d) => Awaits(d)' /\ op'[d].pid = op[d].pid
  BY <1>1 DEF Awaits
<1>6. CareInv'
  BY <1>1, <1>2, <1>4, <1>5, CareKept DEF StraysInv
<1> QED
  BY <1>3, <1>6

\* A child listens: whoever awaits it has not heard of it yet.
LEMMA ListenStrays ==
    ASSUME StraysInv, NEW p \in Alive, Listen(p)
    PROVE  ChildrenInv' /\ CareInv'
<1>1. /\ procs[p].state = "starting"
      /\ UNCHANGED <<op, reapers, record, plist, agent, instances, astray>>
  BY DEF Listen, counts
<1>2. OperationsStay /\ \A d \in Apps : Awaits(d) => Awaits(d)' /\ op'[d].pid = op[d].pid
  BY <1>1, AllStay DEF Awaits
<1>3. CASE port = 0
  <2>1. port' = p /\ procs' = [procs EXCEPT ![p].state = "up"]
    BY <1>3 DEF Listen
  <2>2. /\ Alive' = Alive /\ procs'[p].state = "up"
        /\ \A q \in Alive : /\ procs'[q].inst = procs[q].inst
                            /\ procs'[q].mode = procs[q].mode
        /\ \A q \in Alive \ {p} : procs'[q] = procs[q]
    BY <2>1 DEF StraysInv, DaemonInv, MachineInv, Alive, Processes
  <2>3. \A x, i : Child(x, i)' => Child(x, i)
    BY <1>1, <2>2 DEF Child, Awaits
  <2>4. ServicesStay
    BY <1>1, <2>2 DEF ServicesStay, Service
  <2>5. ChildrenInv'
    BY <1>1, <1>2, <2>3, <2>4, CalmKeepsChildren DEF StraysInv, ChildrenStay
  <2>6. \A q \in Alive : procs[q].state # "up"
    BY <1>3 DEF StraysInv, CareInv, DaemonInv, MachineInv
  <2>7. CareInv'
    <3>1. \A q \in Alive' : procs'[q].state = "up" => port' = q
      BY <2>1, <2>2, <2>6
    <3>2. ASSUME NEW q \in Alive' \ astray', procs'[q].mode = "direct",
                 procs'[q].state # "stopping"
          PROVE  \E d \in Apps : Awaits(d)' /\ op'[d].pid = q
      <4>1. q \in Alive \ astray /\ procs[q].mode = "direct" /\ procs[q].state # "stopping"
        BY <1>1, <2>2, <3>2
      <4>2. PICK d \in Apps : Awaits(d) /\ op[d].pid = q
        BY <1>1, <2>6, <3>2, <4>1 DEF StraysInv, CareInv
      <4> QED
        BY <1>2, <4>2
    <3> QED
      BY <3>1, <3>2 DEF CareInv
  <2> QED
    BY <2>5, <2>7
<1>4. CASE port # 0
  <2>1. PICK S : S = {p} /\ procs' = Without(S) /\ port' = port
    BY <1>4 DEF Listen
  <2>2. ProcessesStay /\ ServicesStay
    BY <1>1, <2>1, GoneStays DEF StraysInv, CareInv
  <2> QED
    BY <1>1, <1>2, <2>2, CalmStep
<1> QED
  BY <1>3, <1>4

\* Processes exit, launchd and the user start some, an application ends.
LEMMA WorldStrays ==
    ASSUME StraysInv,
           \/ \E c \in Apps : LosesChild(c) \/ Crash(c)
           \/ \E p \in Alive : Exit(p)
           \/ Relaunch
           \/ \E v \in Versions : StartByHand(v)
    PROVE  ChildrenInv' /\ CareInv'
<1>1. ASSUME NEW c \in Apps, LosesChild(c) \/ Crash(c) PROVE ChildrenInv' /\ CareInv'
  <2>1. /\ UNCHANGED <<record, plist, agent, procs, port, instances>> /\ End(c)
        /\ reapers' \subseteq reapers /\ astray \subseteq astray'
        /\ Awaits(c) => op[c].pid \in astray'
    BY <1>1 DEF LosesChild, Crash, shared, Awaits, At
  <2>2. OperationsStay /\ \A d \in Apps \ {c} : Awaits(d) => Awaits(d)' /\ op'[d].pid = op[d].pid
    BY <2>1, EndStays
  <2>3. ProcessesStay /\ ServicesStay
    BY <2>1, ShopStays
  <2> QED
    BY <2>1, <2>2, <2>3, CalmStep
<1>2. ASSUME NEW p \in Alive, Exit(p) PROVE ChildrenInv' /\ CareInv'
  <2>1. PICK S : S = {p} /\ procs' = Without(S) /\ port' = IF port = p THEN 0 ELSE port
    BY <1>2 DEF Exit
  <2>2. UNCHANGED <<op, reapers, record, plist, agent, instances, astray>>
    BY <1>2 DEF Exit
  <2>3. ProcessesStay /\ ServicesStay
    BY <2>1, <2>2, GoneStays DEF StraysInv, CareInv
  <2>4. OperationsStay /\ \A d \in Apps : Awaits(d) => Awaits(d)' /\ op'[d].pid = op[d].pid
    BY <2>2, AllStay DEF Awaits
  <2> QED
    BY <2>2, <2>3, <2>4, CalmStep
<1>3. ASSUME NEW x, x.mode # "direct", x.state = "starting", x.inst = 0 \/ Service(x.inst),
             pids' = pids + 1, procs' = With(pids', x),
             UNCHANGED <<op, reapers, record, plist, agent, port, instances, astray>>
      PROVE  ChildrenInv' /\ CareInv'
  <2>1. ProcessesStay /\ ServicesStay
    BY <1>3, ServiceStarts DEF StraysInv, DaemonInv
  <2>2. OperationsStay /\ \A d \in Apps : Awaits(d) => Awaits(d)' /\ op'[d].pid = op[d].pid
    BY <1>3, AllStay DEF Awaits
  <2> QED
    BY <1>3, <2>1, <2>2, CalmStep
<1>4. CASE Relaunch
  <2>1. PICK x : x = Process(agent.inst, agent.ver, "agent")
    OBVIOUS
  <2>2. x.mode = "agent" /\ x.state = "starting" /\ x.inst = agent.inst
    BY <2>1 DEF Process
  <2>3. Service(x.inst)
    BY <1>4, <2>2 DEF Relaunch, Service, StraysInv, DaemonInv, MachineInv
  <2> QED
    BY <1>3, <1>4, <2>1, <2>2, <2>3 DEF Relaunch
<1>5. ASSUME NEW v \in Versions, StartByHand(v) PROVE ChildrenInv' /\ CareInv'
  <2>1. PICK x : x = Process(0, v, "foreign")
    OBVIOUS
  <2>2. x.mode = "foreign" /\ x.state = "starting" /\ x.inst = 0
    BY <2>1 DEF Process
  <2> QED
    BY <1>3, <1>5, <2>1, <2>2 DEF StartByHand
<1> QED
  BY <1>1, <1>2, <1>4, <1>5

LEMMA StraysInit == LocalDaemonAssumption /\ Init => StraysInv
<1> SUFFICES ASSUME LocalDaemonAssumption, Init PROVE StraysInv
  OBVIOUS
<1>1. DaemonInv
  BY InitInv
<1>2. /\ \A c \in Apps : op[c].inst = 0 /\ op[c].pc = "idle"
      /\ reapers = {} /\ instances = 1 /\ astray = {}
  BY DEF Init, Idle
<1>3. PICK v \in Versions, m \in {"direct", "agent", "foreign", "none"} :
        IF m = "none"
        THEN procs = <<>> /\ port = 0 /\ record = None /\ agent = NoAgent /\ plist = NoAgent
        ELSE LET i == IF m = "foreign" THEN 0 ELSE 1
             IN  /\ procs = [q \in {1} |-> [Process(i, v, m) EXCEPT !.state = "up"]]
                 /\ port = 1
                 /\ record = IF m = "foreign" THEN None
                             ELSE [inst |-> 1, pid |-> 1, ver |-> v, mode |-> m]
                 /\ agent = IF m = "agent" THEN [inst |-> 1, ver |-> v] ELSE NoAgent
                 /\ plist = agent
  BY DEF Init
<1>4. /\ Alive \subseteq {1}
      /\ \A p \in Alive : /\ procs[p].mode = m /\ procs[p].state = "up" /\ port = p
                          /\ procs[p].inst = (IF m = "foreign" THEN 0 ELSE 1)
                          /\ m # "foreign" => record.inst = 1
                          /\ m \in {"direct", "agent", "foreign"}
  <2>1. CASE m = "none"
    <3>1. Alive = {}
      BY <1>3, <2>1 DEF Alive
    <3> QED
      BY <3>1
  <2>2. CASE m # "none"
    <3>1. PICK i \in {0, 1} : i = IF m = "foreign" THEN 0 ELSE 1
      OBVIOUS
    <3>2. PICK x : x = [Process(i, v, m) EXCEPT !.state = "up"]
      OBVIOUS
    <3>3. x.inst = i /\ x.mode = m /\ x.state = "up"
      BY <3>2 DEF Process
    <3>4. procs = [q \in {1} |-> x] /\ Alive = {1} /\ port = 1
      BY <1>3, <2>2, <3>1, <3>2 DEF Alive
    <3>5. m # "foreign" => record.inst = 1
      BY <1>3, <2>2
    <3>6. m \in {"direct", "agent", "foreign"}
      BY <2>2
    <3> QED
      BY <3>1, <3>3, <3>4, <3>5, <3>6
  <2> QED
    BY <2>1, <2>2
<1>5. plist = agent /\ agent.inst = IF m = "agent" THEN 1 ELSE 0
  BY <1>3 DEF NoAgent
<1>6. \A x, i : Child(x, i) => m = "direct" /\ x = 1 /\ i = 1
  BY <1>2, <1>4 DEF Child, Awaits
<1>7. \A x : Service(x) => m = "agent" /\ x = 1
  BY <1>4, <1>5 DEF Service
<1>8. ChildrenInv
  <2>1. \A c \in Apps : StartsOwn(c)
    BY <1>2 DEF StartsOwn
  <2> QED
    BY <1>2, <1>6, <1>7, <2>1 DEF ChildrenInv
<1>9. CareInv
  BY <1>4 DEF CareInv
<1> QED
  BY <1>1, <1>8, <1>9 DEF StraysInv

\* service.rs, runtime.rs: once every operation is over, a daemon that an
\* application started by itself is the recorded one, so that it can be
\* stopped, or on its way out, for any number of applications, operations,
\* failures and processes.  Excepted is each process that the desktop lost
\* sight of: a health check did not hear it while it was to be stopped, or its
\* application ended, or could not ask after it, before it was recorded.
THEOREM NothingIsLeftBehind ==
    ASSUME LocalDaemonAssumption
    PROVE  Spec => []NoStrays
<1>1. Init => StraysInv
  BY StraysInit
<1>2. StraysInv /\ [Next]_vars => StraysInv'
  <2> SUFFICES ASSUME StraysInv, [Next]_vars PROVE StraysInv'
    OBVIOUS
  <2>1. DaemonInv'
    BY DaemonStep DEF StraysInv
  <2>2. ASSUME UNCHANGED vars PROVE ChildrenInv' /\ CareInv'
    <3>1. UNCHANGED <<op, reapers, record, plist, agent, procs, port, instances, astray>>
      BY <2>2 DEF vars, shared, counts
    <3>2. OperationsStay /\ \A d \in Apps : Awaits(d) => Awaits(d)' /\ op'[d].pid = op[d].pid
      BY <3>1, AllStay DEF Awaits
    <3>3. ProcessesStay /\ ServicesStay
      BY <3>1, ShopStays
    <3> QED
      BY <3>1, <3>2, <3>3, CalmStep
  <2>3. ChildrenInv' /\ CareInv'
    BY <2>2, LookingStrays, StoppingStrays, SignalStrays, PrepareStrays, AgentStrays,
       SpawnStrays, StartedStrays, GivesUpStrays, ReapStrays, ListenStrays, WorldStrays
    DEF Next
  <2> QED
    BY <2>1, <2>3 DEF StraysInv
<1>3. StraysInv => NoStrays
  BY DEF StraysInv, CareInv, NoStrays, Awaits, At
<1> QED
  BY <1>1, <1>2, <1>3, PTL DEF Spec

-----------------------------------------------------------------------------
(* RuntimeInstall: the applications share one place for the daemon's files. *)

CONSTANTS Bundle, Digests, MaxInstalls, MaxErrors
VARIABLES step, staging, backup, destination, present, stranded, installs, errors

Ins == INSTANCE RuntimeInstall WITH Installers <- Apps

Copies == {Ins!Absent, Ins!Partial, Ins!Unmarked, Ins!Damaged}
              \cup {Ins!Whole(x) : x \in Digests}
InstallSteps  == {"idle", "copy", "mark", "set_aside", "commit", "clean_up"}

FileTypes ==
    /\ step \in [Apps -> InstallSteps]
    /\ staging \in [Apps -> Copies] /\ backup \in [Apps -> Copies]
    /\ destination \in Copies
    /\ present \in BOOLEAN /\ stranded \in BOOLEAN

\* What is moved into place was checked, and what was set aside had been in
\* place: neither can be a half of a copy.
OnlyWholeMoves ==
    /\ destination # Ins!Partial
    /\ \A i \in Apps :
        /\ backup[i] # Ins!Partial
        /\ step[i] \in {"set_aside", "commit"} => \E x \in Digests : staging[i] = Ins!Whole(x)

\* While the place is empty, the one who emptied it still holds what was in
\* it: RuntimeReturns alone would let the wrong application fail.
BackupIsHeld ==
    destination = Ins!Absent /\ present /\ ~stranded
        => \E i \in Apps : step[i] = "commit" /\ backup[i] # Ins!Absent

InstallInv == FileTypes /\ OnlyWholeMoves /\ BackupIsHeld

LEMMA KindsDiffer ==
    /\ \A x : /\ Ins!Whole(x) # Ins!Partial /\ Ins!Whole(x) # Ins!Absent
              /\ Ins!Whole(x).kind = "whole"
    /\ Ins!Partial \notin {Ins!Absent, Ins!Unmarked, Ins!Damaged}
    /\ Ins!Damaged # Ins!Absent
BY DEF Ins!Whole, Ins!Partial, Ins!Absent, Ins!Unmarked, Ins!Damaged

\* Every step of an application, and what happens to the files from outside.
LEMMA InstallStep ==
    ASSUME Ins!InstallAssumption, InstallInv, [Ins!Next]_(Ins!vars)
    PROVE  InstallInv'
<1> USE Ins!InstallAssumption, KindsDiffer DEF InstallInv
<1>1. ASSUME NEW i \in Apps, Ins!BeginInstall(i) PROVE InstallInv'
  BY <1>1
  DEF Ins!BeginInstall, Ins!Goto, FileTypes, InstallSteps, OnlyWholeMoves,
      BackupIsHeld
<1>2. ASSUME NEW i \in Apps, Ins!Copy(i) PROVE InstallInv'
  BY <1>2
  DEF Ins!Copy, Ins!Goto, Ins!Put, FileTypes, InstallSteps, Copies,
      OnlyWholeMoves, BackupIsHeld
<1>3. ASSUME NEW i \in Apps, Ins!Mark(i) PROVE InstallInv'
  <2>1. Bundle[i] \in Digests
    BY DEF Ins!InstallAssumption
  <2> QED
    BY <1>3, <2>1
    DEF Ins!Mark, Ins!Goto, Ins!Put, FileTypes, InstallSteps, Copies,
        OnlyWholeMoves, BackupIsHeld
<1>4. ASSUME NEW i \in Apps, Ins!SetAside(i) PROVE InstallInv'
  <2>1. FileTypes' /\ OnlyWholeMoves'
    BY <1>4
    DEF Ins!SetAside, Ins!Goto, Ins!Put, FileTypes, InstallSteps, Copies,
        OnlyWholeMoves
  <2>2. CASE destination # Ins!Absent
    BY <1>4, <2>1, <2>2
    DEF Ins!SetAside, Ins!Goto, Ins!Put, FileTypes, BackupIsHeld
  <2>3. CASE destination = Ins!Absent
    BY <1>4, <2>1, <2>3
    DEF Ins!SetAside, Ins!Goto, Ins!Put, FileTypes, BackupIsHeld
  <2> QED
    BY <2>1, <2>2, <2>3
<1>5. ASSUME NEW i \in Apps, Ins!Commit(i) PROVE InstallInv'
  <2>1. PICK x \in Digests : staging[i] = Ins!Whole(x)
    BY <1>5 DEF Ins!Commit, OnlyWholeMoves
  <2>2. destination' = Ins!Whole(x)
    BY <1>5, <2>1 DEF Ins!Commit
  <2> QED
    BY <1>5, <2>1, <2>2
    DEF Ins!Commit, Ins!Goto, Ins!Put, FileTypes, InstallSteps, Copies,
        OnlyWholeMoves, BackupIsHeld
<1>6. ASSUME NEW i \in Apps, Ins!CleanUp(i) PROVE InstallInv'
  BY <1>6
  DEF Ins!CleanUp, Ins!Goto, Ins!Put, FileTypes, InstallSteps, Copies,
      OnlyWholeMoves, BackupIsHeld
<1>7. ASSUME NEW i \in Apps, Ins!InstallFails(i) PROVE InstallInv'
  <2>1. CASE step[i] = "commit" /\ backup[i] # Ins!Absent /\ destination = Ins!Absent
    <3>1. CASE /\ destination' = backup[i] /\ Ins!Put(backup, i, Ins!Absent)
               /\ stranded' = FALSE
      <4>1. destination' # Ins!Absent
        BY <2>1, <3>1
      <4>2. FileTypes'
        BY <1>7, <3>1
        DEF Ins!InstallFails, Ins!Goto, Ins!Put, FileTypes, InstallSteps, Copies
      <4>3. OnlyWholeMoves'
        BY <1>7, <3>1
        DEF Ins!InstallFails, Ins!Goto, Ins!Put, FileTypes, OnlyWholeMoves
      <4> QED
        BY <4>1, <4>2, <4>3 DEF BackupIsHeld
    <3>2. CASE /\ stranded' = TRUE /\ Ins!Put(backup, i, Ins!Absent)
               /\ UNCHANGED destination
      <4>1. FileTypes'
        BY <1>7, <3>2
        DEF Ins!InstallFails, Ins!Goto, Ins!Put, FileTypes, InstallSteps, Copies
      <4>2. OnlyWholeMoves'
        BY <1>7, <3>2
        DEF Ins!InstallFails, Ins!Goto, Ins!Put, FileTypes, OnlyWholeMoves
      <4> QED
        BY <3>2, <4>1, <4>2 DEF BackupIsHeld
    <3> QED
      BY <1>7, <2>1, <3>1, <3>2 DEF Ins!InstallFails, Ins!PutBack
  <2>2. CASE ~(step[i] = "commit" /\ backup[i] # Ins!Absent /\ destination = Ins!Absent)
    BY <1>7, <2>2
    DEF Ins!InstallFails, Ins!PutBack, Ins!Goto, Ins!Put, FileTypes,
        InstallSteps, Copies, OnlyWholeMoves, BackupIsHeld
  <2> QED
    BY <2>1, <2>2
<1>8. ASSUME NEW i \in Apps, Ins!InstallerDies(i) PROVE InstallInv'
  BY <1>8
  DEF Ins!InstallerDies, Ins!Goto, Ins!Put, FileTypes, InstallSteps, Copies,
      OnlyWholeMoves, BackupIsHeld
<1>9. CASE Ins!Damage
  BY <1>9 DEF Ins!Damage, FileTypes, Copies, OnlyWholeMoves, BackupIsHeld
<1>10. CASE UNCHANGED Ins!vars
  BY <1>10 DEF Ins!vars, FileTypes, OnlyWholeMoves, BackupIsHeld
<1> QED
  BY <1>1, <1>2, <1>3, <1>4, <1>5, <1>6, <1>7, <1>8, <1>9, <1>10 DEF Ins!Next

LEMMA InstallInit ==
    ASSUME Ins!InstallAssumption, Ins!Init
    PROVE  InstallInv
BY KindsDiffer
DEF Ins!InstallAssumption, Ins!Init, InstallInv, FileTypes, InstallSteps,
    Copies,
    OnlyWholeMoves, BackupIsHeld

LEMMA InstallGoal ==
    ASSUME InstallInv
    PROVE  Ins!InstallIsAtomic
<1>1. destination.kind # "partial"
  BY DEF InstallInv, FileTypes, Copies, OnlyWholeMoves,
         Ins!Absent, Ins!Partial, Ins!Unmarked, Ins!Damaged, Ins!Whole
<1> QED
  BY <1>1
  DEF InstallInv, BackupIsHeld, Ins!InstallIsAtomic, Ins!DestinationIsWhole,
      Ins!RuntimeReturns

\* local_daemon/runtime.rs (install_runtime_into): for any number of
\* applications that install different bundles at one place, the runtime found
\* there is a whole one.  It is missing only during an exchange, and after one
\* that was cut short between the renamings or could put nothing back.
THEOREM Atomicity ==
    ASSUME Ins!InstallAssumption
    PROVE  Ins!Spec => []Ins!InstallIsAtomic
<1>1. Ins!Init => InstallInv
  BY InstallInit
<1>2. InstallInv /\ [Ins!Next]_(Ins!vars) => InstallInv'
  BY InstallStep
<1>3. InstallInv => Ins!InstallIsAtomic
  BY InstallGoal
<1> QED
  BY <1>1, <1>2, <1>3, PTL DEF Ins!Spec
=============================================================================
