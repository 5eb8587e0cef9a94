------------------------------ MODULE TaskFlows ------------------------------
(***************************************************************************)
(* Three flows of calls that change the daemon's resources and may run at  *)
(* the same time: creating a task and cleaning up after a failed creation  *)
(* (tasks.rs), one resource mutation (resources.rs: run_mutation), and the *)
(* switch of a task to another provider (timeline.rs, provider_switch.rs). *)
(*                                                                         *)
(* Creating a task is a saga: workspace, agent, start, first prompt, one   *)
(* call after the other, each with a mutation id chosen when the user      *)
(* asked for the task.  What is left to do is kept in a recovery record,   *)
(* which is also written to the UI state file, 250 ms late.                *)
(*                                                                         *)
(* The daemon applies a mutation id once; asked again it gives the same    *)
(* answer.  A call may be refused, and its answer may be lost; the session *)
(* may break and the application may crash at any time.                    *)
(***************************************************************************)
EXTENDS Naturals, FiniteSets

CONSTANTS
    MaxTasks,       \* bound on tasks the user creates
    MaxAttempts,    \* bound on retries
    MaxMutations,   \* bound on mutations and switches
    MaxFaults       \* bound on lost answers, broken sessions and crashes

ASSUME TaskFlowsAssumption ==
    /\ MaxTasks \in Nat /\ MaxAttempts \in Nat
    /\ MaxMutations \in Nat /\ MaxFaults \in Nat

Tasks  == 1..MaxTasks
Agents == 1..(MaxTasks * (MaxAttempts + 1) + 1)     \* the first is there before
Flows  == {"task", "mutation", "switch"}
Stages == {"Workspace", "Create", "Start", "Prompt"}

VARIABLES
    d,              \* the daemon's resources and the ids it has applied
    late,           \* calls nobody waits for any more, on their way to it
    call,           \* the call each flow waits for
    online, snapshot,
    op,             \* operation_in_flight
    flow,           \* new_task_task: NoFlow or what the saga carries along
    newTask,        \* new_task_in_flight
    recovery, armed,
    switch,         \* provider_switch_task
    switching,      \* provider_switch_in_flight
    preference,     \* the project's provider is the new one (project_providers)
    disk,           \* the recovery in the UI state file
    unsaved,        \* what the scheduled save will write
    tasks, attempts, mutations, faults

view   == <<online, snapshot, op, flow, newTask, recovery, armed, switch, switching,
            preference>>
saved  == <<disk, unsaved>>
counts == <<tasks, attempts, mutations, faults>>
vars   == <<d, late, call, view, saved, counts>>

NoCall     == [phase |-> "none"]
NoFlow     == [kind |-> "none"]
NoRecovery == [task |-> 0]
NoSave     == [task |-> MaxTasks + 1]
NoSnapshot == [rev |-> 0]

-----------------------------------------------------------------------------
(* The daemon.                                                              *)

Id(by, n, what) == [by |-> by, n |-> n, what |-> what]
Call(method, agent, id) == [method |-> method, agent |-> agent, id |-> id]

Exists(s, a) == a \in Agents /\ s.status[a] \notin {"none", "deleted"}

Allowed(c) ==
    \/ c.id \in d.done
    \/ c.method \in {"workspace", "create"}
    \/ Exists(d, c.agent) /\ (c.method = "prompt" => d.status[c.agent] = "running")

NextAgent == CHOOSE a \in Agents :
                 d.status[a] = "none" /\ \A b \in Agents : b < a => d.status[b] # "none"

Executed(c) ==
    LET done == d.done \cup {c.id}
    IN  IF c.id \in d.done THEN d ELSE
        CASE c.method = "workspace" -> [d EXCEPT !.rev = @ + 1, !.done = done, !.spaces = @ + 1]
          [] c.method = "create" ->
                [d EXCEPT !.rev = @ + 1, !.done = done,
                          !.made[c.id.n] = @ \cup {NextAgent},
                          !.status[NextAgent] = "idle"]
          [] c.method = "start"  -> [d EXCEPT !.rev = @ + 1, !.done = done,
                                              !.started = @ \cup {c.agent},
                                              !.status[c.agent] = "running"]
          [] c.method = "stop"   -> [d EXCEPT !.rev = @ + 1, !.done = done,
                                              !.status[c.agent] = "stopped"]
          [] c.method = "delete" -> [d EXCEPT !.rev = @ + 1, !.done = done,
                                              !.status[c.agent] = "deleted"]
          [] c.method = "update" -> [d EXCEPT !.rev = @ + 1, !.done = done, !.updated = TRUE]
          [] c.method = "prompt" -> [d EXCEPT !.done = done, !.prompts[c.id.n] = @ + 1]

\* What state.snapshot answers.
Resources == [rev |-> d.rev, status |-> d.status, updated |-> d.updated]

Send(c) == [phase |-> "sent", c |-> c, snap |-> NoSnapshot]

\* mutate_and_snapshot: the call, then the snapshot.  A prompt is the call only.
DaemonAccepts(f) ==
    /\ call[f].phase = "sent" /\ Allowed(call[f].c)
    /\ d' = Executed(call[f].c)
    /\ call' = [call EXCEPT ![f].phase =
                    IF call[f].c.method = "prompt" THEN "ok" ELSE "snapshot"]
    /\ UNCHANGED <<late, view, saved, counts>>

DaemonRefuses(f) ==
    /\ call[f].phase = "sent" /\ call[f].c.id \notin d.done
    /\ call' = [call EXCEPT ![f].phase = "failed"]
    /\ UNCHANGED <<d, late, view, saved, counts>>

DaemonAnswersSnapshot(f) ==
    /\ call[f].phase = "snapshot"
    /\ call' = [call EXCEPT ![f].phase = "ok", ![f].snap = Resources]
    /\ UNCHANGED <<d, late, view, saved, counts>>

\* The answer of the call or of the snapshot does not come in time.
Fault == faults < MaxFaults /\ faults' = faults + 1

AnswerLost(f) ==
    /\ Fault
    /\ call[f].phase \in {"sent", "snapshot"}
    /\ call' = [call EXCEPT ![f].phase = "failed"]
    /\ late' = IF call[f].phase = "sent" THEN late \cup {call[f].c} ELSE late
    /\ UNCHANGED <<d, view, saved, tasks, attempts, mutations>>

LateExecution ==
    \E c \in late :
        /\ late' = late \ {c}
        /\ d' = IF Allowed(c) THEN Executed(c) ELSE d
        /\ UNCHANGED <<call, view, saved, counts>>

\* Nobody waits for these calls any more; some were sent in time.
Drop(fs) ==
    /\ call' = [f \in Flows |-> IF f \in fs THEN NoCall ELSE call[f]]
    /\ \E sent \in SUBSET {call[f].c : f \in {g \in fs : call[g].phase = "sent"}} :
          late' = late \cup sent

-----------------------------------------------------------------------------
(* Creating a task (tasks.rs).                                              *)

\* schedule_ui_state_save: a later one replaces the earlier.
ScheduleSave(r) == unsaved' = r

\* Mutant: every attempt takes new ids.
IdPerAttempt(r, what) == Id("task", r.task, <<what, attempts>>)

\* The ids were chosen with the task.
TaskId(r, what) == Id("task", r.task, <<what, 0>>)

NextCall(r) ==
    CASE r.stage = "Workspace" -> Call("workspace", 0, TaskId(r, "workspace"))
      [] r.stage = "Create"    -> Call("create", 0, TaskId(r, "create"))
      [] r.stage = "Start"     -> Call("start", r.agent, TaskId(r, "start"))
      [] r.stage = "Prompt"    -> Call("prompt", r.agent, TaskId(r, "prompt"))

\* The part after the guards of run_new_task_attempt.
StartAttempt(r) ==
    /\ recovery' = r /\ armed' = FALSE
    /\ newTask' = TRUE /\ op' = TRUE
    /\ ScheduleSave(r)
    /\ flow' = [kind |-> "attempt", r |-> r, snap |-> NoSnapshot]
    /\ call' = [call EXCEPT !["task"] = Send(NextCall(r))]
    /\ UNCHANGED <<d, late, online, snapshot, switch, switching, preference, disk,
                   mutations, faults>>

\* create_new_task.  Whether the project has an active workspace is open.
CreateNewTask ==
    /\ tasks < MaxTasks /\ tasks' = tasks + 1
    /\ ~newTask /\ recovery = NoRecovery
    /\ snapshot # NoSnapshot /\ online
    /\ \E stage \in {"Workspace", "Create"} :
          StartAttempt([task |-> tasks', stage |-> stage, agent |-> 0])
    /\ UNCHANGED attempts

RetryNewTask ==
    /\ attempts < MaxAttempts /\ attempts' = attempts + 1
    /\ ~newTask /\ recovery # NoRecovery /\ online
    /\ StartAttempt(recovery)
    /\ UNCHANGED tasks

\* Mutant: the stage is advanced when the call is sent.
AdvancedEarly(r) ==
    CASE r.stage = "Workspace" -> [r EXCEPT !.stage = "Start"]
      [] r.stage = "Create"    -> [r EXCEPT !.stage = "Prompt"]
      [] r.stage = "Start"     -> [r EXCEPT !.stage = "Prompt"]

Advanced(r) ==
    CASE r.stage = "Workspace" -> [r EXCEPT !.stage = "Create"]
      [] r.stage = "Create"    -> [r EXCEPT !.stage = "Start",
                                            !.agent = CHOOSE a \in d.made[r.task] : TRUE]
      [] r.stage = "Start"     -> [r EXCEPT !.stage = "Prompt"]

\* execute_new_task_attempt after the answer of a call that is not the last.
AttemptGoesOn ==
    /\ flow.kind = "attempt" /\ flow.r.stage # "Prompt"
    /\ call["task"].phase = "ok"
    /\ LET r == Advanced(flow.r)
       IN  /\ flow' = [flow EXCEPT !.r = r, !.snap = call["task"].snap]
           /\ call' = [call EXCEPT !["task"] = Send(NextCall(r))]
    /\ UNCHANGED <<d, late, online, snapshot, op, newTask, recovery, armed, switch,
                   switching, preference, saved, counts>>

TakeSnapshot(snap) == snapshot' = IF snap = NoSnapshot THEN snapshot ELSE snap

FlowEnds(r) ==
    /\ flow' = NoFlow /\ newTask' = FALSE /\ op' = FALSE
    /\ call' = [call EXCEPT !["task"] = NoCall]
    /\ recovery' = r
    /\ ScheduleSave(r)
    /\ UNCHANGED <<d, late, online, switch, switching, preference, disk, counts>>

AttemptCompletes ==
    /\ flow.kind = "attempt" /\ flow.r.stage = "Prompt"
    /\ call["task"].phase = "ok"
    /\ TakeSnapshot(flow.snap)
    /\ armed' = FALSE
    /\ FlowEnds(NoRecovery)

\* The record of the failed attempt is the one to go on from.
AttemptFails ==
    /\ flow.kind = "attempt"
    /\ call["task"].phase = "failed"
    /\ TakeSnapshot(flow.snap)
    /\ FlowEnds(flow.r)
    /\ UNCHANGED armed

-----------------------------------------------------------------------------
(* Cleaning up (request_new_task_cleanup, execute_new_task_cleanup).        *)

GiveUp ==
    /\ recovery' = NoRecovery /\ armed' = FALSE
    /\ ScheduleSave(NoRecovery)
    /\ UNCHANGED <<d, late, call, online, snapshot, op, flow, newTask, switch, switching,
                   preference, disk, counts>>

CanCleanUp == ~newTask /\ recovery # NoRecovery     \* the button's condition

\* Nothing is known to exist.
AbandonTask == CanCleanUp /\ recovery.agent = 0 /\ GiveUp

ArmCleanup ==
    /\ CanCleanUp /\ recovery.agent # 0 /\ ~armed
    /\ armed' = TRUE
    /\ UNCHANGED <<d, late, call, online, snapshot, op, flow, newTask, recovery, switch,
                   switching, preference, saved, counts>>

Armed == CanCleanUp /\ recovery.agent # 0 /\ armed /\ online /\ snapshot # NoSnapshot

AlreadyGone == Armed /\ ~Exists(snapshot, recovery.agent) /\ GiveUp

CleanUp ==
    /\ Armed /\ Exists(snapshot, recovery.agent)
    /\ attempts < MaxAttempts /\ attempts' = attempts + 1
    /\ newTask' = TRUE /\ op' = TRUE
    /\ flow' = [kind |-> "cleanup", r |-> recovery, snap |-> NoSnapshot]
    /\ call' = [call EXCEPT !["task"] = Send(
                   IF snapshot.status[recovery.agent] # "stopped"
                   THEN Call("stop", recovery.agent, TaskId(recovery, "cleanup_stop"))
                   ELSE Call("delete", recovery.agent, TaskId(recovery, "cleanup_delete")))]
    /\ UNCHANGED <<d, late, online, snapshot, recovery, armed, switch, switching,
                   preference, saved, tasks, mutations, faults>>

CleanupStopped ==
    /\ flow.kind = "cleanup" /\ call["task"].phase = "ok"
    /\ call["task"].c.method = "stop"
    /\ flow' = [flow EXCEPT !.snap = call["task"].snap]
    /\ call' = [call EXCEPT !["task"] =
                   Send(Call("delete", flow.r.agent, TaskId(flow.r, "cleanup_delete")))]
    /\ UNCHANGED <<d, late, online, snapshot, op, newTask, recovery, armed, switch,
                   switching, preference, saved, counts>>

CleanupCompletes ==
    /\ flow.kind = "cleanup" /\ call["task"].phase = "ok"
    /\ call["task"].c.method = "delete"
    /\ snapshot' = call["task"].snap
    /\ armed' = FALSE
    /\ FlowEnds(NoRecovery)

CleanupFails ==
    /\ flow.kind = "cleanup" /\ call["task"].phase = "failed"
    /\ TakeSnapshot(flow.snap)
    /\ FlowEnds(flow.r)
    /\ UNCHANGED armed

\* reconcile_new_task_recovery: what a session's snapshot says of the task.
Reconciled(snap) ==
    IF recovery = NoRecovery \/ recovery.agent = 0 THEN recovery
    ELSE IF ~Exists(snap, recovery.agent) THEN NoRecovery
    ELSE IF snap.status[recovery.agent] = "running" /\ recovery.stage = "Start"
         THEN [recovery EXCEPT !.stage = "Prompt"]
    ELSE recovery

-----------------------------------------------------------------------------
(* One resource mutation (run_mutation) on the task that is there: it looks *)
(* at operation_in_flight only.  The task before it is dropped, if any.     *)

RunMutation(method) ==
    /\ mutations < MaxMutations /\ mutations' = mutations + 1
    /\ ~op /\ online /\ snapshot # NoSnapshot
    /\ Exists(snapshot, 1)
    /\ op' = TRUE
    /\ late' = IF call["mutation"].phase = "sent" THEN late \cup {call["mutation"].c} ELSE late
    /\ call' = [call EXCEPT !["mutation"] =
                   Send(Call(method, 1, Id("mutation", mutations', <<method, 0>>)))]
    /\ UNCHANGED <<d, online, snapshot, flow, newTask, recovery, armed, switch, switching,
                   preference, saved, tasks, attempts, faults>>

MutationAnswered ==
    /\ call["mutation"].phase \in {"ok", "failed"}
    /\ op' = FALSE
    /\ TakeSnapshot(call["mutation"].snap)
    /\ call' = [call EXCEPT !["mutation"] = NoCall]
    /\ UNCHANGED <<d, late, online, flow, newTask, recovery, armed, switch, switching,
                   preference, saved, counts>>

-----------------------------------------------------------------------------
(* The provider switch of the task that is there: stop, update, start, with *)
(* new ids.                                                                 *)

SwitchCall(n, method) == Send(Call(method, 1, Id("switch", n, <<method, 0>>)))

SwitchProvider ==
    /\ ~switching /\ ~op /\ online
    /\ snapshot # NoSnapshot /\ Exists(snapshot, 1)
    /\ IF snapshot.updated
       THEN /\ preference' = TRUE
            /\ UNCHANGED <<call, switch, switching, mutations>>
       ELSE /\ mutations < MaxMutations /\ mutations' = mutations + 1
            /\ snapshot.status[1] = "running"
            /\ switching' = TRUE
            /\ switch' = [kind |-> "switch", n |-> mutations', snap |-> NoSnapshot]
            /\ call' = [call EXCEPT !["switch"] = SwitchCall(mutations', "stop")]
            /\ UNCHANGED preference
    /\ UNCHANGED <<d, late, online, snapshot, op, flow, newTask, recovery, armed, saved,
                   tasks, attempts, faults>>

SwitchGoesOn ==
    /\ switch.kind = "switch" /\ call["switch"].phase = "ok"
    /\ call["switch"].c.method \in {"stop", "update"}
    /\ switch' = [switch EXCEPT !.snap = call["switch"].snap]
    /\ call' = [call EXCEPT !["switch"] = SwitchCall(switch.n,
                   IF call["switch"].c.method = "stop" THEN "update" ELSE "start")]
    /\ UNCHANGED <<d, late, online, snapshot, op, flow, newTask, recovery, armed,
                   switching, preference, saved, counts>>

SwitchEnds ==
    /\ switch' = NoFlow /\ switching' = FALSE
    /\ call' = [call EXCEPT !["switch"] = NoCall]
    /\ UNCHANGED <<d, late, online, op, flow, newTask, recovery, armed, saved, counts>>

SwitchCompletes ==
    /\ switch.kind = "switch" /\ call["switch"].phase = "ok"
    /\ call["switch"].c.method = "start"
    /\ snapshot' = call["switch"].snap
    /\ preference' = TRUE
    /\ SwitchEnds

\* ProviderSwitchFailure.provider_updated: the start failed, not the update.
ProviderUpdated(method) == method = "start"

SwitchFails ==
    /\ switch.kind = "switch" /\ call["switch"].phase = "failed"
    /\ TakeSnapshot(switch.snap)
    /\ preference' = (preference \/ ProviderUpdated(call["switch"].c.method))
    /\ SwitchEnds

-----------------------------------------------------------------------------
(* The session, the file, and the crash.                                    *)

\* Mutant: the flags outlive the tasks they stand for.
KeepFlags ==
    /\ snapshot' = NoSnapshot
    /\ flow' = NoFlow /\ switch' = NoFlow
    /\ UNCHANGED <<op, newTask, switching>>
    /\ Drop(Flows)

\* clear_connection_bound_state.
ClearConnectionBoundState ==
    /\ snapshot' = NoSnapshot
    /\ op' = FALSE /\ newTask' = FALSE /\ switching' = FALSE
    /\ flow' = NoFlow /\ switch' = NoFlow
    /\ Drop(Flows)

Disconnect ==
    /\ Fault /\ online
    /\ online' = FALSE
    /\ ClearConnectionBoundState
    /\ UNCHANGED <<d, recovery, armed, preference, saved, tasks, attempts, mutations>>

Reconnect ==
    /\ ~online
    /\ online' = TRUE
    /\ UNCHANGED <<d, late, call, snapshot, op, flow, newTask, recovery, armed, switch,
                   switching, preference, saved, counts>>

\* The session's snapshot, and what apply_event does with it.
SessionSnapshot ==
    /\ online /\ snapshot = NoSnapshot
    /\ snapshot' = Resources
    /\ recovery' = Reconciled(Resources)
    /\ armed' = (armed /\ recovery' # NoRecovery)
    /\ ScheduleSave(recovery')
    /\ UNCHANGED <<d, late, call, online, op, flow, newTask, switch, switching, preference,
                   disk, counts>>

Save ==
    /\ unsaved # NoSave
    /\ disk' = unsaved /\ unsaved' = NoSave
    /\ UNCHANGED <<d, late, call, view, counts>>

\* The application dies and starts again with what the file holds; while the
\* file was being written it holds nothing that can be read.
Crash ==
    /\ Fault
    /\ online' = FALSE
    /\ ClearConnectionBoundState
    /\ armed' = FALSE
    /\ \/ disk' = disk
       \/ unsaved # NoSave /\ disk' = NoRecovery
    /\ recovery' = disk' /\ unsaved' = NoSave
    /\ UNCHANGED <<d, preference, tasks, attempts, mutations>>

-----------------------------------------------------------------------------
Init ==
    /\ d = [rev |-> 1, status |-> [a \in Agents |-> IF a = 1 THEN "running" ELSE "none"],
            done |-> {}, spaces |-> 0, made |-> [n \in Tasks |-> {}], started |-> {1},
            updated |-> FALSE, prompts |-> [n \in Tasks |-> 0]]
    /\ late = {} /\ call = [f \in Flows |-> NoCall]
    /\ online = TRUE /\ snapshot = Resources
    /\ op = FALSE /\ flow = NoFlow /\ newTask = FALSE
    /\ recovery = NoRecovery /\ armed = FALSE
    /\ switch = NoFlow /\ switching = FALSE /\ preference = FALSE
    /\ disk = NoRecovery /\ unsaved = NoSave
    /\ tasks = 0 /\ attempts = 0 /\ mutations = 0 /\ faults = 0

DaemonStep ==
    \/ \E f \in Flows : DaemonAccepts(f) \/ DaemonRefuses(f) \/ DaemonAnswersSnapshot(f)
    \/ LateExecution

TaskStep ==
    \/ AttemptGoesOn \/ AttemptCompletes \/ AttemptFails
    \/ CleanupStopped \/ CleanupCompletes \/ CleanupFails

SwitchStep == SwitchGoesOn \/ SwitchCompletes \/ SwitchFails

Next ==
    \/ DaemonStep \/ (\E f \in Flows : AnswerLost(f))
    \/ CreateNewTask \/ RetryNewTask \/ TaskStep
    \/ AbandonTask \/ ArmCleanup \/ AlreadyGone \/ CleanUp
    \/ (\E method \in {"start", "stop", "delete"} : RunMutation(method)) \/ MutationAnswered
    \/ SwitchProvider \/ SwitchStep
    \/ Disconnect \/ Reconnect \/ SessionSnapshot \/ Save \/ Crash

Spec == Init /\ [][Next]_vars

\* The daemon answers or the call times out (RpcSession), and the task of the
\* view goes on with it.
FairSpec == Spec /\ WF_vars(DaemonStep) /\ WF_vars(TaskStep) /\ WF_vars(SwitchStep)

-----------------------------------------------------------------------------
\* However often a creation is retried, after lost answers, broken sessions
\* and crashes: one workspace, one agent and one first prompt per task.
CreatedOnce ==
    /\ d.spaces <= tasks
    /\ \A n \in Tasks : Cardinality(d.made[n]) <= 1 /\ d.prompts[n] <= 1

Real(r) ==
    r # NoRecovery =>
        /\ r.stage \in Stages
        /\ r.agent # 0 => r.agent \in d.made[r.task]
        /\ r.stage \in {"Start", "Prompt"} => r.agent # 0
        /\ r.stage = "Prompt" => r.agent \in d.started

\* A recovery record, wherever it is kept, and the provider a failed switch
\* leaves the project with never claim more than the daemon has done: going on
\* from it skips nothing.
RecoveryIsReal ==
    /\ Real(recovery) /\ Real(disk)
    /\ unsaved # NoSave => Real(unsaved)
    /\ flow # NoFlow => Real(flow.r)
    /\ preference => d.updated

\* request_new_task_cleanup, shown to the user: the unfinished task does not
\* exist any more, nothing is left to clean up.
GoneIsGone == [][AlreadyGone => ~Exists(d, recovery.agent)]_vars

\* A creation or a cleanup ends, one way or another, and so does a switch of
\* the provider: the buttons they disable work again.
EveryFlowEnds == (newTask ~> ~newTask) /\ (switching ~> ~switching)
=============================================================================
