------------------------------ MODULE Scheduled ------------------------------
(***************************************************************************)
(* The page of scheduled tasks (scheduled.rs): the list of plans and their *)
(* runs, read with two calls; operations that change a plan and read both  *)
(* again; a refresh 200 ms after a turn ends; deleting with two clicks.    *)
(*                                                                         *)
(* The daemon has a clock that ticks with every change of plans or runs,   *)
(* and executes calls in any order.  A list is as old as its first call.   *)
(***************************************************************************)
EXTENDS Naturals

CONSTANTS
    Plans,
    MaxTicks,           \* bound on the daemon's clock
    MaxOperations,      \* bound on operations of the user
    MaxVisits,          \* bound on visits to the page and on sessions
    None

ScheduledAssumption ==
    /\ None \notin Plans
    /\ MaxTicks \in Nat /\ MaxOperations \in Nat /\ MaxVisits \in Nat

VARIABLES
    online,
    onPage,             \* main_section is Scheduled
    shown,              \* scheduled_tasks and scheduled_runs: [at, plans]
    refresh,            \* scheduled_refresh_task: Idle, the timer, or the load
    operation,          \* scheduled_task
    inFlight,           \* scheduled_operation_in_flight
    confirm,            \* scheduled_delete_confirmation
    editing,            \* Closed, None for a new plan, or a plan
    clock, dPlans,      \* the daemon's
    due,                \* the clock of the last change the view can know of
    ended,              \* TurnCompleted events on their way to the view
    told,               \* history: a call failed, the user was told, and no list that
                        \* is new enough came since
    overtaken,          \* history: the last answer replaced a newer one
    operations, visits

page   == <<shown, refresh, operation, inFlight, confirm, editing>>
server == <<clock, dPlans, due, ended>>
hist   == <<told, overtaken>>
vars   == <<online, onPage, page, server, hist, operations, visits>>

Task(phase, kind, p) == [phase |-> phase, kind |-> kind, plan |-> p, at |-> 0, plans |-> {}]
Idle    == Task("idle", "load", None)
Timing  == Task("timer", "load", None)
Loading == Task("plans", "load", None)
Closed  == "closed"
NoPlans == [at |-> 0, plans |-> {}]

Init ==
    /\ online = TRUE /\ onPage = FALSE
    /\ shown = NoPlans /\ refresh = Idle /\ operation = Idle /\ inFlight = FALSE
    /\ confirm = None /\ editing = Closed
    /\ clock = 1 /\ dPlans \in SUBSET Plans /\ due = 1 /\ ended = 0
    /\ told = FALSE /\ overtaken = FALSE
    /\ operations = 0 /\ visits = 0

-----------------------------------------------------------------------------
(* Reading.  A refresh that is replaced is dropped with its answer.         *)

Visit == visits < MaxVisits /\ visits' = visits + 1

\* set_main_section, with load_scheduled_tasks.
OpenPage ==
    /\ Visit /\ ~onPage
    /\ onPage' = TRUE
    /\ refresh' = IF online THEN Loading ELSE refresh
    /\ UNCHANGED <<online, shown, operation, inFlight, confirm, editing, server, hist,
                   operations>>

LeavePage ==
    /\ onPage /\ onPage' = FALSE
    /\ UNCHANGED <<online, page, server, hist, operations, visits>>

TimerFires ==
    /\ refresh = Timing
    /\ refresh' = Loading
    /\ UNCHANGED <<online, onPage, shown, operation, inFlight, confirm, editing, server,
                   hist, operations, visits>>

\* fetch_scheduled_state: the plans, then the runs.
Fetched(task) ==
    IF task.phase = "plans"
    THEN [task EXCEPT !.phase = "runs", !.at = clock, !.plans = dPlans]
    ELSE [task EXCEPT !.phase = "done"]

DaemonReads ==
    /\ \/ refresh.phase \in {"plans", "runs"}
          /\ refresh' = Fetched(refresh) /\ UNCHANGED operation
       \/ operation.phase \in {"plans", "runs"}
          /\ operation' = Fetched(operation) /\ UNCHANGED refresh
    /\ UNCHANGED <<online, onPage, shown, inFlight, confirm, editing, server, hist,
                   operations, visits>>

Show(task) ==
    /\ shown' = [at |-> task.at, plans |-> task.plans]
    /\ told' = (told /\ task.at < due)
    /\ overtaken' = (task.at < shown.at)

\* Mutant: what was armed stays armed.
LoadedStillArmed ==
    /\ refresh.phase = "done"
    /\ Show(refresh)
    /\ refresh' = Idle
    /\ UNCHANGED <<online, onPage, operation, inFlight, confirm, editing, server,
                   operations, visits>>

Loaded ==
    /\ refresh.phase = "done"
    /\ Show(refresh)
    /\ confirm' = None
    /\ refresh' = Idle
    /\ UNCHANGED <<online, onPage, operation, inFlight, editing, server, operations, visits>>

LoadFails ==
    /\ refresh.phase \in {"plans", "runs"}
    /\ refresh' = Idle
    /\ told' = TRUE
    /\ UNCHANGED <<online, onPage, shown, operation, inFlight, confirm, editing, server,
                   overtaken, operations, visits>>

-----------------------------------------------------------------------------
(* The daemon by itself: a turn ends, of a plan's run or of a conversation, *)
(* and somebody else creates or deletes a plan, which nobody reports.       *)

TurnEnds ==
    /\ clock < MaxTicks
    /\ clock' = clock + 1
    /\ IF online THEN due' = clock' /\ ended' = ended + 1 ELSE UNCHANGED <<due, ended>>
    /\ UNCHANGED <<online, onPage, page, dPlans, hist, operations, visits>>

OthersChange(p) ==
    /\ clock < MaxTicks
    /\ clock' = clock + 1
    /\ dPlans' = IF p \in dPlans THEN dPlans \ {p} ELSE dPlans \cup {p}
    /\ UNCHANGED <<online, onPage, page, due, ended, hist, operations, visits>>

\* apply_event, schedule_scheduled_refresh: the timer replaces what was there.
ApplyCompletion ==
    /\ ended > 0 /\ ended' = ended - 1
    /\ refresh' = IF onPage THEN Timing ELSE refresh
    /\ UNCHANGED <<online, onPage, shown, operation, inFlight, confirm, editing, clock,
                   dPlans, due, hist, operations, visits>>

-----------------------------------------------------------------------------
(* Operations, one at a time.                                               *)

Start(kind, p) ==
    /\ operations < MaxOperations /\ operations' = operations + 1
    /\ online /\ ~inFlight
    /\ inFlight' = TRUE
    /\ operation' = Task("call", kind, p)
    /\ UNCHANGED <<online, onPage, shown, refresh, server, hist, visits>>

\* A listed plan has a row, whose buttons an operation disables; the editor
\* disables itself then.
Row(p)     == onPage /\ p \in shown.plans /\ ~inFlight
EditorOpen == onPage /\ editing # Closed /\ ~inFlight

\* open_scheduled_editor and the suggestions: for a new plan, or one listed.
\* The suggestions of an empty list do not look at the operation in flight.
OpenEditor ==
    /\ onPage
    /\ editing' \in {p \in shown.plans : Row(p)}
                        \cup (IF inFlight /\ shown.plans # {} THEN {} ELSE {None})
    /\ confirm' = None
    /\ UNCHANGED <<online, onPage, shown, refresh, operation, inFlight, server, hist,
                   operations, visits>>

CloseEditor ==
    /\ EditorOpen
    /\ editing' = Closed
    /\ UNCHANGED <<online, onPage, shown, refresh, operation, inFlight, confirm, server,
                   hist, operations, visits>>

\* submit_scheduled_task, past its validation.
SubmitScheduledTask ==
    /\ EditorOpen
    /\ Start(IF editing = None THEN "create" ELSE "update", editing)
    /\ confirm' = None
    /\ UNCHANGED editing

\* set_scheduled_paused and run_scheduled_now.
SetPausedOrRunNow(p) ==
    /\ Row(p)
    /\ \E kind \in {"pause", "run"} : Start(kind, p)
    /\ UNCHANGED <<confirm, editing>>

\* request_scheduled_delete: the first click arms, the second deletes.
ArmDelete(p) ==
    /\ Row(p) /\ online
    /\ confirm # p /\ confirm' = p
    /\ UNCHANGED <<online, onPage, shown, refresh, operation, inFlight, editing, server,
                   hist, operations, visits>>

DeletePlan(p) ==
    /\ Row(p)
    /\ confirm = p
    /\ Start("delete", p)
    /\ UNCHANGED <<confirm, editing>>

\* The daemon executes the call; what does not exist it refuses.
Changed(op) ==
    /\ clock' = clock + 1 /\ due' = clock'
    /\ CASE op.kind = "create" -> \E p \in Plans \ dPlans : dPlans' = dPlans \cup {p}
         [] op.kind = "delete" -> dPlans' = dPlans \ {op.plan}
         [] OTHER -> dPlans' = dPlans

DaemonExecutes ==
    /\ operation.phase = "call" /\ clock < MaxTicks
    /\ operation.kind # "create" => operation.plan \in dPlans
    /\ Changed(operation)
    /\ operation' = [operation EXCEPT !.phase = "plans"]
    /\ UNCHANGED <<online, onPage, shown, refresh, inFlight, confirm, editing, ended,
                   hist, operations, visits>>

\* The callback's success.  Only a saved plan closes the editor; only the
\* others disarm the deletion, saving did that before.
OperationDone ==
    /\ operation.phase = "done"
    /\ Show(operation)
    /\ inFlight' = FALSE /\ operation' = Idle
    /\ IF operation.kind \in {"create", "update"}
       THEN editing' = Closed /\ UNCHANGED confirm
       ELSE confirm' = None /\ UNCHANGED editing
    /\ UNCHANGED <<online, onPage, refresh, server, operations, visits>>

\* The call was refused, its answer did not come, or the reading failed.
OperationFails ==
    /\ operation.phase \in {"call", "plans", "runs"}
    /\ inFlight' = FALSE /\ operation' = Idle
    /\ told' = TRUE
    /\ UNCHANGED <<online, onPage, shown, refresh, confirm, editing, server, overtaken,
                   operations, visits>>

-----------------------------------------------------------------------------
(* The session.                                                             *)

\* clear_connection_bound_state.
Disconnect ==
    /\ online /\ Visit
    /\ online' = FALSE
    /\ operation' = Idle /\ inFlight' = FALSE /\ refresh' = Idle
    /\ shown' = NoPlans
    /\ overtaken' = FALSE /\ ended' = 0
    /\ UNCHANGED <<onPage, confirm, editing, clock, dPlans, due, told, operations>>

\* The session's snapshot; until it is there nothing else can be done.
Reconnect ==
    /\ ~online
    /\ online' = TRUE
    /\ due' = clock
    /\ told' = FALSE
    /\ refresh' = IF onPage THEN Loading ELSE refresh
    /\ UNCHANGED <<onPage, shown, operation, inFlight, confirm, editing, clock, dPlans,
                   ended, overtaken, operations, visits>>

Next ==
    \/ OpenPage \/ LeavePage \/ TimerFires \/ DaemonReads \/ Loaded \/ LoadFails
    \/ TurnEnds \/ ApplyCompletion \/ OpenEditor \/ CloseEditor \/ SubmitScheduledTask
    \/ (\E p \in Plans : OthersChange(p) \/ SetPausedOrRunNow(p) \/ ArmDelete(p) \/ DeletePlan(p))
    \/ DaemonExecutes \/ OperationDone \/ OperationFails
    \/ Disconnect \/ Reconnect

Spec == Init /\ [][Next]_vars

-----------------------------------------------------------------------------
\* While the page is shown, a list older than the last change the view can
\* know of is about to be read again, or a call failed, which the user was told,
\* and no newer list came since.  One case is excluded, in which the list stays
\* out of date and nobody says so: an operation's answer, which the request id
\* of scheduled.rs:130 does not guard, replaced a newer list.
PlansFreshOrPending ==
    online /\ onPage =>
        \/ shown.at >= due
        \/ ended > 0 \/ refresh # Idle \/ operation # Idle
        \/ told \/ overtaken

\* The second click deletes a plan the user still sees; a list read since the
\* first click asks for two clicks again.
ArmedIsShown == confirm # None => confirm \in shown.plans \/ shown = NoPlans
=============================================================================
