-------------------------- MODULE ResourceMutations --------------------------
(***************************************************************************)
(* Changing projects, workspaces and agents, one operation at a time       *)
(* (resources.rs): run_mutation, which reuses its mutation id when the     *)
(* same operation is submitted again after an error; the two-click         *)
(* deletions; and creating a project with its source folders, a sequence   *)
(* of calls with fresh ids that stops at the first error.                  *)
(*                                                                         *)
(* The daemon applies an id once; a call nobody waits for any more may     *)
(* still arrive.                                                           *)
(***************************************************************************)
EXTENDS Naturals

CONSTANTS
    Targets,            \* the resources whose rows are shown
    SourceFolders,      \* bound on the folders the project dialog collects
    MaxSubmissions,     \* bound on operations of the user
    MaxLosses,          \* bound on lost answers and broken sessions
    None

MutationsAssumption ==
    /\ None \notin Targets
    /\ SourceFolders \in Nat \ {0} /\ MaxSubmissions \in Nat /\ MaxLosses \in Nat

VARIABLES
    online,
    snapshot,       \* None or the targets it lists
    op,             \* operation_in_flight
    task,           \* mutation_task: NoTask or what it waits for
    fetched,        \* the snapshot on its way to the task, None before it is read
    kept,           \* the one of the creation's last complete step
    retry,          \* retry_mutation: the operation and its id, or NoRetry
    armed,          \* delete_confirmation
    dialog,         \* the dialog that is open; it outlives the session
    there,          \* the daemon's resources
    done,           \* the ids it has applied
    late,           \* calls on their way that nobody waits for
    intent,         \* history: what the user repeats, its ids, how often it was applied
    project,        \* history of the last project: [spaces, reported]
    ids, losses

local == <<task, fetched, kept>>
view == <<online, snapshot, op, local, retry, armed, dialog>>
vars == <<view, there, done, late, intent, project, ids, losses>>

NoTask     == [kind |-> "none"]
NoDialog   == [kind |-> "none"]
NoRetry    == [sig |-> None]
NoIntent   == [sig |-> None, ids |-> {}, times |-> 0]
NoProject  == [spaces |-> 0, reported |-> 0]

\* The signature: the method with its parameters.
Sig(method, target) == [method |-> method, target |-> target]

Init ==
    /\ online = TRUE /\ snapshot = Targets
    /\ op = FALSE /\ task = NoTask /\ fetched = None /\ kept = None
    /\ retry = NoRetry /\ armed = None /\ dialog = NoDialog
    /\ there = Targets /\ done = {} /\ late = {}
    /\ intent = NoIntent /\ project = NoProject
    /\ ids = 0 /\ losses = 0

-----------------------------------------------------------------------------
(* Submitting.                                                              *)

Ready == ~op /\ online /\ snapshot # None

\* What the buttons of the rows, menus and editors look at.
CanMutate(t) == online /\ ~op /\ snapshot # None /\ t \in snapshot

\* Mutant: every submission takes a new id.
FreshId(sig) == ids + 1

MutationId(sig) == IF retry.sig = sig THEN retry.id ELSE ids + 1

\* run_mutation past its guards.
RunMutation(sig) ==
    LET id == MutationId(sig)
    IN  /\ ids < MaxSubmissions /\ ids' = ids + 1
        /\ Ready
        /\ retry' = [sig |-> sig, id |-> id]
        /\ op' = TRUE /\ armed' = None
        /\ task' = [kind |-> "mutation", phase |-> "sent", sig |-> sig, id |-> id]
        /\ intent' = IF intent.sig = sig THEN [intent EXCEPT !.ids = @ \cup {id}]
                     ELSE [sig |-> sig, ids |-> {id}, times |-> 0]
        /\ UNCHANGED <<online, snapshot, fetched, kept, there, done, late, project, losses>>

\* create_project, create_workspace, create_agent; validation is left out.
Create == RunMutation(Sig("create", None)) /\ UNCHANGED dialog

\* rename_project and its kin, set_workspace_archived, start_agent, stop_agent.
Update(t) == CanMutate(t) /\ RunMutation(Sig("update", t)) /\ UNCHANGED dialog

\* request_agent_delete and its kin, the first click and the second.
ArmDelete(t) ==
    /\ CanMutate(t) /\ armed # t
    /\ armed' = t
    /\ UNCHANGED <<online, snapshot, op, local, retry, dialog, there, done, late, intent,
                   project, ids, losses>>

Delete(t) == CanMutate(t) /\ armed = t /\ RunMutation(Sig("delete", t)) /\ UNCHANGED dialog

-----------------------------------------------------------------------------
(* Dialogs.  They ask again when they are confirmed.                        *)

OnlyDialog == UNCHANGED <<online, snapshot, op, local, retry, armed, there, done, late, intent,
                          project, ids, losses>>

\* open_project_rename_dialog, open_agent_rename_dialog, and
\* open_project_delete_dialog, which needs a project without workspaces.
OpenDialog(kind, t) ==
    /\ CanMutate(t) /\ dialog = NoDialog
    /\ dialog' = [kind |-> kind, target |-> t]
    /\ OnlyDialog

\* What is gone closes the dialog, and so does a session that is not there:
\* run_mutation tells the user.  An operation in flight leaves it open.
ConfirmDialog ==
    /\ dialog.kind \in {"update", "delete"} /\ ~op
    /\ snapshot # None \/ dialog.kind = "update"
    /\ dialog' = NoDialog
    /\ IF snapshot = None \/ ~online THEN OnlyDialog
       ELSE IF dialog.target \notin snapshot THEN OnlyDialog
       ELSE RunMutation(Sig(dialog.kind, dialog.target))

CancelDialog ==
    /\ dialog # NoDialog /\ dialog' = NoDialog
    /\ OnlyDialog

\* add_project_from_sidebar, with a daemon on this machine.
OpenProjectDialog ==
    /\ Ready /\ dialog = NoDialog
    /\ dialog' = [kind |-> "project", folders |-> 0, picking |-> FALSE]
    /\ OnlyDialog

\* select_project_source_folders: the chooser of the operating system, which
\* brings nothing, nothing new, or more folders.
PickFolders ==
    /\ dialog.kind = "project" /\ ~dialog.picking
    /\ dialog' = [dialog EXCEPT !.picking = TRUE]
    /\ OnlyDialog

FoldersPicked ==
    /\ dialog.kind = "project" /\ dialog.picking
    /\ \E n \in dialog.folders..SourceFolders :
          dialog' = [dialog EXCEPT !.picking = FALSE, !.folders = n]
    /\ OnlyDialog

RemoveFolder ==
    /\ dialog.kind = "project" /\ dialog.folders > 0
    /\ dialog' = [dialog EXCEPT !.folders = @ - 1]
    /\ OnlyDialog

\* create_project_with_sources.
CreateProjectWithSources ==
    /\ dialog.kind = "project" /\ dialog.folders > 0 /\ ~dialog.picking
    /\ ids < MaxSubmissions /\ ids' = ids + 1
    /\ Ready
    /\ dialog' = NoDialog
    /\ op' = TRUE /\ retry' = NoRetry /\ armed' = None
    /\ task' = [kind |-> "project", phase |-> "sent", folders |-> dialog.folders,
                created |-> 0, made |-> FALSE]
    /\ intent' = NoIntent /\ project' = NoProject
    /\ UNCHANGED <<online, snapshot, fetched, kept, there, done, late, losses>>

-----------------------------------------------------------------------------
(* The daemon.                                                              *)

Applied(sig, id) ==
    IF id \in done THEN UNCHANGED <<there, done, intent>>
    ELSE /\ done' = done \cup {id}
         /\ there' = IF sig.method = "delete" THEN there \ {sig.target} ELSE there
         /\ intent' = IF id \in intent.ids THEN [intent EXCEPT !.times = @ + 1] ELSE intent

\* mutate_and_snapshot: the call, which the daemon refuses for what is gone ...
DaemonAccepts ==
    /\ task.kind = "mutation" /\ task.phase = "sent"
    /\ task.sig.target \in there \cup {None} \/ task.id \in done
    /\ Applied(task.sig, task.id)
    /\ task' = [task EXCEPT !.phase = "accepted"]
    /\ UNCHANGED <<online, snapshot, op, fetched, kept, retry, armed, dialog, late, project, ids,
                   losses>>

\* One step of create_project_resources: the project, then a folder.
DaemonCreates ==
    /\ task.kind = "project" /\ task.phase = "sent"
    /\ task' = [task EXCEPT !.phase = "accepted"]
    /\ project' = IF task.made THEN [project EXCEPT !.spaces = @ + 1] ELSE project
    /\ UNCHANGED <<online, snapshot, op, fetched, kept, retry, armed, dialog, there, done, late,
                   intent, ids, losses>>

\* ... then the snapshot.
DaemonReads ==
    /\ task.kind # "none" /\ task.phase = "accepted"
    /\ task' = [task EXCEPT !.phase = "answered"]
    /\ fetched' = there
    /\ UNCHANGED <<online, snapshot, op, kept, retry, armed, dialog, there, done, late, intent,
                   project, ids, losses>>

LateExecution ==
    \E c \in late :
        /\ late' = late \ {c}
        /\ IF c.sig.target \in there \cup {None} THEN Applied(c.sig, c.id)
           ELSE UNCHANGED <<there, done, intent>>
        /\ UNCHANGED <<view, project, ids, losses>>

-----------------------------------------------------------------------------
(* The callbacks.                                                           *)

Release == task' = NoTask /\ op' = FALSE /\ fetched' = None /\ kept' = None

MutationSucceeds ==
    /\ task.kind = "mutation" /\ task.phase = "answered"
    /\ Release /\ retry' = NoRetry
    /\ snapshot' = fetched
    /\ intent' = NoIntent
    /\ UNCHANGED <<online, armed, dialog, there, done, late, project, ids, losses>>

Lost == losses < MaxLosses /\ losses' = losses + 1

\* A refusal, or an answer that does not come: the id is kept for another try.
MutationFails ==
    /\ task.kind = "mutation"
    /\ IF task.phase = "sent" THEN late' \in {late, late \cup {[sig |-> task.sig, id |-> task.id]}}
                              ELSE UNCHANGED late
    /\ Lost
    /\ Release
    /\ UNCHANGED <<online, snapshot, retry, armed, dialog, there, done, intent, project, ids>>

\* Mutant: a folder counts when it is asked for.
CreationCountsAhead ==
    /\ task.kind = "project" /\ task.phase = "answered"
    /\ task' = [task EXCEPT !.phase = "sent", !.made = TRUE, !.created = @ + 1]
    /\ task.created < task.folders
    /\ kept' = fetched /\ fetched' = None
    /\ UNCHANGED <<online, snapshot, op, retry, armed, dialog, there, done, late, intent, project,
                   ids, losses>>

CreationGoesOn ==
    /\ task.kind = "project" /\ task.phase = "answered"
    /\ LET created == IF task.made THEN task.created + 1 ELSE 0
       IN  /\ created < task.folders
           /\ task' = [task EXCEPT !.phase = "sent", !.made = TRUE, !.created = created]
    /\ kept' = fetched /\ fetched' = None
    /\ UNCHANGED <<online, snapshot, op, retry, armed, dialog, there, done, late, intent, project,
                   ids, losses>>

CreationEnds(created, snap) ==
    /\ Release
    /\ snapshot' = snap
    /\ project' = [project EXCEPT !.reported = created]
    /\ UNCHANGED <<online, retry, armed, dialog, there, done, late, intent, ids>>

CreationCompletes ==
    /\ task.kind = "project" /\ task.phase = "answered"
    /\ task.made /\ task.created + 1 = task.folders
    /\ CreationEnds(task.folders, fetched)
    /\ UNCHANGED losses

\* The project is there, a folder is not: what was made is kept and counted.
CreationStops ==
    /\ task.kind = "project" /\ task.made
    /\ Lost
    /\ CreationEnds(task.created, kept)

ProjectFails ==
    /\ task.kind = "project" /\ ~task.made
    /\ Lost
    /\ Release
    /\ UNCHANGED <<online, snapshot, retry, armed, dialog, there, done, late, intent, project, ids>>

-----------------------------------------------------------------------------
(* The session.                                                             *)

\* clear_connection_bound_state keeps the id of an uncertain operation;
\* connect, the user's button, starts anew.
Disconnect ==
    /\ online /\ online' = FALSE
    /\ Lost
    /\ snapshot' = None /\ Release /\ armed' = None
    /\ IF task.kind = "mutation" /\ task.phase = "sent"
       THEN late' \in {late, late \cup {[sig |-> task.sig, id |-> task.id]}}
       ELSE UNCHANGED late
    /\ \/ UNCHANGED <<retry, intent>>
       \/ retry' = NoRetry /\ intent' = NoIntent
    /\ UNCHANGED <<dialog, there, done, project, ids>>

Reconnect ==
    /\ ~online /\ online' = TRUE
    /\ snapshot' = there
    /\ UNCHANGED <<op, local, retry, armed, dialog, there, done, late, intent, project, ids, losses>>

Next ==
    \/ Create
    \/ (\E t \in Targets : Update(t) \/ ArmDelete(t) \/ Delete(t))
    \/ (\E t \in Targets, kind \in {"update", "delete"} : OpenDialog(kind, t))
    \/ ConfirmDialog \/ CancelDialog
    \/ OpenProjectDialog \/ PickFolders \/ FoldersPicked \/ RemoveFolder
    \/ CreateProjectWithSources
    \/ DaemonAccepts \/ DaemonCreates \/ DaemonReads \/ LateExecution
    \/ MutationSucceeds \/ MutationFails
    \/ CreationGoesOn \/ CreationCompletes \/ CreationStops \/ ProjectFails
    \/ Disconnect \/ Reconnect

Spec == Init /\ [][Next]_vars

-----------------------------------------------------------------------------
\* An operation submitted again and again until an answer comes is applied
\* once, as long as no other operation and no manual reconnection comes
\* between; calls that arrive late included.
RepeatedIsAppliedOnce == intent.times <= 1

\* What the user is told was created of a project's folders was created.
ReportedSourcesExist == project.reported <= project.spaces
=============================================================================
