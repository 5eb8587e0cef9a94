---------------------------- MODULE WorkspaceView ----------------------------
(***************************************************************************)
(* The files and the Git state shown of the selected workspace             *)
(* (workspace.rs), read by two tasks, one for files and one for Git, and   *)
(* read again when the daemon reports a change; and everything that        *)
(* changes the selection under them (resources.rs, tasks.rs).              *)
(*                                                                         *)
(* The daemon's side is a version per workspace and item: a read returns   *)
(* the version it found, a change raises the version of what it touches    *)
(* and reports itself in an event.  Answers and events come by different   *)
(* ways, in any order.                                                     *)
(***************************************************************************)
EXTENDS Selection, Naturals, Sequences

CONSTANTS
    Dirs, Files,        \* paths that can be listed, and read
    Root, ParentOf,     \* the directory opened first; [Dirs \cup Files -> Dirs]
    Changes,            \* what a change may touch: sets of directories and files
    MaxChanges,         \* bound on changes
    MaxSelections,      \* bound on what moves the selection
    MaxReads            \* bound on reads the user asks for

Items == Dirs \cup Files

WorkspaceAssumption ==
    /\ Dirs \cap Files = {} /\ Root \in Dirs /\ ParentOf \in [Items -> Dirs]
    /\ Changes \subseteq (SUBSET Items) \ {{}}
    /\ None \notin Items
    /\ MaxChanges \in Nat /\ MaxSelections \in Nat /\ MaxReads \in Nat

VARIABLES
    online, snapshot, sel,
    listing,        \* the directory shown:  None or [ws, path, version]
    file,           \* the file previewed
    queue,          \* workspace_refresh_queue: [dir, file, git]
    fileOp,         \* file_operation_target: None or the path being read
    fileTask,       \* file_task: None or [ws, path, version]; 0: no answer yet
    git,            \* the status shown: None or [ws, version]
    gitOp,          \* git_operation_state
    gitTask,
    version,        \* the daemon's: of each item of each workspace
    gitVersion,
    events,         \* WorkspaceChanged on their way to the view
    dirFailed,      \* the last read of a directory, the last of the status failed
    gitFailed,
    strayed,        \* history: the selection moved and the panes were not cleared
    moves, reads

files  == <<listing, file, fileOp, fileTask, dirFailed>>
gits   == <<git, gitOp, gitTask, gitFailed>>
daemon == <<version, gitVersion, events>>
vars   == <<online, snapshot, sel, files, gits, queue, daemon, strayed, moves, reads>>

NoQueue == [dir |-> None, file |-> None, git |-> FALSE]

\* The fixed resources of the daemon; an archived one is not active.
World == [projects |-> Projects, workspaces |-> Workspaces,
          active |-> Workspaces, agents |-> Agents]

Views == {World} \cup
    {[World EXCEPT !.workspaces = @ \ {w}, !.active = @ \ {w},
                   !.agents = @ \ {a \in Agents : WorkspaceOf[a] = w}] : w \in Workspaces}

Init ==
    /\ online = TRUE
    /\ snapshot = World
    /\ sel = ReconcileSelection(World, Selected(None, None, None))
    /\ listing = None /\ file = None /\ fileOp = None /\ fileTask = None
    /\ git = None /\ gitOp = "Idle" /\ gitTask = None
    /\ queue = NoQueue
    /\ version = [w \in Workspaces |-> [i \in Items |-> 1]]
    /\ gitVersion = [w \in Workspaces |-> 1]
    /\ events = <<>>
    /\ dirFailed = FALSE /\ gitFailed = FALSE /\ strayed = FALSE
    /\ moves = 0 /\ reads = 0

-----------------------------------------------------------------------------
(* Reading.  clear_workspace_files and clear_workspace_git drop the tasks:  *)
(* the answer of a dropped task is nobody's.                                *)

ClearWorkspace ==
    /\ listing' = None /\ file' = None /\ fileOp' = None /\ fileTask' = None
    /\ git' = None /\ gitOp' = "Idle" /\ gitTask' = None
    /\ queue' = NoQueue
    /\ strayed' = FALSE
    /\ UNCHANGED <<dirFailed, gitFailed>>

CanRead == online /\ sel.workspace # None

\* load_workspace_directory and load_workspace_file, past their guards: a
\* preview is closed whatever is read.
Read(path) ==
    /\ fileOp' = path
    /\ fileTask' = [ws |-> sel.workspace, path |-> path, version |-> 0]
    /\ file' = None

ReadGit(op) ==
    /\ gitOp' = op
    /\ gitTask' = [ws |-> sel.workspace, version |-> 0]

\* run_pending_workspace_file_refresh when no read runs: a directory first.
\* What was taken from the queue is gone even if it cannot be read.
RunPendingFiles(q) ==
    IF q.dir = None /\ q.file = None
    THEN queue' = q /\ fileOp' = None /\ fileTask' = None /\ UNCHANGED file
    ELSE LET path == IF q.dir # None THEN q.dir ELSE q.file
         IN  /\ queue' = IF q.dir # None THEN [q EXCEPT !.dir = None]
                                         ELSE [q EXCEPT !.file = None]
             /\ IF CanRead THEN Read(path)
                ELSE fileOp' = None /\ fileTask' = None /\ UNCHANGED file

RunPendingGit(q) ==
    IF q.git
    THEN /\ queue' = [q EXCEPT !.git = FALSE]
         /\ IF CanRead THEN ReadGit("LoadingStatus") ELSE gitOp' = "Idle" /\ gitTask' = None
    ELSE queue' = q /\ gitOp' = "Idle" /\ gitTask' = None

\* What the files pane has buttons for: the root while nothing is listed, then
\* the directory's entries, its parent, and itself again.
OfferedPath(path) ==
    /\ CanRead /\ snapshot # None /\ fileOp = None
    /\ sel.workspace \in snapshot.workspaces
    /\ IF listing = None THEN path = Root
       ELSE path \in {listing.path, ParentOf[listing.path]} \/ ParentOf[path] = listing.path

\* What the changes pane has buttons for: the status, and once it is shown the
\* diff of a path in it.
OfferedGit(op) ==
    /\ CanRead /\ snapshot # None /\ gitOp = "Idle"
    /\ sel.workspace \in snapshot.workspaces
    /\ op = "LoadingDiff" => git # None

\* The user opens a directory or a file ...
OpenPath(path) ==
    /\ reads < MaxReads /\ reads' = reads + 1
    /\ OfferedPath(path)
    /\ Read(path)
    /\ UNCHANGED <<online, snapshot, sel, listing, dirFailed, gits, queue, daemon, strayed, moves>>

\* ... or asks for the Git status or one path's diff.
OpenGit(op) ==
    /\ reads < MaxReads /\ reads' = reads + 1
    /\ OfferedGit(op)
    /\ ReadGit(op)
    /\ UNCHANGED <<online, snapshot, sel, files, git, gitFailed, queue, daemon, strayed, moves>>

\* The daemon looks, and answers with what it found.
DaemonReads ==
    /\ fileTask # None /\ fileTask.version = 0
    /\ fileTask' = [fileTask EXCEPT !.version = version[fileTask.ws][fileTask.path]]
    /\ UNCHANGED <<online, snapshot, sel, listing, file, fileOp, dirFailed, gits, queue,
                   daemon, strayed, moves, reads>>

DaemonReadsGit ==
    /\ gitTask # None /\ gitTask.version = 0
    /\ gitTask' = [gitTask EXCEPT !.version = gitVersion[gitTask.ws]]
    /\ UNCHANGED <<online, snapshot, sel, files, git, gitOp, gitFailed, queue,
                   daemon, strayed, moves, reads>>

\* The answer is for the workspace of the request.  When that one is not
\* selected any more the callback returns, and nothing else changes.
AnswerOfOther(task) == task.ws # sel.workspace

ApplyRead ==
    /\ fileTask # None /\ fileTask.version # 0
    /\ IF AnswerOfOther(fileTask)
       THEN fileTask' = None /\ UNCHANGED <<listing, file, fileOp, dirFailed, queue>>
       ELSE IF fileTask.path \in Dirs
               THEN /\ listing' = fileTask
                    /\ dirFailed' = FALSE
                    /\ RunPendingFiles(queue)
               ELSE /\ UNCHANGED <<listing, dirFailed>>
                    /\ IF queue.dir = None /\ queue.file = None
                       THEN /\ file' = fileTask /\ fileOp' = None /\ fileTask' = None
                            /\ UNCHANGED queue
                       ELSE RunPendingFiles(queue)
    /\ UNCHANGED <<online, snapshot, sel, gits, daemon, strayed, moves, reads>>

\* An error, or an answer for another path: what was shown stays.
ReadFails ==
    /\ fileTask # None
    /\ IF AnswerOfOther(fileTask)
       THEN fileTask' = None /\ UNCHANGED <<file, fileOp, dirFailed, queue>>
       ELSE /\ dirFailed' = (dirFailed \/ fileTask.path \in Dirs)
            /\ RunPendingFiles(queue)
    /\ UNCHANGED <<online, snapshot, sel, listing, gits, daemon, strayed, moves, reads>>

ApplyGit ==
    /\ gitTask # None /\ gitTask.version # 0
    /\ IF AnswerOfOther(gitTask)
       THEN gitTask' = None /\ UNCHANGED <<git, gitOp, gitFailed, queue>>
       ELSE /\ gitFailed' = (gitFailed /\ gitOp # "LoadingStatus")
            /\ git' = IF gitOp = "LoadingStatus" THEN gitTask ELSE git
            /\ RunPendingGit(queue)
    /\ UNCHANGED <<online, snapshot, sel, files, daemon, strayed, moves, reads>>

GitFails ==
    /\ gitTask # None
    /\ IF AnswerOfOther(gitTask)
       THEN gitTask' = None /\ UNCHANGED <<gitOp, gitFailed, queue>>
       ELSE /\ gitFailed' = (gitFailed \/ gitOp = "LoadingStatus")
            /\ RunPendingGit(queue)
    /\ UNCHANGED <<online, snapshot, sel, files, git, daemon, strayed, moves, reads>>

-----------------------------------------------------------------------------
(* Changes.                                                                 *)

\* Something in workspace w changes; the daemon reports it to who is online.
Change(w, touched) ==
    /\ gitVersion[w] <= MaxChanges
    /\ version' = [version EXCEPT ![w] =
                      [i \in Items |-> IF i \in touched THEN @[i] + 1 ELSE @[i]]]
    /\ gitVersion' = [gitVersion EXCEPT ![w] = @ + 1]
    /\ events' = IF online THEN Append(events, [ws |-> w, touched |-> touched]) ELSE events
    /\ UNCHANGED <<online, snapshot, sel, files, gits, queue, strayed, moves, reads>>

ShownDir  == IF fileOp \in Dirs THEN fileOp
             ELSE IF listing # None THEN listing.path ELSE None
ShownFile == IF fileOp \in Files THEN fileOp
             ELSE IF file # None THEN file.path ELSE None

\* Mutant: a change while something is read is taken as already seen.
QueuedUnlessReading(e) ==
    [dir  |-> IF fileOp = None /\ ShownDir  \in e.touched THEN ShownDir  ELSE queue.dir,
     file |-> IF fileOp = None /\ ShownFile \in e.touched THEN ShownFile ELSE queue.file,
     git  |-> queue.git \/ git # None \/ gitOp # "Idle"]

\* What the queue holds after the event: of each kind the newest target.
Queued(e) ==
    [dir  |-> IF ShownDir  \in e.touched THEN ShownDir  ELSE queue.dir,
     file |-> IF ShownFile \in e.touched THEN ShownFile ELSE queue.file,
     git  |-> queue.git \/ git # None \/ gitOp # "Idle"]

\* The two queues are run one after the other, each unless it is reading.
ApplyWorkspaceChanged ==
    /\ events # <<>>
    /\ events' = Tail(events)
    /\ IF ~online \/ sel.workspace # Head(events).ws
       THEN UNCHANGED <<files, gits, queue>>
       ELSE LET q      == Queued(Head(events))
                runDir == fileOp = None /\ q.dir # None
                runFile == fileOp = None /\ q.dir = None /\ q.file # None
                runGit == gitOp = "Idle" /\ q.git
            IN  /\ queue' = [dir  |-> IF runDir THEN None ELSE q.dir,
                             file |-> IF runFile THEN None ELSE q.file,
                             git  |-> q.git /\ ~runGit]
                /\ IF runDir THEN Read(q.dir)
                   ELSE IF runFile THEN Read(q.file)
                   ELSE UNCHANGED <<file, fileOp, fileTask>>
                /\ IF runGit THEN ReadGit("LoadingStatus") ELSE UNCHANGED <<gitOp, gitTask>>
                /\ UNCHANGED <<listing, git, dirFailed, gitFailed>>
    /\ UNCHANGED <<online, snapshot, sel, version, gitVersion, strayed, moves, reads>>

-----------------------------------------------------------------------------
(* The selection moves.                                                     *)

Moves == moves < MaxSelections /\ moves' = moves + 1

\* Everybody who clears the panes does so when the workspace is another one.
SelectAndClear(new) ==
    /\ Moves
    /\ sel' = new
    /\ IF new.workspace # sel.workspace THEN ClearWorkspace
       ELSE UNCHANGED <<files, gits, queue, strayed>>
    /\ UNCHANGED <<online, daemon, reads>>

SidebarSelects ==
    /\ snapshot # None
    /\ UNCHANGED snapshot
    /\ \/ \E p \in snapshot.projects :
             \/ SelectAndClear(SelectProject(snapshot, p))
             \/ SelectAndClear(OpenNewTaskForProject(snapshot, p))
       \/ \E w \in snapshot.workspaces : SelectAndClear(SelectWorkspace(snapshot, sel, w))
       \/ \E a \in snapshot.agents : SelectAndClear(SelectAgent(snapshot, sel, a))

\* A snapshot arrives: of a session, of a mutation, of a provider switch.
SnapshotArrives ==
    /\ online
    /\ \E snap \in Views :
          /\ snapshot' = snap
          /\ SelectAndClear(ReconcileSelection(snap, sel))

\* run_mutation's answer: what was created is selected, then repaired.
CreatedSelects ==
    /\ online /\ snapshot # None
    /\ \E snap \in Views :
          /\ snapshot' = snap
          /\ \/ \E p \in snap.projects :
                   SelectAndClear(ReconcileSelection(snap, Selected(p, None, sel.agent)))
             \/ \E w \in snap.workspaces :
                   SelectAndClear(ReconcileSelection(snap, Selected(sel.project, w, None)))
             \/ \E a \in snap.agents :
                   SelectAndClear(ReconcileSelection(snap, [sel EXCEPT !.agent = a]))

\* The new-task page selects, and nobody clears: choosing a workspace there,
\* creating a task (create_new_task), and a failed creation, which selects
\* before reconcile_selection remembers what was selected.
NewTaskSelects ==
    /\ online /\ snapshot # None /\ sel.project \in snapshot.projects
    /\ Moves
    /\ \/ \E w \in WorkspacesIn(snapshot, sel.project) \cap snapshot.active :
             sel' = ChooseNewTaskWorkspace(sel, w)
       \/ sel' = [sel EXCEPT !.workspace = NewTaskWorkspace(snapshot, sel)]
       \/ \E w \in WorkspacesIn(snapshot, sel.project) :
             sel' = ReconcileSelection(snapshot, [sel EXCEPT !.workspace = w])
    /\ strayed' = (strayed \/ sel'.workspace # sel.workspace)
    /\ UNCHANGED <<online, snapshot, files, gits, queue, daemon, reads>>

\* apply_connection_state and apply_connection_error.
Disconnect ==
    /\ online /\ Moves
    /\ online' = FALSE /\ snapshot' = None
    /\ ClearWorkspace
    /\ UNCHANGED <<sel, daemon, reads>>

\* A new session; its snapshot comes later, the events on their way still come.
Reconnect ==
    /\ ~online
    /\ online' = TRUE
    /\ UNCHANGED <<snapshot, sel, files, gits, queue, daemon, strayed, moves, reads>>

-----------------------------------------------------------------------------
Next ==
    \/ \E path \in Items : OpenPath(path)
    \/ \E op \in {"LoadingStatus", "LoadingDiff"} : OpenGit(op)
    \/ DaemonReads \/ DaemonReadsGit
    \/ ApplyRead \/ ReadFails \/ ApplyGit \/ GitFails
    \/ \E w \in Workspaces, touched \in Changes : Change(w, touched)
    \/ ApplyWorkspaceChanged
    \/ SidebarSelects \/ SnapshotArrives \/ CreatedSelects \/ NewTaskSelects
    \/ Disconnect \/ Reconnect

Spec == Init /\ [][Next]_vars

-----------------------------------------------------------------------------
Reported(w, touched) ==
    \E k \in 1..Len(events) : events[k].ws = w /\ events[k].touched \cap touched # {}

ListingIsFreshOrPending ==
    listing # None =>
        \/ listing.version = version[listing.ws][listing.path]
        \/ Reported(listing.ws, {listing.path})
        \/ queue.dir # None \/ fileOp # None \/ dirFailed

PreviewIsFreshOrPending ==
    file # None =>
        \/ file.version = version[file.ws][file.path]
        \/ Reported(file.ws, {file.path})
        \/ queue.file # None

GitIsFreshOrPending ==
    git # None =>
        \/ git.version = gitVersion[git.ws]
        \/ Reported(git.ws, Items)
        \/ queue.git \/ gitOp # "Idle" \/ gitFailed

\* What is shown out of date, a directory, a file or the Git status, is about
\* to be read again: the change is still on its way, queued, or a read runs; or
\* the last read failed and the user was told (README: the change events of
\* the current directory and file refresh them, one read at a time).  Excluded
\* are the panes after the new-task page moved the selection without clearing
\* them (ShownIsSelected): then an answer for the old workspace is dropped, and
\* they stay as they are until the selection is changed by something that does.
ShownIsFreshOrPending ==
    ~strayed => /\ ListingIsFreshOrPending
                /\ PreviewIsFreshOrPending
                /\ GitIsFreshOrPending

\* README: switching the workspace clears the file state at once.
ShownIsSelected ==
    /\ listing # None => listing.ws = sel.workspace
    /\ file # None => file.ws = sel.workspace
    /\ git # None => git.ws = sel.workspace
=============================================================================
