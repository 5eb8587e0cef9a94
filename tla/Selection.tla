------------------------------ MODULE Selection ------------------------------
(***************************************************************************)
(* What the sidebar has selected: a project, one of its workspaces, one of *)
(* that workspace's agents (resources.rs), and how a snapshot of the       *)
(* daemon's resources repairs it.                                          *)
(*                                                                         *)
(* A snapshot is a record of the sets it lists; "the first of" a list is a *)
(* fixed member of the set.                                                *)
(***************************************************************************)
CONSTANTS
    Projects, Workspaces, Agents,   \* resource ids
    ProjectOf,                      \* [Workspaces -> Projects]
    WorkspaceOf,                    \* [Agents -> Workspaces]
    None

SelectionAssumption ==
    /\ ProjectOf \in [Workspaces -> Projects]
    /\ WorkspaceOf \in [Agents -> Workspaces]
    /\ None \notin Projects \cup Workspaces \cup Agents

First(S) == IF S = {} THEN None ELSE CHOOSE x \in S : TRUE

WorkspacesIn(snap, p) == {w \in snap.workspaces : ProjectOf[w] = p}
AgentsIn(snap, w)     == {a \in snap.agents : WorkspaceOf[a] = w}

KeepOrFirst(x, S) == IF x \in S THEN x ELSE First(S)

Selected(p, w, a) == [project |-> p, workspace |-> w, agent |-> a]

ReconcileSelection(snap, sel) ==
    LET p == KeepOrFirst(sel.project, snap.projects)
        w == KeepOrFirst(sel.workspace, WorkspacesIn(snap, p))
    IN  Selected(p, w, KeepOrFirst(sel.agent, AgentsIn(snap, w)))

SelectProject(snap, p) ==
    LET w == First(WorkspacesIn(snap, p))
    IN  Selected(p, w, First(AgentsIn(snap, w)))

\* The button "new task" of a project: its first active workspace.
OpenNewTaskForProject(snap, p) ==
    Selected(p, First(WorkspacesIn(snap, p) \cap snap.active), None)

SelectWorkspace(snap, sel, w) ==
    Selected(IF w \in snap.workspaces THEN ProjectOf[w] ELSE sel.project,
             w, First(AgentsIn(snap, w)))

SelectAgent(snap, sel, a) ==
    IF a \notin snap.agents THEN [sel EXCEPT !.agent = a]
    ELSE LET w == WorkspaceOf[a]
         IN  Selected(IF w \in snap.workspaces THEN ProjectOf[w] ELSE sel.project, w, a)

\* choose_new_task_workspace leaves the agent as it is.
ChooseNewTaskWorkspace(sel, w) == [sel EXCEPT !.project = ProjectOf[w], !.workspace = w]

\* resolve_new_task_location: where a new task of the selected project goes.
\* None: its workspace has to be created first.
NewTaskWorkspace(snap, sel) ==
    LET fit == WorkspacesIn(snap, sel.project) \cap snap.active
    IN  KeepOrFirst(sel.workspace, fit)
=============================================================================
