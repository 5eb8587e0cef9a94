----------------------------- MODULE PagesProofs ------------------------------
(***************************************************************************)
(* What the pages beside the conversation show and do, for all projects,   *)
(* tasks, plans, plugins, devices, catalogs and hosts, and any number of   *)
(* operations and sessions.                                                *)
(*                                                                         *)
(* The pages share the session only, so each has an invariant of its own,  *)
(* that a step of the others leaves alone.                                 *)
(***************************************************************************)
EXTENDS MCPages, TLAPS

-----------------------------------------------------------------------------
(* Resource mutations.                                                      *)

\* What the user repeats goes out under one id, and was applied if it is done.
OneId ==
    /\ intent = [sig |-> intent.sig, ids |-> intent.ids, times |-> intent.times]
    /\ retry.sig = intent.sig
    /\ intent.ids \subseteq {retry.id}
    /\ intent.times \in {0, 1}
    /\ intent.times = 1 => retry.id \in done

\* The daemon has made what the creation counts, and at most one folder more.
CreationCounted ==
    /\ project = [spaces |-> project.spaces, reported |-> project.reported]
    /\ project.spaces \in Nat /\ project.reported \in Nat
    /\ project.reported <= project.spaces
    /\ task.kind = "project" =>
        /\ task = [kind |-> "project", phase |-> task.phase, folders |-> task.folders,
                   created |-> task.created, made |-> task.made]
        /\ task.created \in Nat /\ task.made \in BOOLEAN
        /\ task.phase \in {"sent", "accepted", "answered"}
        /\ ~task.made => task.created = 0
        /\ project.spaces = IF task.made /\ task.phase # "sent" THEN task.created + 1
                            ELSE task.created

MutationsInv == OneId /\ CreationCounted

\* run_mutation: the same operation goes out under the id it had.
LEMMA OneIdRun ==
    ASSUME OneId, NEW sig, Mut!RunMutation(sig)
    PROVE  OneId'
<1>1. PICK id : id = Mut!MutationId(sig)
  OBVIOUS
<1>2. /\ retry' = [sig |-> sig, id |-> id]
      /\ intent' = IF intent.sig = sig THEN [intent EXCEPT !.ids = @ \cup {id}]
                   ELSE [sig |-> sig, ids |-> {id}, times |-> 0]
      /\ UNCHANGED done
  BY <1>1 DEF Mut!RunMutation
<1>3. CASE intent.sig = sig
  <2>1. id = retry.id
    BY <1>1, <1>3 DEF OneId, Mut!MutationId
  <2>2. intent' = [sig |-> sig, ids |-> intent.ids \cup {id}, times |-> intent.times]
    BY <1>2, <1>3 DEF OneId
  <2> QED
    BY <1>2, <2>1, <2>2 DEF OneId
<1>4. CASE intent.sig # sig
  BY <1>2, <1>4 DEF OneId
<1> QED
  BY <1>3, <1>4

\* The daemon applies an id, or had applied it.
LEMMA OneIdApplied ==
    ASSUME OneId, UNCHANGED retry, NEW sig, NEW id, Mut!Applied(sig, id)
    PROVE  OneId'
<1>1. CASE id \in done
  BY <1>1 DEF Mut!Applied, OneId
<1>2. CASE id \notin done
  <2>1. done' = done \cup {id}
    BY <1>2 DEF Mut!Applied
  <2>2. CASE id \in intent.ids
    <3>1. id = retry.id /\ intent.times = 0
      BY <1>2, <2>2 DEF OneId
    <3>2. intent' = [intent EXCEPT !.times = @ + 1]
      BY <1>2, <2>2 DEF Mut!Applied
    <3>3. intent' = [sig |-> intent.sig, ids |-> intent.ids, times |-> 1]
      BY <3>1, <3>2 DEF OneId
    <3> QED
      BY <2>1, <3>1, <3>3 DEF OneId
  <2>3. CASE id \notin intent.ids
    <3>1. intent' = intent
      BY <1>2, <2>3 DEF Mut!Applied
    <3> QED
      BY <2>1, <3>1 DEF OneId
  <2> QED
    BY <2>2, <2>3
<1> QED
  BY <1>1, <1>2

LEMMA MutationsStart == Mut!Init => MutationsInv
BY DEF Mut!Init, Mut!NoIntent, Mut!NoRetry, Mut!NoProject, Mut!NoTask, MutationsInv, OneId,
       CreationCounted

\* No answer, no repetition: nothing of it is under way.
LEMMA OneIdAnew ==
    ASSUME retry' = Mut!NoRetry, intent' = Mut!NoIntent
    PROVE  OneId'
BY DEF OneId, Mut!NoRetry, Mut!NoIntent

LEMMA OneIdStays == ASSUME OneId, UNCHANGED <<retry, intent, done>> PROVE OneId'
BY DEF OneId

LEMMA OneIdStep == OneId /\ Mut!Next => OneId'
<1> SUFFICES ASSUME OneId, Mut!Next PROVE OneId'
  OBVIOUS
<1>1. CASE \E sig : Mut!RunMutation(sig)
  BY <1>1, OneIdRun
<1>2. CASE Mut!ConfirmDialog
  BY <1>1, <1>2, OneIdStays DEF Mut!ConfirmDialog, Mut!OnlyDialog
<1>3. CASE Mut!CreateProjectWithSources \/ Mut!MutationSucceeds
  BY <1>3, OneIdAnew, OneIdStays DEF Mut!CreateProjectWithSources, Mut!MutationSucceeds, OneId,
     Mut!NoRetry, Mut!NoIntent
<1>4. CASE Mut!DaemonAccepts \/ Mut!LateExecution
  <2>1. UNCHANGED retry /\ (UNCHANGED <<intent, done>> \/ \E sig, id : Mut!Applied(sig, id))
    BY <1>4 DEF Mut!DaemonAccepts, Mut!LateExecution, Mut!view
  <2> QED
    BY <2>1, OneIdApplied, OneIdStays
<1>5. CASE Mut!Disconnect
  BY <1>5, OneIdAnew, OneIdStays DEF Mut!Disconnect
<1>6. CASE UNCHANGED <<retry, intent, done>>
  BY <1>6, OneIdStays
<1>7. CASE Mut!DaemonReads
  BY <1>7, OneIdStays DEF Mut!DaemonReads
<1> QED
  BY <1>1, <1>2, <1>3, <1>4, <1>5, <1>6, <1>7
     DEF Mut!Next, Mut!Create, Mut!Update, Mut!ArmDelete, Mut!Delete, Mut!OpenDialog,
         Mut!OnlyDialog, Mut!CancelDialog, Mut!OpenProjectDialog, Mut!PickFolders,
         Mut!FoldersPicked, Mut!RemoveFolder, Mut!DaemonCreates, Mut!MutationFails,
         Mut!CreationGoesOn, Mut!CreationCompletes, Mut!CreationStops, Mut!CreationEnds,
         Mut!ProjectFails, Mut!Reconnect

\* Another task, or none, and what was counted stands.
LEMMA CountedApart ==
    ASSUME CreationCounted, UNCHANGED project, task'.kind # "project"
    PROVE  CreationCounted'
BY DEF CreationCounted

LEMMA CountedStays == ASSUME CreationCounted, UNCHANGED <<task, project>> PROVE CreationCounted'
BY DEF CreationCounted

\* The last answer, or an error after the project was made: the count is told.
LEMMA CountedTold ==
    ASSUME CreationCounted, NEW n \in Nat, n <= project.spaces, NEW snap,
           Mut!CreationEnds(n, snap)
    PROVE  CreationCounted'
<1>1. project' = [spaces |-> project.spaces, reported |-> n]
  BY DEF CreationCounted, Mut!CreationEnds
<1>2. task'.kind # "project"
  BY DEF Mut!CreationEnds, Mut!Release, Mut!NoTask
<1> QED
  BY <1>1, <1>2 DEF CreationCounted

\* create_project_resources: call and answer, one folder at a time.
LEMMA CountedCalls ==
    ASSUME CreationCounted, task.kind = "project",
           Mut!DaemonCreates \/ Mut!DaemonReads \/ Mut!CreationGoesOn
    PROVE  CreationCounted'
<1>1. PICK f, c, m, p : /\ task = [kind |-> "project", phase |-> p, folders |-> f,
                                   created |-> c, made |-> m]
                        /\ c \in Nat /\ m \in BOOLEAN /\ (~m => c = 0)
                        /\ p \in {"sent", "accepted", "answered"}
                        /\ project.spaces = IF m /\ p # "sent" THEN c + 1 ELSE c
  BY DEF CreationCounted
<1>2. CASE Mut!DaemonCreates
  <2>1. p = "sent" /\ task' = [kind |-> "project", phase |-> "accepted", folders |-> f,
                               created |-> c, made |-> m]
    BY <1>1, <1>2 DEF Mut!DaemonCreates
  <2>2. project' = [spaces |-> IF m THEN c + 1 ELSE c, reported |-> project.reported]
    BY <1>1, <1>2, <2>1 DEF Mut!DaemonCreates, CreationCounted
  <2> QED
    BY <1>1, <2>1, <2>2 DEF CreationCounted
<1>3. CASE Mut!CreationGoesOn
  <2>1. PICK n : n = IF m THEN c + 1 ELSE 0
    OBVIOUS
  <2>2. p = "answered" /\ UNCHANGED project
        /\ task' = [kind |-> "project", phase |-> "sent", folders |-> f, created |-> n,
                    made |-> TRUE]
    BY <1>1, <1>3, <2>1 DEF Mut!CreationGoesOn
  <2> QED
    BY <1>1, <2>1, <2>2 DEF CreationCounted
<1>4. CASE Mut!DaemonReads
  <2>1. p = "accepted" /\ UNCHANGED project
        /\ task' = [kind |-> "project", phase |-> "answered", folders |-> f, created |-> c,
                    made |-> m]
    BY <1>1, <1>4 DEF Mut!DaemonReads
  <2> QED
    BY <1>1, <2>1 DEF CreationCounted
<1> QED
  BY <1>2, <1>3, <1>4

LEMMA CountedStep == CreationCounted /\ Mut!Next => CreationCounted'
<1> SUFFICES ASSUME CreationCounted, Mut!Next PROVE CreationCounted'
  OBVIOUS
<1>1. CASE \E sig : Mut!RunMutation(sig)
  BY <1>1, CountedApart DEF Mut!RunMutation
<1>2. CASE Mut!ConfirmDialog
  BY <1>1, <1>2, CountedStays DEF Mut!ConfirmDialog, Mut!OnlyDialog, Mut!local
<1>3. CASE Mut!CreateProjectWithSources
  <2>1. /\ task' = [kind |-> "project", phase |-> "sent", folders |-> dialog.folders,
                    created |-> 0, made |-> FALSE]
        /\ project' = [spaces |-> 0, reported |-> 0]
    BY <1>3 DEF Mut!CreateProjectWithSources, Mut!NoProject
  <2> QED
    BY <2>1 DEF CreationCounted
<1>4. CASE Mut!DaemonAccepts
  <2>1. UNCHANGED project /\ task.kind = "mutation"
    BY <1>4 DEF Mut!DaemonAccepts
  <2>2. task' = [task EXCEPT !.phase = "accepted"]
    BY <1>4 DEF Mut!DaemonAccepts
  <2>3. task'.kind # "project"
    BY <2>1, <2>2
  <2> QED
    BY <2>1, <2>3, CountedApart
<1>5. CASE Mut!DaemonCreates \/ Mut!CreationGoesOn
  <2>1. task.kind = "project"
    BY <1>5 DEF Mut!DaemonCreates, Mut!CreationGoesOn
  <2> QED
    BY <1>5, <2>1, CountedCalls
<1>6. CASE Mut!CreationCompletes
  <2>1. Mut!CreationEnds(task.folders, fetched) /\ task.folders = task.created + 1 /\ task.made
        /\ task.kind = "project" /\ task.phase = "answered"
    BY <1>6 DEF Mut!CreationCompletes
  <2>2. task.folders \in Nat /\ task.folders <= project.spaces
    BY <2>1 DEF CreationCounted
  <2>3. PICK n : n = task.folders
    OBVIOUS
  <2>4. PICK snap : snap = fetched
    OBVIOUS
  <2> QED
    BY <2>1, <2>2, <2>3, <2>4, CountedTold
<1>7. CASE Mut!CreationStops
  <2>1. Mut!CreationEnds(task.created, kept) /\ task.kind = "project" /\ task.made
    BY <1>7 DEF Mut!CreationStops
  <2>2. task.created \in Nat /\ task.created <= project.spaces
    BY <2>1 DEF CreationCounted
  <2>3. PICK n : n = task.created
    OBVIOUS
  <2>4. PICK snap : snap = kept
    OBVIOUS
  <2> QED
    BY <2>1, <2>2, <2>3, <2>4, CountedTold
<1>8. CASE task'.kind # "project" /\ UNCHANGED project
  BY <1>8, CountedApart
<1>9. CASE UNCHANGED <<task, project>>
  BY <1>9, CountedStays
<1>10. Mut!NoTask.kind # "project"
  BY DEF Mut!NoTask
<1>11. CASE Mut!MutationSucceeds \/ Mut!MutationFails \/ Mut!ProjectFails \/ Mut!Disconnect
  BY <1>8, <1>10, <1>11
     DEF Mut!MutationSucceeds, Mut!MutationFails, Mut!ProjectFails, Mut!Disconnect, Mut!Release
<1>12. CASE Mut!LateExecution \/ Mut!Reconnect \/ Mut!CancelDialog \/ Mut!OpenProjectDialog
              \/ Mut!PickFolders \/ Mut!FoldersPicked \/ Mut!RemoveFolder
  BY <1>9, <1>12
     DEF Mut!LateExecution, Mut!view, Mut!local, Mut!Reconnect, Mut!CancelDialog, Mut!OpenProjectDialog,
         Mut!PickFolders, Mut!FoldersPicked, Mut!RemoveFolder, Mut!OnlyDialog
<1>13. ASSUME NEW t, \/ Mut!Update(t) \/ Mut!ArmDelete(t) \/ Mut!Delete(t)
                     \/ \E kind : Mut!OpenDialog(kind, t)
       PROVE  CreationCounted'
  BY <1>1, <1>9, <1>13
     DEF Mut!Update, Mut!ArmDelete, Mut!Delete, Mut!OpenDialog, Mut!OnlyDialog, Mut!local
<1>14. CASE Mut!DaemonReads
  <2>1. CASE task.kind = "project"
    BY <1>14, <2>1, CountedCalls
  <2>2. CASE task.kind # "project"
    <3>1. task' = [task EXCEPT !.phase = "answered"] /\ UNCHANGED project
      BY <1>14 DEF Mut!DaemonReads
    <3>2. task'.kind # "project"
      BY <1>14, <2>2, <3>1 DEF Mut!DaemonReads
    <3> QED
      BY <3>1, <3>2, CountedApart
  <2> QED
    BY <2>1, <2>2
<1> QED
  BY <1>1, <1>2, <1>3, <1>4, <1>5, <1>6, <1>7, <1>11, <1>12, <1>13, <1>14 DEF Mut!Next, Mut!Create

LEMMA MutationsStep == MutationsInv /\ Mut!Next => MutationsInv'
BY OneIdStep, CountedStep DEF MutationsInv

-----------------------------------------------------------------------------
(* Integrations.                                                            *)

Decisions(p) ==
    /\ p = [observe |-> p.observe, actions |-> p.actions, allowed |-> p.allowed,
            enabled |-> p.enabled, endpoint |-> p.endpoint, ssh |-> p.ssh]
    /\ p.actions \in BOOLEAN
    /\ p.actions => p.observe /\ p.allowed # {}
    /\ \A c \in p.ssh : c.id \in Int!Profiles

\* What is shown as being tested is being tested, by the id the test is of.
Probes ==
    /\ accessTask \in BOOLEAN /\ (access = "checking" => accessTask)
    /\ connector = "checking" => connectorTask # None
    /\ DOMAIN tests = Int!Profiles
    /\ \A i \in Int!Profiles : tests[i] = "testing" => testTask = i

IntegrationsInv == Decisions(prefs) /\ Decisions(saved) /\ Probes /\ iIds \in Nat

LEMMA IntegrationsStart == Int!Init => IntegrationsInv
<1> SUFFICES ASSUME Int!Init PROVE IntegrationsInv
  OBVIOUS
<1>1. prefs = [observe |-> FALSE, actions |-> FALSE, allowed |-> {}, enabled |-> FALSE,
               endpoint |-> DefaultEndpoint, ssh |-> {}]
      /\ saved = prefs
  BY DEF Int!Init
<1>2. Decisions(prefs)
  BY <1>1 DEF Decisions
<1>3. Probes /\ iIds \in Nat
  BY DEF Int!Init, Probes
<1> QED
  BY <1>1, <1>2, <1>3 DEF IntegrationsInv

LEMMA IntegrationsImply == IntegrationsInv => ActionsAreLimited /\ Int!ProbesHaveTasks
BY DEF IntegrationsInv, Decisions, Probes, ActionsAreLimited, Int!ActionsAreLimited,
       Int!ProbesHaveTasks

\* The user decides: the decision is kept, in the file too if that is written.
LEMMA PersistInv ==
    ASSUME IntegrationsInv, NEW p, Decisions(p), Int!Persist(p), Probes', iIds' \in Nat
    PROVE  IntegrationsInv'
BY DEF IntegrationsInv, Int!Persist

LEMMA SameProbes ==
    ASSUME Probes, UNCHANGED <<access, accessTask, connector, connectorTask, tests, testTask>>
    PROVE  Probes'
BY DEF Probes

LEMMA SameDecisions ==
    ASSUME IntegrationsInv, UNCHANGED <<prefs, saved, iIds>>, Probes'
    PROVE  IntegrationsInv'
BY DEF IntegrationsInv

LEMMA ComputerStep ==
    ASSUME IntegrationsInv,
           \/ Int!CheckComputerAccess \/ Int!AccessChecked
           \/ \E on \in BOOLEAN : Int!SetObservation(on) \/ Int!SetActions(on)
           \/ \E a \in Applications : Int!AddApplication(a) \/ Int!RemoveApplication(a)
    PROVE  IntegrationsInv'
<1>1. Probes /\ Decisions(prefs) /\ iIds \in Nat
  BY DEF IntegrationsInv
<1>2. PICK o, x, l, e, u, h : /\ prefs = [observe |-> o, actions |-> x, allowed |-> l,
                                          enabled |-> e, endpoint |-> u, ssh |-> h]
                              /\ x \in BOOLEAN /\ (x => o /\ l # {})
                              /\ \A c \in h : c.id \in Int!Profiles
  BY <1>1 DEF Decisions
<1> DEFINE with(o1, x1, l1) == [observe |-> o1, actions |-> x1, allowed |-> l1, enabled |-> e,
                                endpoint |-> u, ssh |-> h]
<1>3. \A o1, x1, l1 : x1 \in BOOLEAN /\ (x1 => o1 /\ l1 # {}) => Decisions(with(o1, x1, l1))
  BY <1>2 DEF Decisions
<1>4. ASSUME NEW o1, NEW x1 \in BOOLEAN, NEW l1, x1 => o1 /\ l1 # {},
             Int!Persist(with(o1, x1, l1)),
             UNCHANGED <<access, accessTask, connector, connectorTask, tests, testTask, iIds>>
      PROVE  IntegrationsInv'
  <2>1. PICK p : p = with(o1, x1, l1)
    OBVIOUS
  <2> QED
    BY <1>1, <1>3, <1>4, <2>1, PersistInv, SameProbes
<1>5. CASE Int!CheckComputerAccess \/ Int!AccessChecked
  <2>1. UNCHANGED <<prefs, saved, iIds>> /\ Probes'
    BY <1>1, <1>5 DEF Int!CheckComputerAccess, Int!AccessChecked, Int!ComputerOffers,
       Int!browser, Int!ssh, Probes
  <2> QED
    BY <2>1, SameDecisions
<1>6. ASSUME NEW on \in BOOLEAN, Int!SetObservation(on) PROVE IntegrationsInv'
  <2>1. UNCHANGED <<access, accessTask, connector, connectorTask, tests, testTask, iIds>>
    BY <1>6 DEF Int!SetObservation, Int!ComputerOffers, Int!computer, Int!browser, Int!ssh
  <2>2. PICK b : b = (prefs.actions /\ on)
    OBVIOUS
  <2>3. Int!Persist([prefs EXCEPT !.observe = on, !.actions = b])
    BY <1>6, <2>2 DEF Int!SetObservation
  <2>4. [prefs EXCEPT !.observe = on, !.actions = b] = with(on, b, l)
    <3>1. PICK w : w = [prefs EXCEPT !.observe = on]
      OBVIOUS
    <3>2. w = with(on, x, l)
      BY <1>2, <3>1
    <3>3. [w EXCEPT !.actions = b] = with(on, b, l)
      BY <3>2
    <3> QED
      BY <3>1, <3>3
  <2>5. b \in BOOLEAN /\ (b => on)
    BY <2>2
  <2>6. b => l # {}
    BY <1>2, <2>2
  <2> QED
    BY <1>4, <2>1, <2>3, <2>4, <2>5, <2>6
<1>7. ASSUME NEW on \in BOOLEAN, Int!SetActions(on) PROVE IntegrationsInv'
  <2>1. UNCHANGED <<access, accessTask, connector, connectorTask, tests, testTask, iIds>>
    BY <1>7 DEF Int!SetActions, Int!ComputerOffers, Int!computer, Int!browser, Int!ssh
  <2>2. Int!Persist([prefs EXCEPT !.actions = on]) /\ prefs.observe /\ prefs.allowed # {}
    BY <1>7 DEF Int!SetActions, Int!ComputerOffers
  <2>3. [prefs EXCEPT !.actions = on] = with(o, on, l)
    BY <1>2
  <2>4. o /\ l # {}
    BY <1>2, <2>2
  <2> QED
    BY <1>4, <2>1, <2>2, <2>3, <2>4
<1>8. ASSUME NEW a, Int!AddApplication(a) PROVE IntegrationsInv'
  <2>1. /\ Int!Persist(with(o, x, l \cup {a}))
        /\ UNCHANGED <<access, accessTask, connector, connectorTask, tests, testTask, iIds>>
    BY <1>2, <1>8 DEF Int!AddApplication, Int!ComputerOffers, Int!computer, Int!browser, Int!ssh
  <2> QED
    BY <1>2, <1>4, <2>1
<1>9. ASSUME NEW a, Int!RemoveApplication(a) PROVE IntegrationsInv'
  <2>1. UNCHANGED <<access, accessTask, connector, connectorTask, tests, testTask, iIds>>
    BY <1>9 DEF Int!RemoveApplication, Int!ComputerOffers, Int!computer, Int!browser, Int!ssh
  <2>2. PICK b : b = (prefs.actions /\ prefs.allowed # {a})
    OBVIOUS
  <2>3. Int!Persist([prefs EXCEPT !.allowed = @ \ {a}, !.actions = b]) /\ a \in prefs.allowed
    BY <1>9, <2>2 DEF Int!RemoveApplication
  <2>4. [prefs EXCEPT !.allowed = @ \ {a}, !.actions = b] = with(o, b, l \ {a})
    <3>1. PICK w : w = [prefs EXCEPT !.allowed = @ \ {a}]
      OBVIOUS
    <3>2. w = with(o, x, l \ {a})
      BY <1>2, <3>1
    <3>3. [w EXCEPT !.actions = b] = with(o, b, l \ {a})
      BY <3>2
    <3> QED
      BY <3>1, <3>3
  <2>5. b \in BOOLEAN
    BY <2>2
  <2>6. b => o /\ l \ {a} # {}
    <3>1. b => x /\ l # {a} /\ a \in l
      BY <1>2, <2>2, <2>3
    <3> QED
      BY <1>2, <3>1
  <2> QED
    BY <1>4, <2>1, <2>3, <2>4, <2>5, <2>6
<1> QED
  BY <1>5, <1>6, <1>7, <1>8, <1>9

LEMMA BrowserStep ==
    ASSUME IntegrationsInv, PagesAssumption,
           \/ \E e \in Endpoints : Int!TypeEndpoint(e)
           \/ Int!TestConnector \/ Int!ConnectorTested \/ Int!ChooseBrowser
           \/ Int!LaunchControlledBrowser \/ \E on \in BOOLEAN : Int!SetBrowserEnabled(on)
    PROVE  IntegrationsInv'
<1>1. Probes /\ Decisions(prefs) /\ Decisions(saved) /\ iIds \in Nat
  BY DEF IntegrationsInv
<1>2. PICK o, x, l, e, u, h : /\ prefs = [observe |-> o, actions |-> x, allowed |-> l,
                                          enabled |-> e, endpoint |-> u, ssh |-> h]
                              /\ x \in BOOLEAN /\ (x => o /\ l # {})
                              /\ \A c \in h : c.id \in Int!Profiles
  BY <1>1 DEF Decisions
<1> DEFINE with(e1, u1) == [observe |-> o, actions |-> x, allowed |-> l, enabled |-> e1,
                            endpoint |-> u1, ssh |-> h]
<1>3. \A e1, u1 : Decisions(with(e1, u1))
  BY <1>2 DEF Decisions
<1>4. None \notin Loopback
  BY DEF PagesAssumption, Int!IntegrationsAssumption
<1>5. CASE (\E e1 \in Endpoints : Int!TypeEndpoint(e1)) \/ Int!TestConnector
             \/ Int!LaunchControlledBrowser
  <2>1. UNCHANGED <<prefs, saved, iIds>> /\ Probes'
    BY <1>1, <1>4, <1>5 DEF Int!TypeEndpoint, Int!TestConnector, Int!LaunchControlledBrowser,
       Int!BrowserOffers, Int!computer, Int!ssh, Probes
  <2> QED
    BY <2>1, SameDecisions
<1>6. CASE Int!ConnectorTested
  <2>1. UNCHANGED <<saved, iIds>> /\ Probes'
    BY <1>1, <1>6 DEF Int!ConnectorTested, Int!computer, Int!ssh, Probes
  <2>2. prefs' \in {with(e, input), with(FALSE, u)}
    BY <1>2, <1>6 DEF Int!ConnectorTested
  <2>3. Decisions(prefs')
    BY <1>3, <2>2
  <2> QED
    BY <1>1, <2>1, <2>3 DEF IntegrationsInv
<1>7. CASE Int!ChooseBrowser
  <2>1. Int!Persist(prefs) /\ UNCHANGED iIds /\ Probes'
    BY <1>1, <1>7 DEF Int!ChooseBrowser, Int!BrowserOffers, Int!computer, Int!ssh, Probes
  <2>2. PICK p : p = prefs
    OBVIOUS
  <2> QED
    BY <1>1, <2>1, <2>2, PersistInv
<1>8. ASSUME NEW on \in BOOLEAN, Int!SetBrowserEnabled(on) PROVE IntegrationsInv'
  <2>1. UNCHANGED <<access, accessTask, connector, connectorTask, tests, testTask, iIds>>
    BY <1>8 DEF Int!SetBrowserEnabled, Int!BrowserOffers, Int!computer, Int!browser, Int!ssh
  <2>2. PICK p : p = with(on, u)
    OBVIOUS
  <2>3. Int!Persist(p)
    BY <1>2, <1>8, <2>2 DEF Int!SetBrowserEnabled
  <2> QED
    BY <1>1, <1>3, <2>1, <2>2, <2>3, PersistInv, SameProbes
<1> QED
  BY <1>5, <1>6, <1>7, <1>8

LEMMA SshStep ==
    ASSUME IntegrationsInv, PagesAssumption,
           \/ \E h \in Hosts : Int!AddConnection(h)
           \/ \E p \in prefs.ssh :
                 Int!ArmRemoval(p) \/ Int!RemoveConnection(p) \/ Int!TestConnection(p)
           \/ Int!ConnectionTested
    PROVE  IntegrationsInv'
<1>1. Probes /\ Decisions(prefs) /\ Decisions(saved) /\ iIds \in Nat
  BY DEF IntegrationsInv
<1>2. PICK o, x, l, e, u, h : /\ prefs = [observe |-> o, actions |-> x, allowed |-> l,
                                          enabled |-> e, endpoint |-> u, ssh |-> h]
                              /\ x \in BOOLEAN /\ (x => o /\ l # {})
                              /\ \A c \in h : c.id \in Int!Profiles
  BY <1>1 DEF Decisions
<1> DEFINE with(h1) == [observe |-> o, actions |-> x, allowed |-> l, enabled |-> e,
                        endpoint |-> u, ssh |-> h1]
<1>3. \A h1 : (\A c \in h1 : c.id \in Int!Profiles) => Decisions(with(h1))
  BY <1>2 DEF Decisions
<1>4. MaxProfiles \in Nat
  BY DEF PagesAssumption, Int!IntegrationsAssumption
<1>5. ASSUME NEW host, Int!AddConnection(host) PROVE IntegrationsInv'
  <2>1. PICK c : c = [host |-> host, id |-> iIds + 1]
    OBVIOUS
  <2>2. PICK p : p = with(h \cup {c})
    OBVIOUS
  <2>3. Int!Persist(p) /\ iIds' \in Nat
    BY <1>1, <1>2, <1>5, <2>1, <2>2 DEF Int!AddConnection
  <2>4. UNCHANGED <<access, accessTask, connector, connectorTask, tests, testTask>>
    BY <1>5 DEF Int!AddConnection, Int!SshOffers, Int!computer, Int!browser
  <2>5. c.id \in Int!Profiles
    BY <1>1, <1>4, <1>5, <2>1 DEF Int!AddConnection, Int!Profiles
  <2>6. Decisions(p)
    BY <1>2, <1>3, <2>2, <2>5
  <2> QED
    BY <1>1, <2>3, <2>4, <2>6, PersistInv, SameProbes
<1>6. ASSUME NEW c \in prefs.ssh, Int!ArmRemoval(c) PROVE IntegrationsInv'
  <2>1. UNCHANGED <<prefs, saved, iIds, access, accessTask, connector, connectorTask, tests,
                    testTask>>
    BY <1>6 DEF Int!ArmRemoval, Int!SshOffers, Int!computer, Int!browser
  <2> QED
    BY <1>1, <2>1, SameProbes, SameDecisions
<1>7. ASSUME NEW c \in prefs.ssh, Int!RemoveConnection(c) PROVE IntegrationsInv'
  <2>1. PICK p : p = with(h \ {c})
    OBVIOUS
  <2>2. Int!Persist(p) /\ UNCHANGED <<iIds, access, accessTask, connector, connectorTask, testTask>>
        /\ tests' = [tests EXCEPT ![c.id] = "none"]
    BY <1>2, <1>7, <2>1 DEF Int!RemoveConnection, Int!SshOffers, Int!computer, Int!browser
  <2>3. Probes'
    BY <1>1, <2>2 DEF Probes
  <2>4. Decisions(p)
    BY <1>2, <1>3, <2>1
  <2> QED
    BY <1>1, <2>2, <2>3, <2>4, PersistInv
<1>8. ASSUME NEW c \in prefs.ssh, Int!TestConnection(c) PROVE IntegrationsInv'
  <2>1. UNCHANGED <<prefs, saved, iIds, access, accessTask, connector, connectorTask>>
        /\ tests' = [tests EXCEPT ![c.id] = "testing"] /\ testTask = 0 /\ testTask' = c.id
    BY <1>8 DEF Int!TestConnection, Int!SshOffers, Int!computer, Int!browser
  <2>2. \A i \in Int!Profiles : tests[i] # "testing"
    BY <1>1, <1>4, <2>1 DEF Probes, Int!Profiles
  <2>3. Probes'
    BY <1>1, <2>1, <2>2 DEF Probes
  <2> QED
    BY <2>1, <2>3, SameDecisions
<1>9. CASE Int!ConnectionTested
  <2>1. UNCHANGED <<prefs, saved, iIds, access, accessTask, connector, connectorTask>>
        /\ testTask' = 0
        /\ \E result \in {"reachable", "failed"} : tests' = [tests EXCEPT ![testTask] = result]
    BY <1>9 DEF Int!ConnectionTested, Int!computer, Int!browser
  <2>2. Probes'
    BY <1>1, <2>1 DEF Probes
  <2> QED
    BY <2>1, <2>2, SameDecisions
<1> QED
  BY <1>5, <1>6, <1>7, <1>8, <1>9

LEMMA IntegrationsStep ==
    ASSUME PagesAssumption PROVE IntegrationsInv /\ Int!Next => IntegrationsInv'
<1> SUFFICES ASSUME IntegrationsInv, Int!Next PROVE IntegrationsInv'
  OBVIOUS
<1>1. Probes /\ Decisions(prefs) /\ Decisions(saved) /\ iIds \in Nat
  BY DEF IntegrationsInv
<1>2. CASE Int!SaveTimer
  <2>1. saved' \in {prefs, saved}
        /\ UNCHANGED <<prefs, iIds, access, accessTask, connector, connectorTask, tests, testTask>>
    BY <1>2 DEF Int!SaveTimer, Int!computer, Int!browser, Int!ssh
  <2> QED
    BY <1>1, <2>1, SameProbes DEF IntegrationsInv
<1>3. CASE Int!Restart
  <2>1. prefs' = saved /\ UNCHANGED <<saved, iIds>> /\ Probes'
    BY <1>3 DEF Int!Restart, Probes
  <2> QED
    BY <1>1, <2>1 DEF IntegrationsInv
<1> QED
  BY <1>2, <1>3, ComputerStep, BrowserStep, SshStep DEF Int!Next

-----------------------------------------------------------------------------
(* Paired devices.                                                          *)

DevicePhases == {"sent", "done"}

\* What device_task waits for.
DeviceCalls ==
    [kind : {"none"}] \cup [kind : {"load"}, phase : DevicePhases, answer : SUBSET DeviceIds]
    \cup [kind : {"pair"}, phase : DevicePhases]
    \cup [kind : {"revoke"}, phase : DevicePhases, device : DeviceIds]

\* A list on its way to the view was the daemon's when it was read; only a
\* revocation cut off earlier can have made it wrong.
AnswerIsRecent ==
    call.kind = "load" /\ call.phase = "done" => call.answer \subseteq paired \cup dLate

\* The flag that disables the buttons stands for the task: a second call
\* would cancel the first, whose effect nobody would see.
DevicesInv ==
    /\ call \in DeviceCalls /\ paired \subseteq DeviceIds
    /\ dInFlight <=> call.kind # "none"
    /\ AnswerIsRecent
    /\ Dev!ShownDevicesArePaired
\* A call the user starts, with a list, an offer or a device: no answer yet.
LEMMA DevicesStart ==
    ASSUME NEW c \in DeviceCalls, c.kind # "none", c.kind = "load" => c.phase = "sent",
           Dev!Start(c), DevicesInv, call.kind # "revoke"
    PROVE  DevicesInv'
BY DEF Dev!Start, DevicesInv, AnswerIsRecent, Dev!ShownDevicesArePaired

\* Every step of the page, of the daemon and of the phones.
LEMMA DevicesStep == DevicesInv /\ Dev!Next => DevicesInv'
<1> SUFFICES ASSUME DevicesInv, Dev!Next PROVE DevicesInv'
  OBVIOUS
<1> USE DEF DevicesInv
<1>1. CASE Dev!LoadDevices
  <2>1. call.kind = "none"
    BY <1>1 DEF Dev!LoadDevices, Dev!Offered
  <2> QED
    BY <1>1, <2>1, DevicesStart DEF Dev!LoadDevices, DeviceCalls, DevicePhases
<1>2. CASE Dev!CreatePairingOffer
  <2>1. call.kind = "none"
    BY <1>2 DEF Dev!CreatePairingOffer, Dev!Offered
  <2> QED
    BY <1>2, <2>1, DevicesStart DEF Dev!CreatePairingOffer, DeviceCalls, DevicePhases
<1>3. ASSUME NEW x \in DeviceIds, Dev!RevokeDevice(x) PROVE DevicesInv'
  <2>1. call.kind = "none"
    BY <1>3 DEF Dev!RevokeDevice, Dev!Offered
  <2> QED
    BY <1>3, <2>1, DevicesStart DEF Dev!RevokeDevice, DeviceCalls, DevicePhases
<1>4. ASSUME NEW x \in DeviceIds, Dev!ArmRevoke(x) PROVE DevicesInv'
  BY <1>4 DEF Dev!ArmRevoke, AnswerIsRecent, Dev!ShownDevicesArePaired
<1>5. ASSUME NEW x \in DeviceIds, Dev!PhonePairs(x) PROVE DevicesInv'
  BY <1>5 DEF Dev!PhonePairs, AnswerIsRecent, Dev!ShownDevicesArePaired
<1>6. ASSUME NEW x \in DeviceIds, Dev!LateRevocation(x) PROVE DevicesInv'
  BY <1>6 DEF Dev!LateRevocation, Dev!view, AnswerIsRecent, Dev!ShownDevicesArePaired
<1>7. CASE Dev!DaemonExecutes
  <2>1. CASE call.kind = "load"
    <3>1. call' = [call EXCEPT !.phase = "done", !.answer = paired] /\ UNCHANGED <<paired, open>>
      BY <1>7, <2>1 DEF Dev!DaemonExecutes
    <3>2. call' \in DeviceCalls /\ call'.kind = "load" /\ call'.answer = paired
      BY <2>1, <3>1 DEF DeviceCalls, DevicePhases
    <3> QED
      BY <1>7, <2>1, <3>1, <3>2
      DEF Dev!DaemonExecutes, AnswerIsRecent, Dev!ShownDevicesArePaired
  <2>2. CASE call.kind = "pair"
    <3>1. call' = [call EXCEPT !.phase = "done"] /\ UNCHANGED paired
      BY <1>7, <2>2 DEF Dev!DaemonExecutes
    <3>2. call' \in DeviceCalls /\ call'.kind = "pair"
      BY <2>2, <3>1 DEF DeviceCalls, DevicePhases
    <3> QED
      BY <1>7, <2>2, <3>1, <3>2
      DEF Dev!DaemonExecutes, AnswerIsRecent, Dev!ShownDevicesArePaired
  <2>3. CASE call.kind = "revoke"
    <3>1. call' = [call EXCEPT !.phase = "done"] /\ paired' = paired \ {call.device}
      BY <1>7, <2>3 DEF Dev!DaemonExecutes
    <3>2. call' \in DeviceCalls /\ call'.kind = "revoke" /\ call'.device = call.device
      BY <2>3, <3>1 DEF DeviceCalls, DevicePhases
    <3> QED
      BY <1>7, <2>3, <3>1, <3>2
      DEF Dev!DaemonExecutes, AnswerIsRecent, Dev!ShownDevicesArePaired
  <2> QED
    BY <1>7, <2>1, <2>2, <2>3 DEF Dev!DaemonExecutes, DeviceCalls
<1>8. CASE Dev!DevicesLoaded
  BY <1>8 DEF Dev!DevicesLoaded, Dev!Release, Dev!NoDeviceCall, DeviceCalls, AnswerIsRecent,
              Dev!ShownDevicesArePaired
<1>9. CASE Dev!OfferCreated
  BY <1>9 DEF Dev!OfferCreated, Dev!Release, Dev!NoDeviceCall, DeviceCalls, AnswerIsRecent,
              Dev!ShownDevicesArePaired
<1>10. CASE Dev!DeviceRevoked
  BY <1>10 DEF Dev!DeviceRevoked, Dev!Release, Dev!NoDeviceCall, DeviceCalls, AnswerIsRecent,
               Dev!ShownDevicesArePaired
<1>11. CASE Dev!CallFails
  BY <1>11 DEF Dev!CallFails, Dev!Release, Dev!NoDeviceCall, DeviceCalls, AnswerIsRecent,
               Dev!ShownDevicesArePaired
<1>12. CASE Dev!Disconnect
  BY <1>12 DEF Dev!Disconnect, Dev!Release, Dev!NoDeviceCall, DeviceCalls, AnswerIsRecent,
               Dev!ShownDevicesArePaired
<1>13. CASE Dev!Reconnect
  BY <1>13 DEF Dev!Reconnect, AnswerIsRecent, Dev!ShownDevicesArePaired
<1> QED
  BY <1>1, <1>2, <1>3, <1>4, <1>5, <1>6, <1>7, <1>8, <1>9, <1>10, <1>11, <1>12, <1>13
  DEF Dev!Next

-----------------------------------------------------------------------------
(* Plugins.                                                                 *)

\* The list of an answer is as new as the last change the view was told of,
\* and the list shown is unless a reading runs that will replace it.
ListsAreRecent ==
    /\ at \in Nat /\ wanted \in Nat /\ wanted <= at /\ listed.at \in Nat
    /\ slot.phase = "answer" => slot.at \in Nat /\ slot.at >= wanted
    /\ slot.phase \notin {"read", "answer"} => listed.at >= wanted \/ warned

SlotIsTask ==
    /\ slot.phase \in {"none", "read", "answer", "call", "done"}
    /\ slot.phase = "none" => slot = Plg!Free
    /\ slot.phase = "call" => slot = [phase |-> "call", kind |-> slot.kind, plugin |-> slot.plugin]
    /\ busy \in BOOLEAN /\ (busy <=> slot # Plg!Free)

PluginsInv ==
    /\ SlotIsTask
    /\ ListsAreRecent
    /\ pArmed = [a \in Plg!Arms |-> pArmed[a]]
    /\ Plg!UninstallOfShown

\* A task that ends gives the slot and the flag back: what it may leave as it
\* is, is a list that is new enough, or the user was told.
LEMMA PluginsRelease ==
    ASSUME PluginsInv, Plg!Release, UNCHANGED <<listed, pArmed, at, wanted>>,
           listed.at >= wanted \/ warned'
    PROVE  PluginsInv'
BY DEF PluginsInv, SlotIsTask, ListsAreRecent, Plg!Release, Plg!Free, Plg!Arms, Plg!UninstallOfShown

\* A reading or a call that starts in a free slot.
LEMMA PluginsStart ==
    ASSUME PluginsInv, busy' = TRUE, UNCHANGED <<listed, pArmed, at, wanted, warned>>,
           \/ slot'.phase = "read"
           \/ /\ slot = Plg!Free
              /\ \E kind, p : slot' = [phase |-> "call", kind |-> kind, plugin |-> p]
    PROVE  PluginsInv'
<1>1. SlotIsTask'
  <2>1. slot'.phase \in {"read", "call"}
    OBVIOUS
  <2>2. slot'.phase = "call" =>
            slot' = [phase |-> "call", kind |-> slot'.kind, plugin |-> slot'.plugin]
    OBVIOUS
  <2>3. busy' \in BOOLEAN /\ (busy' <=> slot' # Plg!Free)
    BY <2>1 DEF Plg!Free
  <2> QED
    BY <2>1, <2>2, <2>3 DEF SlotIsTask
<1>2. ListsAreRecent'
  BY DEF PluginsInv, ListsAreRecent, Plg!Free
<1> QED
  BY <1>1, <1>2 DEF PluginsInv, Plg!UninstallOfShown, Plg!Arms

LEMMA PluginsStep == PluginsInv /\ Plg!Next => PluginsInv'
<1> SUFFICES ASSUME PluginsInv, Plg!Next PROVE PluginsInv'
  OBVIOUS
<1>1. SlotIsTask /\ ListsAreRecent
  BY DEF PluginsInv
<1>2. ASSUME UNCHANGED <<listed, slot, busy, pArmed, at, wanted, warned>> PROVE PluginsInv'
  BY <1>2 DEF PluginsInv, SlotIsTask, ListsAreRecent, Plg!Free, Plg!Arms, Plg!UninstallOfShown
<1>3. ASSUME NEW f, Plg!Load(f), UNCHANGED <<listed, pArmed, at, wanted, warned>>
      PROVE  PluginsInv'
  <2>1. CASE slot = Plg!Free /\ online
    <3>1. slot' = [phase |-> "read", force |-> f] /\ busy' = TRUE
      BY <1>3, <2>1 DEF Plg!Load, Plg!Reading
    <3> QED
      BY <1>3, <3>1, PluginsStart
  <2>2. CASE ~(slot = Plg!Free /\ online)
    BY <1>2, <1>3, <2>2 DEF Plg!Load
  <2> QED
    BY <2>1, <2>2
<1>4. ASSUME NEW kind, NEW p, Plg!Call(kind, p), UNCHANGED <<listed, pArmed, at, wanted, warned>>
      PROVE  PluginsInv'
  BY <1>1, <1>4, PluginsStart DEF Plg!Call, SlotIsTask
<1>5. CASE Plg!ShowPage \/ Plg!Refresh
  BY <1>3, <1>5 DEF Plg!ShowPage, Plg!Refresh, Plg!server
<1>6. CASE Plg!DaemonAnswersRead
  BY <1>6 DEF Plg!DaemonAnswersRead, Plg!server, PluginsInv, SlotIsTask, ListsAreRecent, Plg!Free,
     Plg!Arms, Plg!UninstallOfShown
<1>7. CASE Plg!ListArrives
  BY <1>7 DEF Plg!ListArrives, Plg!Release, Plg!NothingArmed, Plg!Arms, Plg!server, PluginsInv,
     SlotIsTask, ListsAreRecent, Plg!Free, Plg!UninstallOfShown
<1>8. CASE Plg!ReadFails
  BY <1>8, PluginsRelease DEF Plg!ReadFails, Plg!server
<1>9. ASSUME NEW a \in Plg!Arms, NEW p \in PluginIds, Plg!Arm(a, p) PROVE PluginsInv'
  <2>1. /\ UNCHANGED <<listed, slot, busy, at, wanted, warned>>
        /\ pArmed' = [pArmed EXCEPT ![a] = p]
        /\ a = "uninstall" => p \in listed.installed
    BY <1>9 DEF Plg!Arm, Plg!server
  <2> QED
    BY <2>1 DEF PluginsInv, SlotIsTask, ListsAreRecent, Plg!Free, Plg!Arms, Plg!UninstallOfShown
<1>10. ASSUME NEW p \in PluginIds,
              Plg!InstallPlugin(p) \/ Plg!UninstallPlugin(p) \/ Plg!SetPluginEnabled(p)
       PROVE  PluginsInv'
  BY <1>4, <1>10 DEF Plg!InstallPlugin, Plg!UninstallPlugin, Plg!SetPluginEnabled, Plg!server
<1>11. CASE Plg!SelectPluginDirectory
  BY <1>4, <1>11 DEF Plg!SelectPluginDirectory, Plg!server
<1>12. ASSUME NEW p \in PluginIds, Plg!ConfirmDialog(p) PROVE PluginsInv'
  BY <1>2, <1>4, <1>12 DEF Plg!ConfirmDialog, Plg!server
<1>13. CASE Plg!CancelDialog
  BY <1>2, <1>13 DEF Plg!CancelDialog, Plg!server
<1>14. CASE Plg!ChooserEnds \/ Plg!Inspected
  <2>1. listed.at >= wanted \/ warned
    BY <1>1, <1>14 DEF Plg!ChooserEnds, Plg!Inspected, ListsAreRecent
  <2> QED
    BY <1>14, <2>1, PluginsRelease DEF Plg!ChooserEnds, Plg!Inspected, Plg!server
<1>15. CASE Plg!DaemonExecutes
  <2>1. /\ UNCHANGED <<listed, busy, pArmed, wanted, warned>> /\ at' = at + 1
        /\ slot.phase = "call" /\ slot' = [slot EXCEPT !.phase = "done"]
    BY <1>15 DEF Plg!DaemonExecutes
  <2>2. slot' = [phase |-> "done", kind |-> slot.kind, plugin |-> slot.plugin]
    BY <1>1, <2>1 DEF SlotIsTask
  <2> QED
    BY <2>1, <2>2 DEF PluginsInv, SlotIsTask, ListsAreRecent, Plg!Free, Plg!Arms, Plg!UninstallOfShown
<1>16. ASSUME NEW kind, NEW ok PROVE /\ Plg!Disarmed(kind, ok) = [a \in Plg!Arms |-> Plg!Disarmed(kind, ok)[a]]
                                     /\ Plg!Disarmed(kind, ok)["uninstall"] \in {None, pArmed["uninstall"]}
  <2>1. PICK f : f = pArmed
    OBVIOUS
  <2>2. f = [a \in Plg!Arms |-> f[a]]
    BY <2>1 DEF PluginsInv
  <2>3. Plg!Disarmed(kind, ok) \in {[f EXCEPT !["install"] = None], [f EXCEPT !["uninstall"] = None], f}
    BY <2>1 DEF Plg!Disarmed
  <2> QED
    BY <2>1, <2>2, <2>3 DEF Plg!Arms
<1>17. CASE Plg!OperationDone
  <2>1. /\ UNCHANGED <<listed, at, warned>> /\ wanted' = at
        /\ slot' = [phase |-> "read", force |-> FALSE] /\ busy' = TRUE
        /\ pArmed' = Plg!Disarmed(slot.kind, TRUE)
    BY <1>17 DEF Plg!OperationDone, Plg!Reading, Plg!server
  <2>2. SlotIsTask' /\ ListsAreRecent'
    BY <1>1, <2>1 DEF SlotIsTask, ListsAreRecent, Plg!Free
  <2>3. pArmed' = [a \in Plg!Arms |-> pArmed'[a]] /\ Plg!UninstallOfShown'
    BY <1>16, <2>1 DEF PluginsInv, Plg!UninstallOfShown, Plg!Arms
  <2> QED
    BY <2>2, <2>3 DEF PluginsInv
<1>18. CASE Plg!OperationFails
  <2>1. /\ UNCHANGED <<listed, at, wanted, warned>> /\ slot.phase \in {"call", "done"}
        /\ Plg!Release /\ pArmed' = Plg!Disarmed(slot.kind, FALSE)
    BY <1>18 DEF Plg!OperationFails, Plg!server
  <2>2. SlotIsTask' /\ ListsAreRecent'
    BY <1>1, <2>1 DEF SlotIsTask, ListsAreRecent, Plg!Free, Plg!Release
  <2>3. /\ pArmed' = [a \in Plg!Arms |-> pArmed'[a]]
        /\ pArmed'["uninstall"] \in {None, pArmed["uninstall"]}
    <3>1. PICK g : /\ g = Plg!Disarmed(slot.kind, FALSE)
                   /\ g = [a \in Plg!Arms |-> g[a]]
                   /\ g["uninstall"] \in {None, pArmed["uninstall"]}
      BY <1>16, Zenon
    <3> QED
      BY <2>1, <3>1, Zenon
  <2>4. Plg!UninstallOfShown'
    BY <2>1, <2>3 DEF PluginsInv, Plg!UninstallOfShown
  <2> QED
    BY <2>2, <2>3, <2>4 DEF PluginsInv
<1>19. CASE Plg!Disconnect
  <2>1. /\ Plg!Release /\ listed' = [at |-> 0, installed |-> {}]
        /\ pArmed' = Plg!NothingArmed /\ wanted' = 0 /\ at' = at
    BY <1>19 DEF Plg!Disconnect, Plg!server
  <2>2. SlotIsTask'
    BY <2>1 DEF SlotIsTask, Plg!Release, Plg!Free
  <2>3. ListsAreRecent'
    BY <1>1, <2>1 DEF ListsAreRecent, Plg!Release, Plg!Free
  <2> QED
    BY <2>1, <2>2, <2>3 DEF PluginsInv, Plg!NothingArmed, Plg!Arms, Plg!UninstallOfShown
<1>20. CASE Plg!Reconnect
  BY <1>2, <1>20 DEF Plg!Reconnect, Plg!shown, Plg!server
<1> QED
  BY <1>5, <1>6, <1>7, <1>8, <1>9, <1>10, <1>11, <1>12, <1>13, <1>14, <1>15, <1>17, <1>18, <1>19,
     <1>20 DEF Plg!Next

LEMMA PluginsImply ==
    PluginsInv => Plg!BusyHasTask /\ Plg!PluginsFreshOrPending /\ Plg!UninstallOfShown
BY DEF PluginsInv, SlotIsTask, ListsAreRecent, Plg!Free, Plg!BusyHasTask, Plg!PluginsFreshOrPending

-----------------------------------------------------------------------------
(* Scheduled tasks.                                                         *)

IsPlanTask(t) ==
    /\ t = [phase |-> t.phase, kind |-> t.kind, plan |-> t.plan, at |-> t.at, plans |-> t.plans]
    /\ t.phase \in {"idle", "timer", "plans", "runs", "done", "call"}
    /\ t.at \in Nat

HasRead(t)   == t.phase \in {"runs", "done"}
WillRead(t)  == t.phase \in {"timer", "plans"}
IsRecent(t)  == HasRead(t) /\ t.at >= due

\* A reading that is too old is followed by another, was announced as failed,
\* or is older than what is shown already.
Covered(t, other) ==
    HasRead(t) => t.at >= due \/ ended > 0 \/ WillRead(other) \/ IsRecent(other)
                    \/ told \/ shown.at > t.at

\* Of two readings on their way to the view one is new enough.
OneIsRecent ==
    HasRead(refresh) /\ HasRead(operation) =>
        refresh.at >= due \/ operation.at >= due \/ ended > 0 \/ told

ReadingsAreCovered ==
    online /\ onPage =>
        Covered(refresh, operation) /\ Covered(operation, refresh) /\ OneIsRecent

\* What the readings rest on, apart from the user's confirmation.
PlansRest ==
    /\ IsPlanTask(refresh) /\ IsPlanTask(operation)
    /\ clock \in Nat /\ due \in Nat /\ due <= clock /\ ended \in Nat /\ shown.at \in Nat
    /\ ~online => refresh.phase = "idle" /\ operation.phase = "idle" /\ ended = 0
    /\ ReadingsAreCovered
    /\ Sch!PlansFreshOrPending

\* And what the clicks rest on: one operation at a time, and none but a
\* deletion while one is armed.
ClicksRest ==
    /\ inFlight <=> operation.phase # "idle"
    /\ operation.kind \in {"create", "update"} => inFlight /\ confirm = None
    /\ Sch!ArmedIsShown

ScheduledInv == PlansRest /\ ClicksRest

LEMMA PlansStay ==
    ASSUME PlansRest, UNCHANGED <<online, onPage, shown, refresh, operation, clock, due, ended,
                                  told, overtaken>>
    PROVE  PlansRest'
BY DEF PlansRest, IsPlanTask, ReadingsAreCovered, Covered, OneIsRecent, HasRead, WillRead, IsRecent,
   Sch!PlansFreshOrPending, Sch!Idle, Sch!Task

LEMMA IdleTasks ==
    /\ IsPlanTask(Sch!Idle) /\ Sch!Idle.phase = "idle" /\ Sch!Idle.kind = "load"
    /\ IsPlanTask(Sch!Timing) /\ Sch!Timing.phase = "timer"
    /\ IsPlanTask(Sch!Loading) /\ Sch!Loading.phase = "plans"
    /\ \A kind, p : IsPlanTask(Sch!Task("call", kind, p)) /\ Sch!Task("call", kind, p).phase = "call"
                    /\ Sch!Task("call", kind, p).kind = kind
BY DEF IsPlanTask, Sch!Idle, Sch!Timing, Sch!Loading, Sch!Task

\* A refresh that starts over, on a timer or at once, will read what is due.
LEMMA RefreshStarts ==
    ASSUME PlansRest, online', refresh' \in {Sch!Timing, Sch!Loading}, operation' = operation,
           operation.phase = "idle" \/ online, shown' = shown,
           clock' = clock, due' \in Nat, due' <= clock, ended' \in Nat,
           operation.phase = "idle" \/ due' = due
    PROVE  PlansRest'
<1>1. IsPlanTask(refresh') /\ refresh'.phase \in {"timer", "plans"} /\ refresh' # Sch!Idle
  BY IdleTasks
<1>2. IsPlanTask(operation)' /\ IsPlanTask(refresh)'
  BY <1>1 DEF PlansRest, IsPlanTask
<1>3. ReadingsAreCovered'
  BY <1>1 DEF ReadingsAreCovered, Covered, OneIsRecent, HasRead, WillRead
<1>4. Sch!PlansFreshOrPending'
  BY <1>1 DEF Sch!PlansFreshOrPending, Sch!Idle, Sch!Task
<1> QED
  BY <1>1, <1>2, <1>3, <1>4 DEF PlansRest

\* The answer of a refresh or of an operation is shown, whatever is shown
\* already.
LEMMA LoadedShows ==
    ASSUME PlansRest, Sch!Show(refresh), refresh.phase = "done", refresh' = Sch!Idle,
           UNCHANGED <<online, onPage, operation, clock, due, ended>>
    PROVE  PlansRest'
<1>1. /\ shown'.at = refresh.at /\ shown'.at \in Nat
      /\ told' <=> told /\ refresh.at < due
      /\ overtaken' <=> refresh.at < shown.at
  BY DEF Sch!Show, PlansRest, IsPlanTask
<1>2. IsPlanTask(operation)' /\ IsPlanTask(refresh)' /\ refresh'.phase = "idle"
  BY IdleTasks DEF PlansRest, IsPlanTask
<1>3. ReadingsAreCovered'
  <2> SUFFICES ASSUME online, onPage, HasRead(operation), ~(operation.at >= due), ended = 0
               PROVE  told' \/ shown'.at > operation.at
    BY <1>2 DEF ReadingsAreCovered, Covered, OneIsRecent, HasRead, WillRead, IsRecent, PlansRest
  <2>1. Covered(operation, refresh) /\ OneIsRecent
    BY DEF PlansRest, ReadingsAreCovered
  <2>2. operation.at \in Nat /\ due \in Nat /\ refresh.at \in Nat
    BY DEF PlansRest, IsPlanTask
  <2> QED
    BY <1>1, <2>1, <2>2 DEF Covered, OneIsRecent, HasRead, WillRead, IsRecent
<1>4. Sch!PlansFreshOrPending'
  <2> SUFFICES ASSUME online, onPage, ~(refresh.at >= due), ended = 0, operation = Sch!Idle
               PROVE  told' \/ overtaken'
    BY <1>1 DEF Sch!PlansFreshOrPending, PlansRest, Sch!Idle, Sch!Task
  <2>1. Covered(refresh, operation)
    BY DEF PlansRest, ReadingsAreCovered
  <2>2. due \in Nat /\ refresh.at \in Nat /\ shown.at \in Nat /\ operation.phase = "idle"
    BY IdleTasks DEF PlansRest, IsPlanTask
  <2> QED
    BY <1>1, <2>1, <2>2 DEF Covered, HasRead, WillRead, IsRecent
<1> QED
  BY <1>1, <1>2, <1>3, <1>4 DEF PlansRest

LEMMA OperationShows ==
    ASSUME PlansRest, Sch!Show(operation), operation.phase = "done", operation' = Sch!Idle,
           UNCHANGED <<online, onPage, refresh, clock, due, ended>>
    PROVE  PlansRest'
<1>1. /\ shown'.at = operation.at /\ shown'.at \in Nat
      /\ told' <=> told /\ operation.at < due
      /\ overtaken' <=> operation.at < shown.at
  BY DEF Sch!Show, PlansRest, IsPlanTask
<1>2. IsPlanTask(operation)' /\ IsPlanTask(refresh)' /\ operation'.phase = "idle"
  BY IdleTasks DEF PlansRest, IsPlanTask
<1>3. ReadingsAreCovered'
  <2> SUFFICES ASSUME online, onPage, HasRead(refresh), ~(refresh.at >= due), ended = 0
               PROVE  told' \/ shown'.at > refresh.at
    BY <1>2 DEF ReadingsAreCovered, Covered, OneIsRecent, HasRead, WillRead, IsRecent, PlansRest
  <2>1. Covered(refresh, operation) /\ OneIsRecent
    BY DEF PlansRest, ReadingsAreCovered
  <2>2. operation.at \in Nat /\ due \in Nat /\ refresh.at \in Nat
    BY DEF PlansRest, IsPlanTask
  <2> QED
    BY <1>1, <2>1, <2>2 DEF Covered, OneIsRecent, HasRead, WillRead, IsRecent
<1>4. Sch!PlansFreshOrPending'
  <2> SUFFICES ASSUME online, onPage, ~(operation.at >= due), ended = 0, refresh = Sch!Idle
               PROVE  told' \/ overtaken'
    BY <1>1 DEF Sch!PlansFreshOrPending, PlansRest, Sch!Idle, Sch!Task
  <2>1. Covered(operation, refresh)
    BY DEF PlansRest, ReadingsAreCovered
  <2>2. due \in Nat /\ operation.at \in Nat /\ shown.at \in Nat /\ refresh.phase = "idle"
    BY IdleTasks DEF PlansRest, IsPlanTask
  <2> QED
    BY <1>1, <2>1, <2>2 DEF Covered, HasRead, WillRead, IsRecent
<1> QED
  BY <1>1, <1>2, <1>3, <1>4 DEF PlansRest

LEMMA ReadsNow ==
    ASSUME NEW t, IsPlanTask(t), t.phase \in {"plans", "runs"}, clock \in Nat
    PROVE  LET f == Sch!Fetched(t)
           IN  /\ IsPlanTask(f) /\ f.kind = t.kind
               /\ t.phase = "plans" => f.phase = "runs" /\ f.at = clock
               /\ t.phase = "runs" => f.phase = "done" /\ f.at = t.at
<1>1. CASE t.phase = "plans"
  <2>1. PICK w : w = [t EXCEPT !.phase = "runs"]
    OBVIOUS
  <2>2. PICK x : x = [w EXCEPT !.at = clock]
    OBVIOUS
  <2>3. Sch!Fetched(t) = [x EXCEPT !.plans = dPlans]
    BY <1>1, <2>1, <2>2 DEF Sch!Fetched
  <2>4. w = [phase |-> "runs", kind |-> t.kind, plan |-> t.plan, at |-> t.at, plans |-> t.plans]
    BY <2>1 DEF IsPlanTask
  <2>5. x = [phase |-> "runs", kind |-> t.kind, plan |-> t.plan, at |-> clock, plans |-> t.plans]
    BY <2>2, <2>4
  <2>6. Sch!Fetched(t) =
            [phase |-> "runs", kind |-> t.kind, plan |-> t.plan, at |-> clock, plans |-> dPlans]
    BY <2>3, <2>5
  <2> QED
    BY <1>1, <2>6 DEF IsPlanTask
<1>2. CASE t.phase = "runs"
  <2>1. Sch!Fetched(t) =
            [phase |-> "done", kind |-> t.kind, plan |-> t.plan, at |-> t.at, plans |-> t.plans]
    BY <1>2 DEF Sch!Fetched, IsPlanTask
  <2> QED
    BY <1>2, <2>1 DEF IsPlanTask
<1> QED
  BY <1>1, <1>2

\* The steps that read and show, and those of the daemon and of the session.
LEMMA PlansStep ==
    ASSUME ScheduledInv,
           \/ Sch!OpenPage \/ Sch!LeavePage \/ Sch!TimerFires \/ Sch!DaemonReads \/ Sch!Loaded
           \/ Sch!LoadFails \/ Sch!TurnEnds \/ Sch!ApplyCompletion \/ Sch!DaemonExecutes
           \/ Sch!OperationDone \/ Sch!OperationFails \/ Sch!Disconnect \/ Sch!Reconnect
    PROVE  PlansRest'
<1>1. PlansRest
  BY DEF ScheduledInv
<1>2. CASE Sch!OpenPage
  <2>1. CASE online
    <3>1. refresh' = Sch!Loading
          /\ UNCHANGED <<online, shown, operation, clock, due, ended>>
      BY <1>2, <2>1 DEF Sch!OpenPage, Sch!server
    <3> QED
      BY <1>1, <2>1, <3>1, RefreshStarts DEF PlansRest
  <2>2. CASE ~online
    <3>1. UNCHANGED <<online, shown, refresh, operation, clock, due, ended, told, overtaken>>
      BY <1>2, <2>2 DEF Sch!OpenPage, Sch!server, Sch!hist
    <3> QED
      BY <1>1, <2>2, <3>1 DEF PlansRest, IsPlanTask, ReadingsAreCovered, Sch!PlansFreshOrPending
  <2> QED
    BY <2>1, <2>2
<1>3. CASE Sch!LeavePage
  <2>1. ~onPage' /\ UNCHANGED <<online, shown, refresh, operation, clock, due, ended>>
    BY <1>3 DEF Sch!LeavePage, Sch!page, Sch!server
  <2> QED
    BY <1>1, <2>1 DEF PlansRest, IsPlanTask, ReadingsAreCovered, Sch!PlansFreshOrPending
<1>4. CASE Sch!TimerFires
  <2>1. refresh = Sch!Timing /\ refresh' = Sch!Loading
        /\ UNCHANGED <<online, shown, operation, clock, due, ended>>
    BY <1>4 DEF Sch!TimerFires, Sch!server
  <2>2. online
    BY <1>1, <2>1, IdleTasks DEF PlansRest
  <2> QED
    BY <1>1, <2>1, <2>2, RefreshStarts DEF PlansRest
<1>5. CASE Sch!DaemonReads
  <2>1. UNCHANGED <<online, onPage, shown, clock, due, ended, told, overtaken>>
    BY <1>5 DEF Sch!DaemonReads, Sch!server, Sch!hist
  <2>2. CASE refresh.phase \in {"plans", "runs"} /\ refresh' = Sch!Fetched(refresh)
             /\ UNCHANGED operation
    <3>1. PICK f : f = Sch!Fetched(refresh)
      OBVIOUS
    <3>2. IsPlanTask(refresh) /\ clock \in Nat
      BY <1>1 DEF PlansRest
    <3>3. /\ IsPlanTask(f)
          /\ refresh.phase = "plans" => f.phase = "runs" /\ f.at = clock
          /\ refresh.phase = "runs" => f.phase = "done" /\ f.at = refresh.at
      BY <2>2, <3>1, <3>2, ReadsNow
    <3>4. refresh' = f /\ IsPlanTask(refresh)' /\ IsPlanTask(operation)'
      BY <1>1, <2>2, <3>1, <3>3 DEF PlansRest, IsPlanTask
    <3>5. ReadingsAreCovered'
      BY <1>1, <2>1, <2>2, <3>3, <3>4
      DEF PlansRest, IsPlanTask, ReadingsAreCovered, Covered, OneIsRecent, HasRead, WillRead,
          IsRecent
    <3>6. Sch!PlansFreshOrPending'
      BY <2>1, <2>2, <3>3, <3>4, IdleTasks DEF Sch!PlansFreshOrPending
    <3>7. online
      BY <1>1, <2>2 DEF PlansRest
    <3> QED
      BY <1>1, <2>1, <3>4, <3>5, <3>6, <3>7 DEF PlansRest
  <2>3. CASE operation.phase \in {"plans", "runs"} /\ operation' = Sch!Fetched(operation)
             /\ UNCHANGED refresh
    <3>1. PICK f : f = Sch!Fetched(operation)
      OBVIOUS
    <3>2. IsPlanTask(operation) /\ clock \in Nat
      BY <1>1 DEF PlansRest
    <3>3. /\ IsPlanTask(f)
          /\ operation.phase = "plans" => f.phase = "runs" /\ f.at = clock
          /\ operation.phase = "runs" => f.phase = "done" /\ f.at = operation.at
      BY <2>3, <3>1, <3>2, ReadsNow
    <3>4. operation' = f /\ IsPlanTask(refresh)' /\ IsPlanTask(operation)'
      BY <1>1, <2>3, <3>1, <3>3 DEF PlansRest, IsPlanTask
    <3>5. ReadingsAreCovered'
      BY <1>1, <2>1, <2>3, <3>3, <3>4
      DEF PlansRest, IsPlanTask, ReadingsAreCovered, Covered, OneIsRecent, HasRead, WillRead,
          IsRecent
    <3>6. Sch!PlansFreshOrPending'
      BY <2>1, <2>3, <3>3, <3>4, IdleTasks DEF Sch!PlansFreshOrPending
    <3>7. online
      BY <1>1, <2>3 DEF PlansRest
    <3> QED
      BY <1>1, <2>1, <3>4, <3>5, <3>6, <3>7 DEF PlansRest
  <2> QED
    BY <1>5, <2>2, <2>3 DEF Sch!DaemonReads
<1>6. CASE Sch!Loaded
  BY <1>1, <1>6, LoadedShows DEF Sch!Loaded, Sch!server
<1>7. CASE Sch!OperationDone
  BY <1>1, <1>7, OperationShows DEF Sch!OperationDone, Sch!server
<1>8. ASSUME told', UNCHANGED <<online, onPage, shown, clock, due, ended>>,
             \/ refresh' = Sch!Idle /\ operation' = operation
             \/ operation' = Sch!Idle /\ refresh' = refresh
      PROVE  PlansRest'
  <2>1. IsPlanTask(refresh)' /\ IsPlanTask(operation)'
    BY <1>1, <1>8, IdleTasks DEF PlansRest, IsPlanTask
  <2>2. ReadingsAreCovered' /\ Sch!PlansFreshOrPending'
    BY <1>8 DEF ReadingsAreCovered, Covered, OneIsRecent, Sch!PlansFreshOrPending
  <2> QED
    BY <1>1, <1>8, <2>1, <2>2, IdleTasks DEF PlansRest
<1>9. CASE Sch!LoadFails
  BY <1>8, <1>9 DEF Sch!LoadFails, Sch!server
<1>10. CASE Sch!OperationFails
  BY <1>8, <1>10 DEF Sch!OperationFails, Sch!server
<1>11. CASE Sch!TurnEnds
  <2>1. UNCHANGED <<online, onPage, shown, refresh, operation, told, overtaken>>
        /\ clock' = clock + 1
    BY <1>11 DEF Sch!TurnEnds, Sch!page, Sch!hist
  <2>2. CASE online /\ due' = clock' /\ ended' = ended + 1
    <3>1. due' \in Nat /\ due' <= clock' /\ clock' \in Nat /\ ended' \in Nat /\ ended' > 0
      BY <1>1, <2>1, <2>2 DEF PlansRest
    <3> QED
      BY <1>1, <2>1, <2>2, <3>1
      DEF PlansRest, IsPlanTask, ReadingsAreCovered, Covered, OneIsRecent, Sch!PlansFreshOrPending
  <2>3. CASE ~online /\ UNCHANGED <<due, ended>>
    BY <1>1, <2>1, <2>3
    DEF PlansRest, IsPlanTask, ReadingsAreCovered, Sch!PlansFreshOrPending
  <2> QED
    BY <1>11, <2>2, <2>3 DEF Sch!TurnEnds
<1>12. CASE Sch!ApplyCompletion
  <2>1. /\ ended > 0 /\ ended' = ended - 1 /\ refresh' = IF onPage THEN Sch!Timing ELSE refresh
        /\ UNCHANGED <<online, onPage, shown, operation, clock, due, told, overtaken>>
    BY <1>12 DEF Sch!ApplyCompletion, Sch!hist
  <2>2. online /\ ended' \in Nat
    BY <1>1, <2>1 DEF PlansRest
  <2>3. CASE onPage
    BY <1>1, <2>1, <2>2, <2>3, RefreshStarts DEF PlansRest
  <2>4. CASE ~onPage
    BY <1>1, <2>1, <2>2, <2>4
    DEF PlansRest, IsPlanTask, ReadingsAreCovered, Sch!PlansFreshOrPending
  <2> QED
    BY <2>3, <2>4
<1>13. CASE Sch!DaemonExecutes
  <2>1. /\ operation.phase = "call" /\ operation' = [operation EXCEPT !.phase = "plans"]
        /\ clock' = clock + 1 /\ due' = clock'
        /\ UNCHANGED <<online, onPage, shown, refresh, ended, told, overtaken>>
    BY <1>13 DEF Sch!DaemonExecutes, Sch!Changed, Sch!hist
  <2>2. IsPlanTask(operation') /\ operation'.phase = "plans"
    BY <1>1, <2>1 DEF PlansRest, IsPlanTask
  <2>3. IsPlanTask(operation)' /\ IsPlanTask(refresh)'
    BY <1>1, <2>1, <2>2 DEF PlansRest, IsPlanTask
  <2>4. ReadingsAreCovered' /\ Sch!PlansFreshOrPending'
    BY <2>2, IdleTasks
    DEF ReadingsAreCovered, Covered, OneIsRecent, HasRead, WillRead, Sch!PlansFreshOrPending
  <2>5. online
    BY <1>1, <2>1 DEF PlansRest
  <2> QED
    BY <1>1, <2>1, <2>3, <2>4, <2>5 DEF PlansRest
<1>14. CASE Sch!Disconnect
  <2>1. /\ ~online' /\ operation' = Sch!Idle /\ refresh' = Sch!Idle /\ ended' = 0
        /\ shown' = Sch!NoPlans /\ UNCHANGED <<clock, due>>
    BY <1>14 DEF Sch!Disconnect
  <2>2. IsPlanTask(operation)' /\ IsPlanTask(refresh)'
    BY <2>1, IdleTasks DEF IsPlanTask
  <2>3. shown'.at = 0
    BY <2>1 DEF Sch!NoPlans
  <2> QED
    BY <1>1, <2>1, <2>2, <2>3, IdleTasks
    DEF PlansRest, ReadingsAreCovered, Sch!PlansFreshOrPending
<1>15. CASE Sch!Reconnect
  <2>1. /\ ~online /\ online' /\ due' = clock
        /\ refresh' = IF onPage THEN Sch!Loading ELSE refresh
        /\ UNCHANGED <<onPage, shown, operation, clock, ended>>
    BY <1>15 DEF Sch!Reconnect
  <2>2. operation.phase = "idle"
    BY <1>1, <2>1 DEF PlansRest
  <2>3. CASE onPage
    BY <1>1, <2>1, <2>2, <2>3, RefreshStarts DEF PlansRest
  <2>4. CASE ~onPage
    BY <1>1, <2>1, <2>4 DEF PlansRest, IsPlanTask, ReadingsAreCovered, Sch!PlansFreshOrPending
  <2> QED
    BY <2>3, <2>4
<1> QED
  BY <1>2, <1>3, <1>4, <1>5, <1>6, <1>7, <1>9, <1>10, <1>11, <1>12, <1>13, <1>14, <1>15

\* The user's clicks leave the readings alone, or start an operation.
LEMMA ClicksStart ==
    ASSUME ScheduledInv, NEW kind, NEW p, Sch!Start(kind, p), confirm' \in {confirm, None},
           kind \in {"create", "update"} => confirm' = None
    PROVE  ScheduledInv'
<1>1. /\ operation' = Sch!Task("call", kind, p) /\ online /\ ~inFlight /\ inFlight'
      /\ UNCHANGED <<online, onPage, shown, refresh, clock, due, ended, told, overtaken>>
  BY DEF Sch!Start, Sch!server, Sch!hist
<1>2. operation.phase = "idle"
  BY <1>1 DEF ScheduledInv, ClicksRest
<1>3. IsPlanTask(operation') /\ operation'.phase = "call" /\ operation'.kind = kind
  BY <1>1, IdleTasks
<1>4. IsPlanTask(operation)' /\ IsPlanTask(refresh)'
  BY <1>1, <1>3 DEF ScheduledInv, PlansRest, IsPlanTask
<1>5. ReadingsAreCovered' /\ Sch!PlansFreshOrPending'
  BY <1>1, <1>2, <1>3, IdleTasks
  DEF ScheduledInv, PlansRest, ReadingsAreCovered, Covered, OneIsRecent, HasRead, WillRead,
      IsRecent, Sch!PlansFreshOrPending
<1>6. PlansRest'
  BY <1>1, <1>4, <1>5 DEF ScheduledInv, PlansRest
<1>7. ClicksRest'
  BY <1>1, <1>3 DEF ScheduledInv, ClicksRest, Sch!ArmedIsShown
<1> QED
  BY <1>6, <1>7 DEF ScheduledInv

\* What shows a list or ends an operation, and what the clicks rest on.
LEMMA ClicksStep ==
    ASSUME ScheduledInv,
           \/ Sch!OpenPage \/ Sch!LeavePage \/ Sch!TimerFires \/ Sch!DaemonReads \/ Sch!Loaded
           \/ Sch!LoadFails \/ Sch!TurnEnds \/ Sch!ApplyCompletion \/ Sch!DaemonExecutes
           \/ Sch!OperationDone \/ Sch!OperationFails \/ Sch!Disconnect \/ Sch!Reconnect
    PROVE  ClicksRest'
<1>1. ClicksRest /\ IsPlanTask(operation) /\ clock \in Nat
  BY DEF ScheduledInv, PlansRest
<1>2. ASSUME UNCHANGED <<shown, inFlight, operation, confirm>> PROVE ClicksRest'
  BY <1>1, <1>2 DEF ClicksRest, Sch!ArmedIsShown
<1>3. CASE \/ Sch!OpenPage \/ Sch!LeavePage \/ Sch!TimerFires \/ Sch!LoadFails \/ Sch!TurnEnds
           \/ Sch!ApplyCompletion \/ Sch!Reconnect
  BY <1>2, <1>3 DEF Sch!OpenPage, Sch!LeavePage, Sch!TimerFires, Sch!LoadFails, Sch!TurnEnds,
     Sch!ApplyCompletion, Sch!Reconnect, Sch!page
<1>4. CASE Sch!DaemonReads
  <2>1. UNCHANGED <<shown, inFlight, confirm>>
    BY <1>4 DEF Sch!DaemonReads
  <2>2. \/ UNCHANGED operation
        \/ operation.phase \in {"plans", "runs"} /\ operation' = Sch!Fetched(operation)
    BY <1>4 DEF Sch!DaemonReads
  <2>3. operation'.kind = operation.kind
        /\ (operation'.phase = "idle" <=> operation.phase = "idle")
    BY <1>1, <2>2, ReadsNow
  <2> QED
    BY <1>1, <2>1, <2>3 DEF ClicksRest, Sch!ArmedIsShown
<1>5. CASE Sch!DaemonExecutes
  <2>1. UNCHANGED <<shown, inFlight, confirm>>
        /\ operation.phase = "call" /\ operation' = [operation EXCEPT !.phase = "plans"]
    BY <1>5 DEF Sch!DaemonExecutes
  <2>2. operation'.phase = "plans" /\ operation'.kind = operation.kind
    BY <1>1, <2>1 DEF IsPlanTask
  <2> QED
    BY <1>1, <2>1, <2>2 DEF ClicksRest, Sch!ArmedIsShown
<1>6. CASE Sch!Loaded
  <2>1. confirm' = None /\ UNCHANGED <<inFlight, operation>>
    BY <1>6 DEF Sch!Loaded
  <2> QED
    BY <1>1, <2>1 DEF ClicksRest, Sch!ArmedIsShown
<1>7. CASE Sch!OperationDone
  <2>1. inFlight' = FALSE /\ operation' = Sch!Idle
    BY <1>7 DEF Sch!OperationDone
  <2>2. confirm' = None
    <3>1. CASE operation.kind \in {"create", "update"}
      BY <1>1, <1>7, <3>1 DEF Sch!OperationDone, ClicksRest
    <3>2. CASE operation.kind \notin {"create", "update"}
      BY <1>7, <3>2 DEF Sch!OperationDone
    <3> QED
      BY <3>1, <3>2
  <2> QED
    BY <2>1, <2>2, IdleTasks DEF ClicksRest, Sch!ArmedIsShown
<1>8. CASE Sch!OperationFails \/ Sch!Disconnect
  <2>1. inFlight' = FALSE /\ operation' = Sch!Idle /\ confirm' = confirm
        /\ shown' \in {shown, Sch!NoPlans}
    BY <1>8 DEF Sch!OperationFails, Sch!Disconnect
  <2> QED
    BY <1>1, <2>1, IdleTasks DEF ClicksRest, Sch!ArmedIsShown
<1> QED
  BY <1>3, <1>4, <1>5, <1>6, <1>7, <1>8

LEMMA ScheduledStep == ScheduledInv /\ Sch!Next => ScheduledInv'
<1> SUFFICES ASSUME ScheduledInv, Sch!Next PROVE ScheduledInv'
  OBVIOUS
<1>1. PlansRest /\ ClicksRest
  BY DEF ScheduledInv
<1>2. CASE \/ Sch!OpenPage \/ Sch!LeavePage \/ Sch!TimerFires \/ Sch!DaemonReads \/ Sch!Loaded
           \/ Sch!LoadFails \/ Sch!TurnEnds \/ Sch!ApplyCompletion \/ Sch!DaemonExecutes
           \/ Sch!OperationDone \/ Sch!OperationFails \/ Sch!Disconnect \/ Sch!Reconnect
  BY <1>2, PlansStep, ClicksStep DEF ScheduledInv
<1>3. ASSUME UNCHANGED <<online, onPage, shown, refresh, operation, inFlight, due, ended,
                         told, overtaken>>,
             clock' \in {clock, clock + 1},
             confirm' = None \/ (confirm' \in shown.plans /\ ~inFlight) \/ confirm' = confirm
      PROVE  ScheduledInv'
  <2>1. PlansRest'
    BY <1>1, <1>3 DEF PlansRest, IsPlanTask, ReadingsAreCovered, Covered, OneIsRecent, HasRead,
       WillRead, IsRecent, Sch!PlansFreshOrPending, Sch!Idle, Sch!Task
  <2>2. ~inFlight => operation.kind \notin {"create", "update"}
    BY <1>1 DEF ClicksRest
  <2>3. ClicksRest'
    BY <1>1, <1>3, <2>2 DEF ClicksRest, Sch!ArmedIsShown
  <2> QED
    BY <2>1, <2>3 DEF ScheduledInv
<1>4. CASE Sch!OpenEditor \/ Sch!CloseEditor
  BY <1>3, <1>4 DEF Sch!OpenEditor, Sch!CloseEditor, Sch!server, Sch!hist
<1>5. CASE Sch!SubmitScheduledTask
  <2>1. PICK kind : kind = IF editing = None THEN "create" ELSE "update"
    OBVIOUS
  <2> QED
    BY <1>5, <2>1, ClicksStart DEF Sch!SubmitScheduledTask
<1>6. ASSUME NEW p \in Plans, Sch!OthersChange(p) PROVE ScheduledInv'
  BY <1>3, <1>6 DEF Sch!OthersChange, Sch!page, Sch!hist
<1>7. ASSUME NEW p \in Plans, Sch!SetPausedOrRunNow(p) PROVE ScheduledInv'
  BY <1>7, ClicksStart DEF Sch!SetPausedOrRunNow
<1>8. ASSUME NEW p \in Plans, Sch!ArmDelete(p) PROVE ScheduledInv'
  BY <1>3, <1>8 DEF Sch!ArmDelete, Sch!Row, Sch!server, Sch!hist
<1>9. ASSUME NEW p \in Plans, Sch!DeletePlan(p) PROVE ScheduledInv'
  BY <1>9, ClicksStart DEF Sch!DeletePlan
<1> QED
  BY <1>2, <1>4, <1>5, <1>6, <1>7, <1>8, <1>9 DEF Sch!Next

-----------------------------------------------------------------------------
(* Provider catalog.                                                        *)

\* The loop runs as long as the session it was started in, and whoever reads
\* the catalog started it.
LoopRuns ==
    /\ generation \in 0..MaxSessions
    /\ loop # None => cOnline /\ loop = generation
    /\ models # None \/ request # None \/ resources # None => loop # None

IsCatalog(c) == c \in [Providers -> SUBSET Models]

CatalogsAreKnown ==
    /\ models # None => IsCatalog(models)
    /\ IsCatalog(offered)
    /\ request # None =>
        /\ request = [gen |-> request.gen, id |-> request.id, source |-> request.source,
                      answer |-> request.answer]
        /\ request.answer # None => IsCatalog(request.answer)

IsShaped(choice) == choice = [s \in Cat!Scopes |-> [p \in Providers |-> choice[s][p]]]

\* Choices are good for a catalog if each names what the catalog offers, as
\* far as it has models of the provider.
Good(choice, cat) ==
    /\ IsShaped(choice)
    /\ \A s \in Cat!Scopes, p \in Providers :
          choice[s][p] # Cat!NoChoice /\ cat[p] # {} =>
              choice[s][p].model \in cat[p] /\ choice[s][p].effort \in Efforts[choice[s][p].model]

ChoicesAreGood ==
    /\ IsShaped(chosen)
    /\ models # None /\ resources # None => Good(chosen, models)

CatalogInv == LoopRuns /\ CatalogsAreKnown /\ ChoicesAreGood

\* A choice that was repaired names a model of the offer and an effort of it.
LEMMA RepairedIsOffered ==
    ASSUME PagesAssumption, NEW some \in SUBSET Models, some # {}, NEW c,
           Cat!Repaired(some, c) # Cat!NoChoice
    PROVE  /\ Cat!Repaired(some, c).model \in some
           /\ Cat!Repaired(some, c).effort \in Efforts[Cat!Repaired(some, c).model]
<1>1. PICK m : m = Cat!ResolveModel(some, c.model)
  OBVIOUS
<1>2. m \in some
  BY <1>1 DEF Cat!ResolveModel
<1>3. PICK e : e = Cat!ResolveEffort(m, c.effort)
  OBVIOUS
<1>4. e \in Efforts[m]
  BY <1>2, <1>3 DEF Cat!ResolveEffort, PagesAssumption, Cat!CatalogAssumption
<1>5. Cat!Repaired(some, c) = IF m = None THEN Cat!NoChoice ELSE [model |-> m, effort |-> e]
  BY <1>1, <1>3 DEF Cat!Repaired
<1> QED
  BY <1>2, <1>4, <1>5

LEMMA ReconciledIsGood ==
    ASSUME PagesAssumption, NEW cat, cat # None, IsCatalog(cat), NEW agents, agents # None,
           NEW choice
    PROVE  Good(Cat!Reconciled(choice, cat, agents), cat)
<1>1. PICK r : r = Cat!Reconciled(choice, cat, agents)
  OBVIOUS
<1>2. r = [s \in Cat!Scopes |-> [p \in Providers |-> r[s][p]]]
  BY <1>1 DEF Cat!Reconciled
<1>3. ASSUME NEW s \in Cat!Scopes, NEW p \in Providers, r[s][p] # Cat!NoChoice
      PROVE  /\ r[s][p] = Cat!Repaired(cat[p], choice[s][p])
             /\ cat[p] # {}
  BY <1>1, <1>3 DEF Cat!Reconciled
<1>4. \A p \in Providers : cat[p] \in SUBSET Models
  BY DEF IsCatalog
<1>5. ASSUME NEW s \in Cat!Scopes, NEW p \in Providers, r[s][p] # Cat!NoChoice
      PROVE  r[s][p].model \in cat[p] /\ r[s][p].effort \in Efforts[r[s][p].model]
  <2>1. PICK c : c = choice[s][p]
    OBVIOUS
  <2>2. PICK o : o = cat[p]
    OBVIOUS
  <2>3. r[s][p] = Cat!Repaired(o, c) /\ o # {} /\ o \in SUBSET Models
    BY <1>3, <1>4, <1>5, <2>1, <2>2
  <2>4. Cat!Repaired(o, c) # Cat!NoChoice
    BY <1>5, <2>3
  <2> QED
    BY <2>2, <2>3, <2>4, RepairedIsOffered
<1> QED
  BY <1>1, <1>2, <1>5 DEF Good, IsShaped

\* The loop.
LEMMA LoopStep ==
    ASSUME PagesAssumption, LoopRuns, Cat!Next
    PROVE  LoopRuns'
<1>1. MaxSessions \in Nat /\ None \notin 0..MaxSessions
  BY DEF PagesAssumption, Cat!CatalogAssumption
<1>2. generation # None
  BY <1>1 DEF LoopRuns
<1>3. ASSUME UNCHANGED <<cOnline, generation, loop>>,
             models' # None \/ request' # None \/ resources' # None =>
                 models # None \/ request # None \/ resources # None
      PROVE  LoopRuns'
  BY <1>3 DEF LoopRuns
<1>4. ASSUME NEW agents, Cat!SnapshotArrives(agents) PROVE LoopRuns'
  <2>1. cOnline /\ UNCHANGED <<cOnline, generation>>
    BY <1>4 DEF Cat!SnapshotArrives
  <2>2. CASE resources = None /\ models = None /\ request = None
    <3>1. loop' = IF loop = None THEN generation ELSE loop
      BY <1>4, <2>2 DEF Cat!SnapshotArrives, Cat!Bootstrap
    <3> QED
      BY <1>2, <2>1, <3>1 DEF LoopRuns
  <2>3. CASE ~(resources = None /\ models = None /\ request = None)
    <3>1. UNCHANGED loop
      BY <1>4, <2>3 DEF Cat!SnapshotArrives, Cat!Bootstrap, Cat!reading
    <3> QED
      BY <2>1, <2>3, <3>1 DEF LoopRuns
  <2> QED
    BY <2>2, <2>3
<1>5. CASE Cat!ManualRefresh
  BY <1>3, <1>5 DEF Cat!ManualRefresh, Cat!session
<1>6. CASE Cat!Tick
  <2>1. loop = generation /\ cOnline
    BY <1>6 DEF Cat!Tick
  <2>2. UNCHANGED <<cOnline, generation, resources, loop>>
    BY <1>6 DEF Cat!Tick, Cat!session
  <2> QED
    BY <1>2, <2>1, <2>2 DEF LoopRuns
<1>7. CASE Cat!DaemonAnswers \/ Cat!CatalogArrives \/ Cat!CatalogFails
  BY <1>3, <1>7 DEF Cat!DaemonAnswers, Cat!CatalogArrives, Cat!CatalogFails, Cat!session
<1>8. ASSUME NEW s, NEW p, NEW x, Cat!ChooseModel(s, p, x) \/ Cat!ChooseEffort(s, p, x)
      PROVE  LoopRuns'
  BY <1>3, <1>8 DEF Cat!ChooseModel, Cat!ChooseEffort, Cat!session, Cat!reading
<1>9. ASSUME NEW p, Cat!ChooseProvider(p) \/ Cat!ResetProject(p) PROVE LoopRuns'
  BY <1>3, <1>9 DEF Cat!ChooseProvider, Cat!ResetProject, Cat!session, Cat!reading
<1>10. ASSUME NEW a, NEW j, NEW p, Cat!AgentCreated(a, j, p) PROVE LoopRuns'
  BY <1>3, <1>10 DEF Cat!AgentCreated, Cat!reading
<1>11. CASE Cat!Connect \/ Cat!Disconnect
  BY <1>1, <1>11 DEF Cat!Connect, Cat!Disconnect, Cat!ClearSession, LoopRuns
<1>12. CASE Cat!GoesOnline
  BY <1>12 DEF Cat!GoesOnline, Cat!reading, LoopRuns
<1>13. CASE Cat!DaemonChanges
  BY <1>3, <1>13 DEF Cat!DaemonChanges, Cat!session, Cat!reading
<1> QED
  BY <1>4, <1>5, <1>6, <1>7, <1>8, <1>9, <1>10, <1>11, <1>12, <1>13 DEF Cat!Next

\* What the daemon offers and answers are catalogs.
LEMMA KnownStep ==
    ASSUME PagesAssumption, CatalogsAreKnown, Cat!Next
    PROVE  CatalogsAreKnown'
<1>1. \A c \in Catalogs : IsCatalog(c)
  BY DEF PagesAssumption, Cat!CatalogAssumption, IsCatalog
<1>2. ASSUME models' \in {models, None}, request' \in {request, None}, UNCHANGED offered
      PROVE  CatalogsAreKnown'
  BY <1>2 DEF CatalogsAreKnown, IsCatalog
<1>3. ASSUME NEW source, Cat!Requested(source), UNCHANGED offered PROVE CatalogsAreKnown'
  <2>1. CASE request # None
    BY <1>2, <1>3, <2>1 DEF Cat!Requested
  <2>2. CASE request = None
    <3>1. models' \in {models, None}
      BY <1>3, <2>2 DEF Cat!Requested
    <3>2. PICK r : r = [gen |-> generation, id |-> requestId', source |-> source, answer |-> None]
      OBVIOUS
    <3>3. request' = r
      BY <1>3, <2>2, <3>2 DEF Cat!Requested
    <3>4. r = [gen |-> r.gen, id |-> r.id, source |-> r.source, answer |-> r.answer]
          /\ r.answer = None
      BY <3>2
    <3> QED
      BY <1>3, <3>1, <3>3, <3>4 DEF CatalogsAreKnown, IsCatalog
  <2> QED
    BY <2>1, <2>2
<1>4. ASSUME NEW agents, Cat!SnapshotArrives(agents) PROVE CatalogsAreKnown'
  <2>1. UNCHANGED offered /\ (Cat!Requested("Initial") \/ UNCHANGED Cat!reading)
    BY <1>4 DEF Cat!SnapshotArrives, Cat!Bootstrap
  <2> QED
    BY <1>2, <1>3, <2>1 DEF Cat!reading
<1>5. CASE Cat!ManualRefresh
  BY <1>3, <1>5 DEF Cat!ManualRefresh
<1>6. CASE Cat!Tick
  BY <1>3, <1>6 DEF Cat!Tick
<1>7. CASE Cat!DaemonAnswers
  <2>1. request # None /\ request' = [request EXCEPT !.answer = offered] /\ UNCHANGED <<models, offered>>
    BY <1>7 DEF Cat!DaemonAnswers
  <2>2. request' = [gen |-> request.gen, id |-> request.id, source |-> request.source,
                    answer |-> offered]
    BY <2>1 DEF CatalogsAreKnown
  <2> QED
    BY <2>1, <2>2 DEF CatalogsAreKnown, IsCatalog
<1>8. CASE Cat!CatalogArrives
  <2>1. request # None /\ request.answer # None /\ models' = request.answer /\ request' = None
        /\ UNCHANGED offered
    BY <1>8 DEF Cat!CatalogArrives
  <2> QED
    BY <2>1 DEF CatalogsAreKnown, IsCatalog
<1>9. CASE Cat!CatalogFails
  <2>1. models' \in {models, Cat!Empty} /\ request' = None /\ UNCHANGED offered
    BY <1>9 DEF Cat!CatalogFails
  <2>2. IsCatalog(Cat!Empty)
    BY DEF IsCatalog, Cat!Empty
  <2> QED
    BY <2>1, <2>2 DEF CatalogsAreKnown, IsCatalog
<1>10. ASSUME NEW s, NEW p, NEW x, Cat!ChooseModel(s, p, x) \/ Cat!ChooseEffort(s, p, x)
       PROVE  CatalogsAreKnown'
  BY <1>2, <1>10 DEF Cat!ChooseModel, Cat!ChooseEffort, Cat!reading
<1>11. ASSUME NEW p, Cat!ChooseProvider(p) \/ Cat!ResetProject(p) PROVE CatalogsAreKnown'
  BY <1>2, <1>11 DEF Cat!ChooseProvider, Cat!ResetProject, Cat!reading
<1>12. ASSUME NEW a, NEW j, NEW p, Cat!AgentCreated(a, j, p) PROVE CatalogsAreKnown'
  BY <1>2, <1>12 DEF Cat!AgentCreated, Cat!reading
<1>13. CASE Cat!Connect \/ Cat!Disconnect
  BY <1>2, <1>13 DEF Cat!Connect, Cat!Disconnect, Cat!ClearSession
<1>14. CASE Cat!GoesOnline
  BY <1>2, <1>14 DEF Cat!GoesOnline, Cat!reading
<1>15. CASE Cat!DaemonChanges
  <2>1. UNCHANGED <<models, request>> /\ offered' \in Catalogs
    BY <1>15 DEF Cat!DaemonChanges, Cat!reading
  <2> QED
    BY <1>1, <2>1 DEF CatalogsAreKnown, IsCatalog
<1> QED
  BY <1>4, <1>5, <1>6, <1>7, <1>8, <1>9, <1>10, <1>11, <1>12, <1>13, <1>14, <1>15 DEF Cat!Next

LEMMA ShapeStays ==
    ASSUME NEW f, IsShaped(f), NEW s, NEW p, NEW c
    PROVE  IsShaped([f EXCEPT ![s][p] = c])
<1>1. PICK g : g = [f EXCEPT ![s][p] = c]
  OBVIOUS
<1>2. g = [t \in Cat!Scopes |-> [q \in Providers |-> g[t][q]]]
  BY <1>1 DEF IsShaped
<1> QED
  BY <1>1, <1>2 DEF IsShaped

\* One choice of a scope is replaced by a good one.
LEMMA ChosenAnew ==
    ASSUME ChoicesAreGood, models # None, IsCatalog(models), models' = models,
           resources' # None => resources # None,
           NEW s \in Cat!Scopes, NEW p \in Providers, NEW c,
           chosen' = [chosen EXCEPT ![s][p] = c],
           c # Cat!NoChoice => c.model \in models[p] /\ c.effort \in Efforts[c.model]
    PROVE  ChoicesAreGood'
<1>1. \A t \in Cat!Scopes, q \in Providers : chosen'[t][q] = IF t = s /\ q = p THEN c ELSE chosen[t][q]
  BY DEF ChoicesAreGood, IsShaped
<1>2. chosen' = [t \in Cat!Scopes |-> [q \in Providers |-> chosen'[t][q]]]
  <2>1. PICK f : f = chosen
    OBVIOUS
  <2> QED
    BY <2>1, ShapeStays DEF ChoicesAreGood, IsShaped
<1>3. ASSUME models # None, resources' # None PROVE Good(chosen, models)'
  <2>1. ASSUME NEW t \in Cat!Scopes, NEW q \in Providers, chosen'[t][q] # Cat!NoChoice,
               models[q] # {}
        PROVE  chosen'[t][q].model \in models[q]
               /\ chosen'[t][q].effort \in Efforts[chosen'[t][q].model]
    <3>1. CASE t = s /\ q = p
      BY <1>1, <2>1, <3>1
    <3>2. CASE ~(t = s /\ q = p)
      <4>1. chosen'[t][q] = chosen[t][q]
        BY <1>1, <3>2
      <4>2. Good(chosen, models)
        BY <1>3 DEF ChoicesAreGood
      <4> QED
        BY <2>1, <4>1, <4>2 DEF Good
    <3> QED
      BY <3>1, <3>2
  <2> QED
    BY <1>2, <2>1 DEF Good, IsShaped, Cat!NoChoice, Cat!Scopes
<1> QED
  BY <1>2, <1>3 DEF ChoicesAreGood, IsShaped

LEMMA ChoicesStep ==
    ASSUME PagesAssumption, CatalogsAreKnown, ChoicesAreGood, Cat!Next
    PROVE  ChoicesAreGood'
<1>1. ASSUME UNCHANGED chosen, models' \in {models, None},
             models' # None /\ resources' # None => resources # None
      PROVE  ChoicesAreGood'
  BY <1>1 DEF ChoicesAreGood, Good, IsShaped, Cat!Scopes, Cat!NoChoice
<1>2. ASSUME NEW agents, NEW choice, models # None,
             chosen' = Cat!Reconciled(choice, models, agents), resources' = agents,
             models' = models, agents # None
      PROVE  ChoicesAreGood'
  <2>1. IsCatalog(models)
    BY <1>2 DEF CatalogsAreKnown
  <2>2. PICK cat : cat = models
    OBVIOUS
  <2>3. Good(chosen', cat)
    BY <1>2, <2>1, <2>2, ReconciledIsGood
  <2> QED
    BY <1>2, <2>2, <2>3 DEF ChoicesAreGood, Good, IsShaped, Cat!Scopes, Cat!NoChoice
<1>3. ASSUME NEW agents, Cat!SnapshotArrives(agents) PROVE ChoicesAreGood'
  <2>1. chosen' = Cat!Reconciled(chosen, models, agents) /\ resources' = agents
        /\ (Cat!Bootstrap \/ UNCHANGED models)
    BY <1>3 DEF Cat!SnapshotArrives, Cat!reading
  <2>2. models' = models
    BY <2>1 DEF Cat!Bootstrap, Cat!Requested, Cat!reading
  <2>3. CASE models = None \/ agents = None
    <3>1. chosen' = chosen
      BY <2>1, <2>3 DEF Cat!Reconciled
    <3> QED
      BY <1>1, <2>1, <2>2, <2>3, <3>1
  <2>4. CASE models # None /\ agents # None
    BY <1>2, <2>1, <2>2, <2>4
  <2> QED
    BY <2>3, <2>4
<1>4. CASE Cat!ManualRefresh \/ Cat!Tick
  <2>1. UNCHANGED <<chosen, resources>> /\ models' \in {models, None}
    BY <1>4 DEF Cat!ManualRefresh, Cat!Tick, Cat!Requested, Cat!session, Cat!prefs
  <2> QED
    BY <1>1, <2>1
<1>5. CASE Cat!DaemonAnswers \/ Cat!GoesOnline \/ Cat!DaemonChanges
  BY <1>1, <1>5 DEF Cat!DaemonAnswers, Cat!GoesOnline, Cat!DaemonChanges, Cat!session, Cat!reading,
     Cat!prefs
<1>6. CASE Cat!CatalogArrives
  <2>1. PICK cat : cat = request.answer
    OBVIOUS
  <2>2. /\ models' = cat /\ cat # None /\ IsCatalog(cat) /\ resources' = resources
        /\ chosen' = Cat!Reconciled(chosen, cat, resources)
    BY <1>6, <2>1 DEF Cat!CatalogArrives, CatalogsAreKnown, Cat!session
  <2>3. CASE resources = None
    <3>1. chosen' = chosen
      BY <2>2, <2>3 DEF Cat!Reconciled
    <3> QED
      BY <2>2, <2>3, <3>1 DEF ChoicesAreGood, IsShaped, Cat!Scopes
  <2>4. CASE resources # None
    <3>1. Good(chosen', cat)
      BY <2>2, <2>4, ReconciledIsGood
    <3> QED
      BY <2>2, <3>1 DEF ChoicesAreGood, Good, IsShaped, Cat!Scopes, Cat!NoChoice
  <2> QED
    BY <2>3, <2>4
<1>7. CASE Cat!CatalogFails
  <2>1. UNCHANGED <<chosen, resources>> /\ models' = IF models = None THEN Cat!Empty ELSE models
    BY <1>7 DEF Cat!CatalogFails, Cat!session, Cat!prefs
  <2>2. CASE models = None
    <3>1. \A p \in Providers : models'[p] = {}
      BY <2>1, <2>2 DEF Cat!Empty
    <3> QED
      BY <2>1, <3>1 DEF ChoicesAreGood, Good, IsShaped, Cat!Scopes, Cat!NoChoice
  <2>3. CASE models # None
    BY <1>1, <2>1, <2>3
  <2> QED
    BY <2>2, <2>3
<1>8. ASSUME NEW p \in Providers, Cat!Available(p)
      PROVE  models # None /\ IsCatalog(models) /\ models[p] # {} /\ models[p] \in SUBSET Models
  BY <1>8 DEF Cat!Available, CatalogsAreKnown, IsCatalog
<1>9. ASSUME NEW p \in Providers, Cat!Available(p), NEW c, NEW d, d = Cat!Repaired(models[p], c),
             d # Cat!NoChoice
      PROVE  d.model \in models[p] /\ d.effort \in Efforts[d.model]
  <2>1. PICK o : o = models[p]
    OBVIOUS
  <2> QED
    BY <1>8, <1>9, <2>1, RepairedIsOffered
<1>10. ASSUME NEW s \in Cat!Scopes, NEW p \in Providers, NEW m, Cat!ChooseModel(s, p, m)
       PROVE  ChoicesAreGood'
  <2>1. Cat!Available(p) /\ UNCHANGED <<resources, models>>
        /\ chosen' = [chosen EXCEPT ![s][p] = Cat!Repaired(models[p], [@ EXCEPT !.model = m])]
    BY <1>10 DEF Cat!ChooseModel, Cat!session, Cat!reading
  <2>2. PICK d : d = Cat!Repaired(models[p], [chosen[s][p] EXCEPT !.model = m])
    OBVIOUS
  <2>3. chosen' = [chosen EXCEPT ![s][p] = d]
    BY <2>1, <2>2
  <2> QED
    BY <1>8, <1>9, <2>1, <2>2, <2>3, ChosenAnew
<1>11. ASSUME NEW s \in Cat!Scopes, NEW p \in Providers, NEW e, Cat!ChooseEffort(s, p, e)
       PROVE  ChoicesAreGood'
  <2>1. PICK c : c = Cat!Repaired(models[p], chosen[s][p])
    OBVIOUS
  <2>2. PICK d : d = IF e \in Efforts[c.model] THEN [c EXCEPT !.effort = e] ELSE c
    OBVIOUS
  <2>3. Cat!Available(p) /\ UNCHANGED <<resources, models>> /\ chosen' = [chosen EXCEPT ![s][p] = d]
    BY <1>11, <2>1, <2>2 DEF Cat!ChooseEffort, Cat!session, Cat!reading
  <2>4. d # Cat!NoChoice => d.model \in models[p] /\ d.effort \in Efforts[d.model]
    <3>1. CASE d = c
      BY <1>9, <2>1, <2>3, <3>1
    <3>2. CASE d # c
      <4>1. PICK m : m = Cat!ResolveModel(models[p], chosen[s][p].model)
        OBVIOUS
      <4>2. PICK f : f = Cat!ResolveEffort(m, chosen[s][p].effort)
        OBVIOUS
      <4>3. c = IF m = None THEN Cat!NoChoice ELSE [model |-> m, effort |-> f]
        BY <2>1, <4>1, <4>2 DEF Cat!Repaired
      <4>4. m \in models[p]
        <5>1. PICK o : o = models[p] /\ o # {}
          BY <1>8, <2>3
        <5> QED
          BY <4>1, <5>1 DEF Cat!ResolveModel
      <4>5. c.model = m /\ d = [model |-> m, effort |-> e] /\ e \in Efforts[m]
        BY <2>2, <3>2, <4>3 DEF Cat!NoChoice
      <4> QED
        BY <4>4, <4>5
    <3> QED
      BY <3>1, <3>2
  <2> QED
    BY <1>8, <2>3, <2>4, ChosenAnew
<1>12. ASSUME NEW p \in Providers, Cat!ChooseProvider(p) PROVE ChoicesAreGood'
  <2>1. UNCHANGED <<resources, models>> /\ models # None
        /\ (chosen' = chosen \/ chosen' = Cat!Reconciled(chosen, models, resources))
    BY <1>12 DEF Cat!ChooseProvider, Cat!Available, Cat!session, Cat!reading
  <2>2. CASE resources = None
    <3>1. chosen' = chosen
      BY <2>1, <2>2 DEF Cat!Reconciled
    <3> QED
      BY <1>1, <2>1, <3>1
  <2>3. CASE resources # None
    BY <1>1, <1>2, <2>1, <2>3
  <2> QED
    BY <2>2, <2>3
<1>13. ASSUME NEW a, NEW j, NEW p, Cat!AgentCreated(a, j, p) PROVE ChoicesAreGood'
  <2>1. PICK choice : choice = [chosen EXCEPT ![a][p] = Cat!ForNewTask(j, p)]
    OBVIOUS
  <2>2. UNCHANGED models /\ models # None /\ chosen' = Cat!Reconciled(choice, models, resources')
    BY <1>13, <2>1 DEF Cat!AgentCreated, Cat!Available, Cat!reading
  <2>3. CASE resources' = None
    <3>1. PICK f : f = chosen
      OBVIOUS
    <3>2. IsShaped(choice)
      BY <2>1, <3>1, ShapeStays DEF ChoicesAreGood
    <3>3. chosen' = choice
      BY <2>2, <2>3 DEF Cat!Reconciled
    <3> QED
      BY <2>3, <3>2, <3>3 DEF ChoicesAreGood, IsShaped, Cat!Scopes
  <2>4. CASE resources' # None
    BY <1>2, <2>2, <2>4
  <2> QED
    BY <2>3, <2>4
<1>14. CASE Cat!Connect \/ Cat!Disconnect
  <2>1. UNCHANGED chosen /\ models' = None
    BY <1>14 DEF Cat!Connect, Cat!Disconnect, Cat!ClearSession, Cat!prefs
  <2> QED
    BY <1>1, <2>1
<1>15. ASSUME NEW j \in {p1}, Cat!ResetProject(j) PROVE ChoicesAreGood'
  <2>1. PICK none : none = [p \in Providers |-> Cat!NoChoice]
    OBVIOUS
  <2>2. chosen' = [chosen EXCEPT ![j] = none] /\ UNCHANGED <<models, resources>>
    BY <1>15, <2>1 DEF Cat!ResetProject, Cat!session, Cat!reading
  <2>3. \A s \in Cat!Scopes : chosen'[s] = IF s = j THEN none ELSE chosen[s]
    BY <2>2 DEF ChoicesAreGood, IsShaped
  <2>4. IsShaped(chosen')
    <3>1. chosen' = [s \in Cat!Scopes |-> chosen'[s]]
      BY <2>2 DEF ChoicesAreGood, IsShaped
    <3>2. \A s \in Cat!Scopes : chosen'[s] = [p \in Providers |-> chosen'[s][p]]
      BY <2>1, <2>3 DEF ChoicesAreGood, IsShaped
    <3> QED
      BY <3>1, <3>2 DEF IsShaped
  <2>5. ASSUME NEW s \in Cat!Scopes, NEW p \in Providers, chosen'[s][p] # Cat!NoChoice
        PROVE  chosen'[s][p] = chosen[s][p]
    BY <2>1, <2>3, <2>5
  <2>6. ASSUME models # None, resources # None PROVE Good(chosen', models)
    <3>1. Good(chosen, models)
      BY <2>6 DEF ChoicesAreGood
    <3> QED
      BY <2>4, <2>5, <3>1 DEF Good
  <2> QED
    BY <2>2, <2>4, <2>6 DEF ChoicesAreGood, Good, IsShaped, Cat!Scopes, Cat!NoChoice
<1> QED
  BY <1>3, <1>4, <1>5, <1>6, <1>7, <1>10, <1>11, <1>12, <1>13, <1>14, <1>15 DEF Cat!Next

LEMMA CatalogStep ==
    ASSUME PagesAssumption PROVE CatalogInv /\ Cat!Next => CatalogInv'
BY LoopStep, KnownStep, ChoicesStep DEF CatalogInv

LEMMA CatalogImplies ==
    ASSUME PagesAssumption, CatalogInv PROVE Cat!LoopAlive /\ Cat!ChoicesAreOffered
<1>1. Cat!LoopAlive
  BY DEF CatalogInv, LoopRuns, Cat!LoopAlive
<1>2. Cat!ChoicesAreOffered
  BY DEF CatalogInv, ChoicesAreGood, Good, Cat!ChoicesAreOffered
<1> QED
  BY <1>1, <1>2

-----------------------------------------------------------------------------
(* The workspace's files and its Git status.                                *)

WorldIsShaped ==
    /\ events \in Seq([ws : Workspaces, touched : Changes])
    /\ version = [w \in Workspaces |-> [i \in Items |-> version[w][i]]]
    /\ gitVersion = [w \in Workspaces |-> gitVersion[w]]
    /\ queue = [dir |-> queue.dir, file |-> queue.file, git |-> queue.git]
    /\ queue.dir \in Dirs \cup {None} /\ queue.file \in Files \cup {None}

\* A change of the workspace's items T is on its way.
Tells(evs, w, T) == \E k \in 1..Len(evs) : evs[k].ws = w /\ evs[k].touched \cap T # {}

\* What was read is the daemon's version, or the change is on its way.
IsFresh(seen, v, evs)    == seen.version = v[seen.ws][seen.path] \/ Tells(evs, seen.ws, {seen.path})
IsGitFresh(seen, v, evs) == seen.version = v[seen.ws] \/ Tells(evs, seen.ws, Items)

\* A read belongs to its target and to a session, and closes the preview.
FilesAreShaped ==
    /\ fileTask # None =>
        /\ fileTask = [ws |-> fileTask.ws, path |-> fileTask.path, version |-> fileTask.version]
        /\ fileTask.path \in Items /\ fileOp = fileTask.path
        /\ online /\ fileTask.ws # None
    /\ file # None => file.path \in Files /\ fileOp = None /\ online
    /\ listing # None => listing.path \in Dirs /\ online

\* What is shown, and what is being read, is of the selected workspace.  A
\* directory on its way replaces the one shown; a read of a file does not.  An
\* answer that was overtaken by a change is followed by another reading.
FilesAreCovered ==
    /\ listing # None =>
        /\ listing.ws = sel.workspace
        /\ IsFresh(listing, version, events) \/ queue.dir # None \/ fileOp \in Dirs \/ dirFailed
    /\ file # None =>
        /\ file.ws = sel.workspace
        /\ IsFresh(file, version, events) \/ queue.file # None
    /\ fileTask # None =>
        /\ fileTask.ws = sel.workspace
        /\ \/ fileTask.version = 0
           \/ IsFresh(fileTask, version, events)
           \/ fileTask.path \in Dirs /\ queue.dir # None
           \/ fileTask.path \in Files /\ queue.file # None

FilesInv == FilesAreShaped /\ (~strayed => FilesAreCovered)

\* The same of the Git status; the read of a diff does not replace it.
GitIsShaped ==
    /\ gitTask # None =>
        /\ gitTask = [ws |-> gitTask.ws, version |-> gitTask.version]
        /\ gitOp # "Idle" /\ online /\ gitTask.ws # None
    /\ git # None => online

GitIsCovered ==
    /\ git # None =>
        /\ git.ws = sel.workspace
        /\ \/ IsGitFresh(git, gitVersion, events)
           \/ queue.git \/ gitOp = "LoadingStatus" \/ gitFailed
    /\ gitTask # None =>
        /\ gitTask.ws = sel.workspace
        /\ \/ gitTask.version = 0 \/ gitOp # "LoadingStatus"
           \/ IsGitFresh(gitTask, gitVersion, events)
           \/ queue.git

GitInv == GitIsShaped /\ (~strayed => GitIsCovered)

WorkspaceInv == WorldIsShaped /\ FilesInv /\ GitInv

LEMMA WorkspaceImplies ==
    ASSUME PagesAssumption, WorkspaceInv PROVE ShownIsFreshOrPending
<1> SUFFICES ASSUME ~strayed PROVE ListingIsFreshOrPending /\ PreviewIsFreshOrPending
                                   /\ GitIsFreshOrPending
  BY DEF ShownIsFreshOrPending
<1>1. FilesAreCovered /\ GitIsCovered
  BY DEF WorkspaceInv, FilesInv, GitInv
<1>2. None \notin Dirs
  BY DEF PagesAssumption, WorkspaceAssumption, Items
<1>3. \A w, T : Tells(events, w, T) => Reported(w, T)
  BY DEF Tells, Reported
<1>4. ListingIsFreshOrPending
  BY <1>1, <1>2, <1>3 DEF FilesAreCovered, IsFresh, ListingIsFreshOrPending
<1>5. PreviewIsFreshOrPending
  BY <1>1, <1>3 DEF FilesAreCovered, IsFresh, PreviewIsFreshOrPending
<1>6. GitIsFreshOrPending
  BY <1>1, <1>3 DEF GitIsCovered, IsGitFresh, GitIsFreshOrPending
<1> QED
  BY <1>4, <1>5, <1>6

LEMMA TellsMore ==
    ASSUME NEW S, NEW evs \in Seq(S), NEW e \in S, NEW w, NEW T,
           Tells(evs, w, T) \/ (e.ws = w /\ e.touched \cap T # {})
    PROVE  Tells(Append(evs, e), w, T)
<1>1. Len(evs) \in Nat /\ Len(Append(evs, e)) = Len(evs) + 1
      /\ Append(evs, e)[Len(evs) + 1] = e
      /\ \A k \in 1..Len(evs) : Append(evs, e)[k] = evs[k]
  OBVIOUS
<1>2. CASE Tells(evs, w, T)
  <2>1. PICK k \in 1..Len(evs) : evs[k].ws = w /\ evs[k].touched \cap T # {}
    BY <1>2 DEF Tells
  <2>2. k \in 1..Len(Append(evs, e)) /\ Append(evs, e)[k] = evs[k]
    BY <1>1, <2>1
  <2> QED
    BY <2>1, <2>2 DEF Tells
<1>3. CASE e.ws = w /\ e.touched \cap T # {}
  <2>1. Len(evs) + 1 \in 1..Len(Append(evs, e))
    BY <1>1
  <2> QED
    BY <1>1, <1>3, <2>1 DEF Tells
<1> QED
  BY <1>2, <1>3

LEMMA TellsLess ==
    ASSUME NEW S, NEW evs \in Seq(S), evs # <<>>, NEW w, NEW T, Tells(evs, w, T),
           ~(Head(evs).ws = w /\ Head(evs).touched \cap T # {})
    PROVE  Tells(Tail(evs), w, T)
<1>1. PICK k \in 1..Len(evs) : evs[k].ws = w /\ evs[k].touched \cap T # {}
  BY DEF Tells
<1>2. Head(evs) = evs[1] /\ Len(evs) \in Nat /\ Len(Tail(evs)) = Len(evs) - 1
  OBVIOUS
<1>3. k # 1 /\ k - 1 \in 1..Len(Tail(evs)) /\ Tail(evs)[k - 1] = evs[k]
  BY <1>1, <1>2
<1> QED
  BY <1>1, <1>3 DEF Tells

\* A change in the workspace: what is up to date stays so, or is told of.
LEMMA ChangeTells ==
    ASSUME PagesAssumption, WorldIsShaped, online,
           NEW w \in Workspaces, NEW touched \in Changes, Change(w, touched), NEW seen
    PROVE  /\ seen.path \in Items /\ IsFresh(seen, version, events) =>
                  IsFresh(seen, version', events')
           /\ IsGitFresh(seen, gitVersion, events) => IsGitFresh(seen, gitVersion', events')
<1>1. PICK S : S = [ws : Workspaces, touched : Changes]
  OBVIOUS
<1>2. PICK e : e = [ws |-> w, touched |-> touched]
  OBVIOUS
<1>3. e \in S /\ events \in Seq(S) /\ events' = Append(events, e)
  BY <1>1, <1>2 DEF WorldIsShaped, Change
<1>4. \A u, T : Tells(events, u, T) \/ (w = u /\ touched \cap T # {}) => Tells(events', u, T)
  BY <1>2, <1>3, TellsMore
<1>5. touched \subseteq Items /\ touched # {}
  BY DEF PagesAssumption, WorkspaceAssumption
<1>6. ASSUME seen.path \in Items, IsFresh(seen, version, events)
      PROVE  IsFresh(seen, version', events')
  <2>1. CASE seen.ws = w /\ seen.path \in touched
    BY <1>4, <2>1 DEF IsFresh
  <2>2. CASE ~(seen.ws = w /\ seen.path \in touched)
    <3>1. version'[seen.ws][seen.path] = version[seen.ws][seen.path]
      BY <1>6, <2>2 DEF Change, WorldIsShaped
    <3> QED
      BY <1>4, <1>6, <3>1 DEF IsFresh
  <2> QED
    BY <2>1, <2>2
<1>7. ASSUME IsGitFresh(seen, gitVersion, events) PROVE IsGitFresh(seen, gitVersion', events')
  <2>1. CASE seen.ws = w
    BY <1>4, <1>5, <2>1 DEF IsGitFresh
  <2>2. CASE seen.ws # w
    <3>1. gitVersion'[seen.ws] = gitVersion[seen.ws]
      BY <2>2 DEF Change, WorldIsShaped
    <3> QED
      BY <1>4, <1>7, <3>1 DEF IsGitFresh
  <2> QED
    BY <2>1, <2>2
<1> QED
  BY <1>6, <1>7

LEMMA WorldStays ==
    ASSUME PagesAssumption, WorldIsShaped, NEW w \in Workspaces, NEW touched \in Changes,
           Change(w, touched)
    PROVE  WorldIsShaped'
<1>1. version' = [u \in Workspaces |-> [i \in Items |-> version'[u][i]]]
  <2>1. PICK f : f = [i \in Items |-> IF i \in touched THEN version[w][i] + 1 ELSE version[w][i]]
    OBVIOUS
  <2>2. PICK v : v = version
    OBVIOUS
  <2>3. v = [u \in Workspaces |-> [i \in Items |-> v[u][i]]]
    BY <2>2 DEF WorldIsShaped
  <2>4. PICK x : x = [v EXCEPT ![w] = f]
    OBVIOUS
  <2>5. x = [u \in Workspaces |-> IF u = w THEN f ELSE [i \in Items |-> v[u][i]]]
    BY <2>3, <2>4
  <2>6. x = [u \in Workspaces |-> [i \in Items |-> x[u][i]]]
    BY <2>1, <2>5
  <2>7. version' = x
    BY <2>1, <2>2, <2>4 DEF Change
  <2> QED
    BY <2>6, <2>7
<1>2. gitVersion' = [u \in Workspaces |-> gitVersion'[u]]
  BY DEF Change, WorldIsShaped
<1>3. events' \in Seq([ws : Workspaces, touched : Changes])
  <2>1. PICK S : S = [ws : Workspaces, touched : Changes]
    OBVIOUS
  <2>2. PICK e : e = [ws |-> w, touched |-> touched]
    OBVIOUS
  <2>3. e \in S /\ events \in Seq(S) /\ events' \in {Append(events, e), events}
    BY <2>1, <2>2 DEF WorldIsShaped, Change
  <2>4. events' \in Seq(S)
    BY <2>3
  <2> QED
    BY <2>1, <2>4
<1>4. UNCHANGED queue
  BY DEF Change
<1> QED
  BY <1>1, <1>2, <1>3, <1>4 DEF WorldIsShaped

\* What leaves the files pane, or the changes pane, as it is.
LEMMA FilesStay ==
    ASSUME FilesInv, sel'.workspace = sel.workspace,
           queue'.dir = queue.dir, queue'.file = queue.file,
           UNCHANGED <<online, listing, file, fileOp, fileTask, dirFailed, version, events>>,
           ~strayed' => ~strayed
    PROVE  FilesInv'
BY DEF FilesInv, FilesAreShaped, FilesAreCovered, IsFresh, Tells

LEMMA GitStays ==
    ASSUME GitInv, sel'.workspace = sel.workspace, queue'.git = queue.git,
           UNCHANGED <<online, git, gitOp, gitTask, gitFailed, gitVersion, events>>,
           ~strayed' => ~strayed
    PROVE  GitInv'
BY DEF GitInv, GitIsShaped, GitIsCovered, IsGitFresh, Tells

\* What clears both, and moves the selection or ends the session.
LEMMA PanesCleared ==
    ASSUME WorkspaceInv, ClearWorkspace, UNCHANGED daemon
    PROVE  WorkspaceInv'
<1>1. queue' = [dir |-> None, file |-> None, git |-> FALSE]
  BY DEF ClearWorkspace, NoQueue
<1>2. WorldIsShaped'
  BY <1>1 DEF WorkspaceInv, WorldIsShaped, daemon
<1>3. FilesInv'
  BY DEF ClearWorkspace, FilesInv, FilesAreShaped, FilesAreCovered
<1>4. GitInv'
  BY DEF ClearWorkspace, GitInv, GitIsShaped, GitIsCovered
<1> QED
  BY <1>2, <1>3, <1>4 DEF WorkspaceInv

LEMMA SelectionMoves ==
    ASSUME WorkspaceInv, NEW new, SelectAndClear(new)
    PROVE  WorkspaceInv'
<1>1. CASE new.workspace # sel.workspace
  BY <1>1, PanesCleared DEF SelectAndClear
<1>2. CASE new.workspace = sel.workspace
  <2>1. UNCHANGED <<online, files, gits, queue, strayed, daemon>> /\ sel' = new
    BY <1>2 DEF SelectAndClear
  <2>2. WorldIsShaped'
    BY <2>1 DEF WorkspaceInv, WorldIsShaped, daemon
  <2>3. FilesInv'
    BY <1>2, <2>1, FilesStay DEF WorkspaceInv, files, daemon
  <2>4. GitInv'
    BY <1>2, <2>1, GitStays DEF WorkspaceInv, gits, daemon
  <2> QED
    BY <2>2, <2>3, <2>4 DEF WorkspaceInv
<1> QED
  BY <1>1, <1>2

LEMMA MovesStep ==
    ASSUME WorkspaceInv,
           \/ SidebarSelects \/ SnapshotArrives \/ CreatedSelects \/ NewTaskSelects
           \/ Disconnect \/ Reconnect
    PROVE  WorkspaceInv'
<1>1. CASE SidebarSelects \/ SnapshotArrives \/ CreatedSelects
  <2>1. PICK new : SelectAndClear(new)
    BY <1>1 DEF SidebarSelects, SnapshotArrives, CreatedSelects
  <2> QED
    BY <2>1, SelectionMoves
<1>2. CASE NewTaskSelects
  <2>1. UNCHANGED <<online, files, gits, queue, daemon>>
        /\ strayed' = (strayed \/ sel'.workspace # sel.workspace)
    BY <1>2 DEF NewTaskSelects
  <2>2. WorldIsShaped'
    BY <2>1 DEF WorkspaceInv, WorldIsShaped, daemon
  <2>3. CASE strayed'
    BY <2>1, <2>2, <2>3 DEF WorkspaceInv, FilesInv, FilesAreShaped, GitInv, GitIsShaped, files, gits
  <2>4. CASE ~strayed'
    <3>1. ~strayed /\ sel'.workspace = sel.workspace
      BY <2>1, <2>4
    <3>2. FilesInv' /\ GitInv'
      BY <2>1, <3>1, FilesStay, GitStays DEF WorkspaceInv, files, gits, daemon
    <3> QED
      BY <2>2, <3>2 DEF WorkspaceInv
  <2> QED
    BY <2>3, <2>4
<1>3. CASE Disconnect
  BY <1>3, PanesCleared DEF Disconnect
<1>4. CASE Reconnect
  <2>1. ~online /\ online' = TRUE
        /\ UNCHANGED <<sel, files, gits, queue, daemon, strayed>>
    BY <1>4 DEF Reconnect
  <2>2. WorldIsShaped'
    BY <2>1 DEF WorkspaceInv, WorldIsShaped, daemon
  <2>3. FilesInv'
    BY <2>1 DEF WorkspaceInv, FilesInv, FilesAreShaped, FilesAreCovered, files
  <2>4. GitInv'
    BY <2>1 DEF WorkspaceInv, GitInv, GitIsShaped, GitIsCovered, gits
  <2> QED
    BY <2>2, <2>3, <2>4 DEF WorkspaceInv
<1> QED
  BY <1>1, <1>2, <1>3, <1>4

\* When a read ends that was the selected workspace's, the queue is run: its
\* directory is read next, or its file, or nothing if it is empty.
LEMMA PendingRun ==
    ASSUME PagesAssumption, WorldIsShaped, CanRead, RunPendingFiles(queue), UNCHANGED daemon
    PROVE  /\ WorldIsShaped'
           /\ queue'.git = queue.git
           /\ \/ /\ queue.dir = None /\ queue.file = None /\ UNCHANGED <<queue, file>>
                 /\ fileOp' = None /\ fileTask' = None
              \/ /\ fileOp' \in Items /\ file' = None
                 /\ fileTask' = [ws |-> sel.workspace, path |-> fileOp', version |-> 0]
                 /\ queue.dir # None => fileOp' \in Dirs
<1>1. queue = [dir |-> queue.dir, file |-> queue.file, git |-> queue.git]
      /\ queue.dir \in Dirs \cup {None} /\ queue.file \in Files \cup {None}
  BY DEF WorldIsShaped
<1>2. CASE queue.dir = None /\ queue.file = None
  BY <1>2 DEF RunPendingFiles, WorldIsShaped, daemon
<1>3. CASE queue.dir # None
  <2>1. queue' = [queue EXCEPT !.dir = None] /\ Read(queue.dir)
    BY <1>3 DEF RunPendingFiles
  <2>2. queue' = [dir |-> None, file |-> queue.file, git |-> queue.git]
    BY <1>1, <2>1
  <2> QED
    BY <1>1, <1>3, <2>1, <2>2 DEF Read, Items, WorldIsShaped, daemon
<1>4. CASE queue.dir = None /\ queue.file # None
  <2>1. queue' = [queue EXCEPT !.file = None] /\ Read(queue.file)
    BY <1>4 DEF RunPendingFiles
  <2>2. queue' = [dir |-> queue.dir, file |-> None, git |-> queue.git]
    BY <1>1, <2>1
  <2> QED
    BY <1>1, <1>4, <2>1, <2>2 DEF Read, Items, WorldIsShaped, daemon
<1> QED
  BY <1>2, <1>3, <1>4

\* The files pane: a read starts, is answered, arrives, fails.
LEMMA FilesStep ==
    ASSUME PagesAssumption, WorkspaceInv,
           \/ \E path \in Items : OpenPath(path)
           \/ DaemonReads \/ ApplyRead \/ ReadFails
    PROVE  WorkspaceInv'
<1>1. WorldIsShaped /\ FilesInv /\ GitInv
  BY DEF WorkspaceInv
<1>2. /\ UNCHANGED <<online, snapshot, sel, git, gitOp, gitTask, gitFailed, version, gitVersion,
                     events, strayed>>
      /\ UNCHANGED daemon
  BY DEF OpenPath, DaemonReads, ApplyRead, ReadFails, gits, daemon
<1>3. None \notin Dirs \cup Files /\ Dirs \cap Files = {}
  BY DEF PagesAssumption, WorkspaceAssumption, Items
<1>4. queue'.git = queue.git => GitInv'
  BY <1>1, <1>2, GitStays
<1>5. UNCHANGED queue => WorldIsShaped'
  BY <1>1, <1>2 DEF WorldIsShaped
<1>6. ASSUME NEW path \in Items, OpenPath(path) PROVE WorkspaceInv'
  <2>1. /\ online /\ sel.workspace # None /\ fileOp = None
        /\ fileOp' = path /\ file' = None
        /\ fileTask' = [ws |-> sel.workspace, path |-> path, version |-> 0]
        /\ UNCHANGED <<listing, dirFailed, queue>>
    BY <1>6 DEF OpenPath, OfferedPath, CanRead, Read
  <2>2. FilesAreShaped'
    BY <1>1, <1>2, <2>1 DEF FilesInv, FilesAreShaped
  <2>3. ~strayed => FilesAreCovered'
    <3> SUFFICES ASSUME ~strayed PROVE FilesAreCovered'
      OBVIOUS
    <3>1. FilesAreCovered
      BY <1>1 DEF FilesInv
    <3> QED
      BY <1>2, <1>3, <2>1, <3>1 DEF FilesAreCovered, IsFresh, Tells
  <2> QED
    BY <1>2, <1>4, <1>5, <2>1, <2>2, <2>3 DEF FilesInv, WorkspaceInv
<1>7. CASE DaemonReads
  <2>1. /\ fileTask # None /\ UNCHANGED <<listing, file, fileOp, dirFailed, queue>>
        /\ fileTask' = [fileTask EXCEPT !.version = version[fileTask.ws][fileTask.path]]
    BY <1>7 DEF DaemonReads
  <2>2. PICK v : v = version[fileTask.ws][fileTask.path]
    OBVIOUS
  <2>3. fileTask' = [ws |-> fileTask.ws, path |-> fileTask.path, version |-> v]
    BY <1>1, <2>1, <2>2 DEF FilesInv, FilesAreShaped
  <2>4. FilesAreShaped'
    BY <1>1, <1>2, <2>1, <2>3 DEF FilesInv, FilesAreShaped
  <2>5. ~strayed => FilesAreCovered'
    BY <1>1, <1>2, <2>1, <2>2, <2>3 DEF FilesInv, FilesAreCovered, IsFresh, Tells
  <2> QED
    BY <1>2, <1>4, <1>5, <2>1, <2>4, <2>5 DEF FilesInv, WorkspaceInv
<1>8. CASE /\ ApplyRead \/ ReadFails
           /\ AnswerOfOther(fileTask)
  <2>1. fileTask # None /\ fileTask' = None /\ UNCHANGED <<listing, file, fileOp, dirFailed, queue>>
    BY <1>8 DEF ApplyRead, ReadFails
  <2>2. FilesAreShaped' /\ strayed
    BY <1>1, <1>2, <1>8, <2>1 DEF FilesInv, FilesAreShaped, FilesAreCovered, AnswerOfOther
  <2> QED
    BY <1>2, <1>4, <1>5, <2>1, <2>2 DEF FilesInv, WorkspaceInv
<1>9. CASE /\ ApplyRead \/ ReadFails
           /\ ~AnswerOfOther(fileTask)
  <2>1. /\ fileTask # None /\ fileTask.ws = sel.workspace /\ CanRead
        /\ fileTask.path \in Items /\ file = None /\ fileTask.path = fileOp
    <3>1. fileTask # None /\ fileTask.ws = sel.workspace
      BY <1>9 DEF ApplyRead, ReadFails, AnswerOfOther
    <3>2. fileOp = fileTask.path /\ fileTask.path \in Items /\ online /\ fileTask.ws # None
      BY <1>1, <3>1 DEF FilesInv, FilesAreShaped
    <3>3. file = None
      BY <1>1, <1>3, <3>2 DEF FilesInv, FilesAreShaped, Items
    <3> QED
      BY <3>1, <3>2, <3>3 DEF CanRead
  <2>2. /\ \/ listing' = fileTask /\ fileTask.version # 0 /\ fileTask.path \in Dirs
           \/ listing' = listing /\ (fileTask.path \in Files \/ dirFailed')
              /\ (dirFailed => dirFailed')
        /\ \/ RunPendingFiles(queue)
           \/ /\ file' = fileTask /\ fileTask.version # 0 /\ fileTask.path \in Files
              /\ queue.file = None /\ fileOp' = None /\ fileTask' = None /\ UNCHANGED queue
              /\ listing' = listing /\ dirFailed' = dirFailed
    BY <1>9, <2>1 DEF ApplyRead, ReadFails, Items
  <2>3. WorldIsShaped' /\ queue'.git = queue.git
    BY <1>1, <1>2, <1>5, <2>1, <2>2, PendingRun
  <2>4. CASE RunPendingFiles(queue)
    <3>1. \/ /\ queue.dir = None /\ queue.file = None /\ UNCHANGED <<queue, file>>
             /\ fileOp' = None /\ fileTask' = None
          \/ /\ fileOp' \in Items /\ file' = None
             /\ fileTask' = [ws |-> sel.workspace, path |-> fileOp', version |-> 0]
             /\ queue.dir # None => fileOp' \in Dirs
      BY <1>1, <1>2, <2>1, <2>4, PendingRun
    <3>2. FilesAreShaped'
      BY <1>1, <1>2, <2>1, <2>2, <3>1 DEF FilesInv, FilesAreShaped, CanRead
    <3>3. ~strayed => FilesAreCovered'
      <4> SUFFICES ASSUME ~strayed PROVE FilesAreCovered'
        OBVIOUS
      <4>1. FilesAreCovered
        BY <1>1 DEF FilesInv
      <4>2. file' = None
        BY <2>1, <3>1
      <4>3. fileTask' # None => fileTask'.ws = sel.workspace /\ fileTask'.version = 0
        BY <3>1
      <4>4. queue.dir # None => fileOp' \in Dirs
        BY <3>1
      <4>5. listing' # None =>
              /\ listing'.ws = sel.workspace
              /\ IsFresh(listing', version, events) \/ fileOp' \in Dirs \/ dirFailed'
        <5>1. CASE listing' = fileTask /\ fileTask.version # 0 /\ fileTask.path \in Dirs
          BY <1>3, <2>1, <4>1, <4>4, <5>1 DEF FilesAreCovered
        <5>2. CASE listing' = listing /\ (fileTask.path \in Files \/ dirFailed')
                   /\ (dirFailed => dirFailed')
          BY <1>3, <2>1, <4>1, <4>4, <5>2 DEF FilesAreCovered
        <5> QED
          BY <2>2, <5>1, <5>2
      <4> QED
        BY <1>2, <4>2, <4>3, <4>5 DEF FilesAreCovered, IsFresh, Tells
    <3> QED
      BY <1>2, <1>4, <2>3, <3>2, <3>3 DEF FilesInv, WorkspaceInv
  <2>5. CASE /\ file' = fileTask /\ fileTask.version # 0 /\ fileTask.path \in Files
             /\ queue.file = None /\ fileOp' = None /\ fileTask' = None /\ UNCHANGED queue
             /\ listing' = listing /\ dirFailed' = dirFailed
    <3>1. FilesAreShaped'
      BY <1>1, <1>2, <2>1, <2>5 DEF FilesInv, FilesAreShaped, CanRead
    <3>2. ~strayed => FilesAreCovered'
      BY <1>1, <1>2, <1>3, <2>1, <2>5 DEF FilesInv, FilesAreCovered, IsFresh, Tells
    <3> QED
      BY <1>2, <1>4, <2>3, <3>1, <3>2 DEF FilesInv, WorkspaceInv
  <2> QED
    BY <2>2, <2>4, <2>5
<1> QED
  BY <1>6, <1>7, <1>8, <1>9

\* The changes pane.
LEMMA GitStep ==
    ASSUME PagesAssumption, WorkspaceInv,
           \/ \E o \in {"LoadingStatus", "LoadingDiff"} : OpenGit(o)
           \/ DaemonReadsGit \/ ApplyGit \/ GitFails
    PROVE  WorkspaceInv'
<1>1. WorldIsShaped /\ FilesInv /\ GitInv
  BY DEF WorkspaceInv
<1>2. UNCHANGED <<online, snapshot, sel, listing, file, fileOp, fileTask, dirFailed, version,
                  gitVersion, events, strayed>>
  BY DEF OpenGit, DaemonReadsGit, ApplyGit, GitFails, files, daemon
<1>3. queue = [dir |-> queue.dir, file |-> queue.file, git |-> queue.git]
  BY <1>1 DEF WorldIsShaped
<1>4. ASSUME UNCHANGED queue \/ queue' = [queue EXCEPT !.git = FALSE], GitInv'
      PROVE  WorkspaceInv'
  <2>1. queue'.dir = queue.dir /\ queue'.file = queue.file
        /\ queue' = [dir |-> queue'.dir, file |-> queue'.file, git |-> queue'.git]
    BY <1>3, <1>4
  <2>2. FilesInv'
    BY <1>1, <1>2, <2>1, FilesStay
  <2>3. WorldIsShaped'
    BY <1>1, <1>2, <2>1 DEF WorldIsShaped
  <2> QED
    BY <1>4, <2>2, <2>3 DEF WorkspaceInv
<1>5. ASSUME NEW o \in {"LoadingStatus", "LoadingDiff"}, OpenGit(o) PROVE WorkspaceInv'
  <2>1. /\ online /\ sel.workspace # None /\ gitOp = "Idle"
        /\ gitOp' = o /\ gitTask' = [ws |-> sel.workspace, version |-> 0]
        /\ UNCHANGED <<git, gitFailed, queue>>
    BY <1>5 DEF OpenGit, OfferedGit, CanRead, ReadGit
  <2>2. GitIsShaped'
    BY <1>1, <1>2, <2>1 DEF GitInv, GitIsShaped
  <2>3. ~strayed => GitIsCovered'
    BY <1>1, <1>2, <2>1 DEF GitInv, GitIsCovered, IsGitFresh, Tells
  <2> QED
    BY <1>2, <1>4, <2>1, <2>2, <2>3 DEF GitInv
<1>6. CASE DaemonReadsGit
  <2>1. /\ gitTask # None /\ UNCHANGED <<git, gitOp, gitFailed, queue>>
        /\ gitTask' = [gitTask EXCEPT !.version = gitVersion[gitTask.ws]]
    BY <1>6 DEF DaemonReadsGit
  <2>2. PICK v : v = gitVersion[gitTask.ws]
    OBVIOUS
  <2>3. gitTask' = [ws |-> gitTask.ws, version |-> v]
    BY <1>1, <2>1, <2>2 DEF GitInv, GitIsShaped
  <2>4. GitIsShaped'
    BY <1>1, <1>2, <2>1, <2>3 DEF GitInv, GitIsShaped
  <2>5. ~strayed => GitIsCovered'
    BY <1>1, <1>2, <2>1, <2>2, <2>3 DEF GitInv, GitIsCovered, IsGitFresh, Tells
  <2> QED
    BY <1>2, <1>4, <2>1, <2>4, <2>5 DEF GitInv
<1>7. CASE /\ ApplyGit \/ GitFails
           /\ AnswerOfOther(gitTask)
  <2>1. gitTask # None /\ gitTask' = None /\ UNCHANGED <<git, gitOp, gitFailed, queue>>
    BY <1>7 DEF ApplyGit, GitFails
  <2>2. GitIsShaped' /\ strayed
    BY <1>1, <1>2, <1>7, <2>1 DEF GitInv, GitIsShaped, GitIsCovered, AnswerOfOther
  <2> QED
    BY <1>2, <1>4, <2>1, <2>2 DEF GitInv
<1>8. CASE /\ ApplyGit \/ GitFails
           /\ ~AnswerOfOther(gitTask)
  <2>1. gitTask # None /\ gitTask.ws = sel.workspace /\ CanRead
    <3>1. gitTask # None /\ gitTask.ws = sel.workspace
      BY <1>8 DEF ApplyGit, GitFails, AnswerOfOther
    <3>2. online /\ gitTask.ws # None
      BY <1>1, <3>1 DEF GitInv, GitIsShaped
    <3> QED
      BY <3>1, <3>2 DEF CanRead
  <2>2. /\ RunPendingGit(queue)
        /\ \/ gitOp = "LoadingStatus" /\ git' = gitTask /\ gitTask.version # 0
           \/ git' = git /\ (gitOp # "LoadingStatus" \/ gitFailed') /\ (gitFailed => gitFailed')
    BY <1>8 DEF ApplyGit, GitFails
  <2>3. \/ ~queue.git /\ queue' = queue /\ gitOp' = "Idle" /\ gitTask' = None
        \/ /\ queue.git /\ queue' = [queue EXCEPT !.git = FALSE] /\ gitOp' = "LoadingStatus"
           /\ gitTask' = [ws |-> sel.workspace, version |-> 0]
    BY <2>1, <2>2 DEF RunPendingGit, ReadGit
  <2>4. GitIsShaped'
    BY <1>1, <1>2, <2>1, <2>2, <2>3 DEF GitInv, GitIsShaped, CanRead
  <2>5. ~strayed => GitIsCovered'
    <3> SUFFICES ASSUME ~strayed PROVE GitIsCovered'
      OBVIOUS
    <3>1. GitIsCovered
      BY <1>1 DEF GitInv
    <3>2. git' # None =>
            /\ git'.ws = sel.workspace
            /\ IsGitFresh(git', gitVersion, events) \/ gitOp' = "LoadingStatus" \/ gitFailed'
      BY <2>1, <2>2, <2>3, <3>1 DEF GitIsCovered
    <3>3. gitTask' # None => gitTask'.ws = sel.workspace /\ gitTask'.version = 0
      BY <2>3
    <3> QED
      BY <1>2, <3>2, <3>3 DEF GitIsCovered, IsGitFresh, Tells
  <2> QED
    BY <1>2, <1>4, <2>3, <2>4, <2>5 DEF GitInv
<1> QED
  BY <1>5, <1>6, <1>7, <1>8

\* Something changes in a workspace.
LEMMA ChangeStep ==
    ASSUME PagesAssumption, WorkspaceInv, NEW w \in Workspaces, NEW touched \in Changes,
           Change(w, touched)
    PROVE  WorkspaceInv'
<1>1. WorldIsShaped /\ FilesInv /\ GitInv
  BY DEF WorkspaceInv
<1>2. UNCHANGED <<online, sel, listing, file, fileOp, fileTask, dirFailed, git, gitOp, gitTask,
                  gitFailed, queue, strayed>>
  BY DEF Change, files, gits
<1>3. WorldIsShaped'
  BY <1>1, WorldStays
<1>4. FilesAreShaped' /\ GitIsShaped'
  BY <1>1, <1>2 DEF FilesInv, FilesAreShaped, GitInv, GitIsShaped
<1>5. CASE online
  <2>1. \A seen : /\ seen.path \in Items /\ IsFresh(seen, version, events) =>
                        IsFresh(seen, version', events')
                  /\ IsGitFresh(seen, gitVersion, events) => IsGitFresh(seen, gitVersion', events')
    BY <1>1, <1>5, ChangeTells
  <2>2. ~strayed => FilesAreCovered'
    <3> SUFFICES ASSUME ~strayed PROVE FilesAreCovered'
      OBVIOUS
    <3>1. FilesAreCovered
      BY <1>1 DEF FilesInv
    <3>2. /\ listing # None => listing.path \in Items
          /\ file # None => file.path \in Items
          /\ fileTask # None => fileTask.path \in Items
      BY <1>1 DEF FilesInv, FilesAreShaped, Items
    <3>3. /\ listing # None /\ IsFresh(listing, version, events) => IsFresh(listing, version, events)'
          /\ file # None /\ IsFresh(file, version, events) => IsFresh(file, version, events)'
          /\ fileTask # None /\ IsFresh(fileTask, version, events) =>
                IsFresh(fileTask, version, events)'
      BY <1>2, <2>1, <3>2 DEF IsFresh, Tells
    <3> QED
      BY <1>2, <3>1, <3>3 DEF FilesAreCovered
  <2>3. ~strayed => GitIsCovered'
    <3>1. /\ IsGitFresh(git, gitVersion, events) => IsGitFresh(git, gitVersion, events)'
          /\ IsGitFresh(gitTask, gitVersion, events) => IsGitFresh(gitTask, gitVersion, events)'
      BY <1>2, <2>1 DEF IsGitFresh, Tells
    <3> QED
      BY <1>1, <1>2, <3>1 DEF GitInv, GitIsCovered
  <2> QED
    BY <1>2, <1>3, <1>4, <2>2, <2>3 DEF WorkspaceInv, FilesInv, GitInv
<1>6. CASE ~online
  <2>1. listing = None /\ file = None /\ fileTask = None /\ git = None /\ gitTask = None
    BY <1>1, <1>6 DEF FilesInv, FilesAreShaped, GitInv, GitIsShaped
  <2>2. FilesAreCovered' /\ GitIsCovered'
    BY <1>2, <2>1 DEF FilesAreCovered, GitIsCovered
  <2> QED
    BY <1>3, <1>4, <2>2 DEF WorkspaceInv, FilesInv, GitInv
<1> QED
  BY <1>5, <1>6

\* A change arrives.  Of another workspace, it is dropped with nothing shown
\* or read that it could be about.
LEMMA ChangedStep ==
    ASSUME PagesAssumption, WorkspaceInv, ApplyWorkspaceChanged
    PROVE  WorkspaceInv'
<1>1. WorldIsShaped /\ FilesInv /\ GitInv
  BY DEF WorkspaceInv
<1>2. PICK e : e = Head(events)
  OBVIOUS
<1>3. /\ events # <<>> /\ events' = Tail(events)
      /\ UNCHANGED <<online, snapshot, sel, version, gitVersion, strayed>>
  BY DEF ApplyWorkspaceChanged
<1>4. events' \in Seq([ws : Workspaces, touched : Changes]) /\ e.touched \subseteq Items
  <2>1. PICK S : S = [ws : Workspaces, touched : Changes]
    OBVIOUS
  <2>2. events \in Seq(S)
    BY <1>1, <2>1 DEF WorldIsShaped
  <2>3. events' \in Seq(S) /\ e \in S
    BY <1>2, <1>3, <2>2
  <2>4. e.touched \in Changes
    BY <2>1, <2>3
  <2> QED
    BY <2>1, <2>3, <2>4 DEF PagesAssumption, WorkspaceAssumption
<1>5. \A w, T : Tells(events, w, T) /\ ~(e.ws = w /\ e.touched \cap T # {}) => Tells(events', w, T)
  <2>1. PICK S : S = [ws : Workspaces, touched : Changes]
    OBVIOUS
  <2>2. events \in Seq(S)
    BY <1>1, <2>1 DEF WorldIsShaped
  <2> QED
    BY <1>2, <1>3, <2>2, TellsLess
<1>6. \A seen : /\ IsFresh(seen, version, events) /\ ~(e.ws = seen.ws /\ seen.path \in e.touched) =>
                      IsFresh(seen, version, events')
                /\ IsGitFresh(seen, gitVersion, events) /\ e.ws # seen.ws =>
                      IsGitFresh(seen, gitVersion, events')
  BY <1>5 DEF IsFresh, IsGitFresh
<1>7. None \notin Dirs \cup Files /\ Dirs \cap Files = {} /\ None \notin e.touched
  BY <1>4 DEF PagesAssumption, WorkspaceAssumption, Items
<1>8. CASE ~online \/ sel.workspace # e.ws
  <2>1. UNCHANGED <<files, gits, queue>>
    BY <1>2, <1>8 DEF ApplyWorkspaceChanged
  <2>2. WorldIsShaped'
    BY <1>1, <1>3, <1>4, <2>1 DEF WorldIsShaped
  <2>3. FilesAreShaped' /\ GitIsShaped'
    BY <1>1, <1>3, <2>1 DEF FilesInv, FilesAreShaped, GitInv, GitIsShaped, files, gits
  <2>4. ~strayed => FilesAreCovered'
    <3> SUFFICES ASSUME ~strayed PROVE FilesAreCovered'
      OBVIOUS
    <3>1. FilesAreCovered
      BY <1>1 DEF FilesInv
    <3>2. /\ listing # None => listing.ws # e.ws
          /\ file # None => file.ws # e.ws
          /\ fileTask # None => fileTask.ws # e.ws
      BY <1>1, <1>8, <3>1 DEF FilesInv, FilesAreShaped, FilesAreCovered
    <3>3. /\ listing # None /\ IsFresh(listing, version, events) => IsFresh(listing, version, events)'
          /\ file # None /\ IsFresh(file, version, events) => IsFresh(file, version, events)'
          /\ fileTask # None /\ IsFresh(fileTask, version, events) =>
                IsFresh(fileTask, version, events)'
      BY <1>3, <1>6, <2>1, <3>2 DEF IsFresh, Tells, files
    <3> QED
      BY <1>3, <2>1, <3>1, <3>3 DEF FilesAreCovered, files
  <2>5. ~strayed => GitIsCovered'
    <3> SUFFICES ASSUME ~strayed PROVE GitIsCovered'
      OBVIOUS
    <3>1. GitIsCovered
      BY <1>1 DEF GitInv
    <3>2. (git # None => git.ws # e.ws) /\ (gitTask # None => gitTask.ws # e.ws)
      BY <1>1, <1>8, <3>1 DEF GitInv, GitIsShaped, GitIsCovered
    <3>3. /\ git # None /\ IsGitFresh(git, gitVersion, events) => IsGitFresh(git, gitVersion, events)'
          /\ gitTask # None /\ IsGitFresh(gitTask, gitVersion, events) =>
                IsGitFresh(gitTask, gitVersion, events)'
      BY <1>3, <1>6, <2>1, <3>2 DEF IsGitFresh, Tells, gits
    <3> QED
      BY <1>3, <2>1, <3>1, <3>3 DEF GitIsCovered, gits
  <2> QED
    BY <1>3, <2>2, <2>3, <2>4, <2>5 DEF WorkspaceInv, FilesInv, GitInv
<1>9. CASE online /\ sel.workspace = e.ws
  <2>1. PICK d : d = IF ShownDir \in e.touched THEN ShownDir ELSE queue.dir
    OBVIOUS
  <2>2. PICK f : f = IF ShownFile \in e.touched THEN ShownFile ELSE queue.file
    OBVIOUS
  <2>3. PICK g : g = (queue.git \/ git # None \/ gitOp # "Idle")
    OBVIOUS
  <2>4. PICK q : q = Queued(e)
    OBVIOUS
  <2>5. q.dir = d /\ q.file = f /\ q.git = g
    BY <2>1, <2>2, <2>3, <2>4 DEF Queued
  <2>6. PICK h : h = (q.git /\ ~(gitOp = "Idle" /\ q.git))
    OBVIOUS
  <2>7. /\ queue' = [dir |-> IF fileOp = None /\ q.dir # None THEN None ELSE q.dir,
                     file |-> IF fileOp = None /\ q.dir = None /\ q.file # None THEN None ELSE q.file,
                     git |-> h]
        /\ IF fileOp = None /\ q.dir # None THEN Read(q.dir)
           ELSE IF fileOp = None /\ q.dir = None /\ q.file # None THEN Read(q.file)
           ELSE UNCHANGED <<file, fileOp, fileTask>>
        /\ IF gitOp = "Idle" /\ q.git THEN ReadGit("LoadingStatus") ELSE UNCHANGED <<gitOp, gitTask>>
        /\ UNCHANGED <<listing, git, dirFailed, gitFailed>>
    BY <1>2, <1>9, <2>4, <2>6 DEF ApplyWorkspaceChanged
  <2>8. d \in Dirs \cup {None} /\ f \in Files \cup {None}
    BY <1>1, <1>7, <2>1, <2>2 DEF WorldIsShaped, FilesInv, FilesAreShaped, ShownDir, ShownFile
  <2>9. WorldIsShaped'
    <3>1. queue'.dir \in Dirs \cup {None} /\ queue'.file \in Files \cup {None}
          /\ queue' = [dir |-> queue'.dir, file |-> queue'.file, git |-> queue'.git]
      BY <2>5, <2>7, <2>8
    <3> QED
      BY <1>1, <1>3, <1>4, <3>1 DEF WorldIsShaped
  <2>10. sel.workspace # None
    <3>1. PICK S : S = [ws : Workspaces, touched : Changes]
      OBVIOUS
    <3>2. events \in Seq(S)
      BY <1>1, <3>1 DEF WorldIsShaped
    <3>3. e \in S
      BY <1>2, <1>3, <3>2
    <3> QED
      BY <1>9, <3>1, <3>3 DEF PagesAssumption, SelectionAssumption
  <2>11. FilesInv'
    <3>1. ~strayed /\ listing # None =>
            /\ listing.ws = sel.workspace
            /\ IsFresh(listing, version, events') \/ d # None \/ fileOp \in Dirs \/ dirFailed
      BY <1>1, <1>6, <1>7, <2>1 DEF FilesInv, FilesAreShaped, FilesAreCovered, ShownDir
    <3>2. ~strayed /\ file # None =>
            /\ file.ws = sel.workspace
            /\ IsFresh(file, version, events') \/ f # None
      BY <1>1, <1>6, <1>7, <2>2 DEF FilesInv, FilesAreShaped, FilesAreCovered, ShownFile
    <3>3. ~strayed /\ fileTask # None =>
            /\ fileTask.ws = sel.workspace
            /\ \/ fileTask.version = 0
               \/ IsFresh(fileTask, version, events')
               \/ fileTask.path \in Dirs /\ d # None
               \/ fileTask.path \in Files /\ f # None
      BY <1>1, <1>6, <1>7, <2>1, <2>2
      DEF FilesInv, FilesAreShaped, FilesAreCovered, ShownDir, ShownFile, Items
    <3>4. ASSUME NEW path \in Dirs \cup Files, Read(path), fileOp = None,
                 d # None => path = d
          PROVE  FilesInv'
      <4>1. /\ fileOp' = path /\ file' = None
            /\ fileTask' = [ws |-> sel.workspace, path |-> path, version |-> 0]
        BY <3>4 DEF Read
      <4>2. FilesAreShaped'
        BY <1>1, <1>3, <1>9, <2>7, <2>10, <4>1 DEF FilesInv, FilesAreShaped, Items
      <4>3. ~strayed /\ listing # None => IsFresh(listing, version, events)' \/ fileOp' \in Dirs \/ dirFailed
        <5>1. d # None => fileOp' \in Dirs
          BY <2>8, <3>4, <4>1
        <5> QED
          BY <1>3, <1>7, <2>7, <3>1, <3>4, <5>1 DEF IsFresh, Tells
      <4>4. ~strayed => FilesAreCovered'
        BY <1>3, <2>7, <3>1, <4>1, <4>3 DEF FilesAreCovered
      <4> QED
        BY <1>3, <4>2, <4>4 DEF FilesInv
    <3>5. CASE fileOp = None /\ d # None
      BY <2>5, <2>7, <2>8, <3>4, <3>5
    <3>6. CASE fileOp = None /\ d = None /\ f # None
      BY <2>5, <2>7, <2>8, <3>4, <3>6
    <3>7. CASE ~(fileOp = None /\ d # None) /\ ~(fileOp = None /\ d = None /\ f # None)
      <4>1. queue'.dir = d /\ queue'.file = f /\ UNCHANGED <<listing, file, fileOp, fileTask, dirFailed>>
        BY <2>5, <2>7, <3>7
      <4>2. FilesAreShaped'
        BY <1>1, <1>3, <4>1 DEF FilesInv, FilesAreShaped
      <4>3. ~strayed => FilesAreCovered'
        BY <1>3, <3>1, <3>2, <3>3, <4>1 DEF FilesAreCovered, IsFresh, Tells
      <4> QED
        BY <1>3, <4>2, <4>3 DEF FilesInv
    <3> QED
      BY <3>5, <3>6, <3>7
  <2>12. GitInv'
    <3>1. CASE gitOp = "Idle"
      <4>1. gitTask = None
        BY <1>1, <3>1 DEF GitInv, GitIsShaped
      <4>2. CASE q.git
        <5>1. gitOp' = "LoadingStatus" /\ gitTask' = [ws |-> sel.workspace, version |-> 0]
          BY <2>7, <3>1, <4>2 DEF ReadGit
        <5>2. GitIsShaped'
          BY <1>1, <1>3, <1>9, <2>7, <2>10, <5>1 DEF GitInv, GitIsShaped
        <5>3. ~strayed => GitIsCovered'
          BY <1>1, <1>3, <2>7, <5>1 DEF GitInv, GitIsCovered
        <5> QED
          BY <1>3, <5>2, <5>3 DEF GitInv
      <4>3. CASE ~q.git
        <5>1. git = None /\ UNCHANGED <<git, gitOp, gitTask>>
          BY <2>3, <2>5, <2>7, <4>3
        <5> QED
          BY <4>1, <5>1 DEF GitInv, GitIsShaped, GitIsCovered
      <4> QED
        BY <4>2, <4>3
    <3>2. CASE gitOp # "Idle"
      <4>1. queue'.git /\ UNCHANGED <<gitOp, gitTask>>
        BY <2>3, <2>5, <2>6, <2>7, <3>2
      <4>2. GitIsShaped'
        BY <1>1, <1>3, <2>7, <4>1 DEF GitInv, GitIsShaped
      <4>3. ~strayed => GitIsCovered'
        BY <1>1, <1>3, <2>7, <4>1 DEF GitInv, GitIsCovered
      <4> QED
        BY <1>3, <4>2, <4>3 DEF GitInv
    <3> QED
      BY <3>1, <3>2
  <2> QED
    BY <2>9, <2>11, <2>12 DEF WorkspaceInv
<1> QED
  BY <1>8, <1>9

LEMMA WorkspaceStep ==
    ASSUME PagesAssumption PROVE WorkspaceInv /\ Next => WorkspaceInv'
BY MovesStep, FilesStep, GitStep, ChangeStep, ChangedStep DEF Next

-----------------------------------------------------------------------------
(* All pages.  Those that nobody looks at have nothing shown or under way   *)
(* that the session's end would have to clear.                              *)

PanesAreEmpty == listing = None /\ file = None /\ fileTask = None /\ git = None /\ gitTask = None
NoPlanIsRead  == ~onPage /\ refresh.phase = "idle" /\ operation.phase = "idle" /\ ended = 0

PagesInv ==
    /\ MutationsInv /\ IntegrationsInv /\ DevicesInv /\ PluginsInv /\ CatalogInv
    /\ ScheduledInv /\ (focus # "scheduled" => NoPlanIsRead)
    /\ WorkspaceInv /\ (focus # "workspace" => PanesAreEmpty)

LEMMA PagesStart == ASSUME PagesAssumption PROVE PagesInit => PagesInv
<1> SUFFICES ASSUME PagesInit PROVE PagesInv
  OBVIOUS
<1>1. MutationsInv /\ IntegrationsInv
  BY MutationsStart, IntegrationsStart DEF PagesInit
<1>2. DevicesInv
  BY DEF PagesInit, Dev!Init, Dev!NoDeviceCall, DeviceCalls, DevicesInv, AnswerIsRecent,
     Dev!ShownDevicesArePaired
<1>3. PluginsInv
  <2>1. Plg!Init
    BY DEF PagesInit
  <2>2. SlotIsTask
    BY <2>1 DEF Plg!Init, Plg!Free, SlotIsTask
  <2>3. ListsAreRecent
    BY <2>1 DEF Plg!Init, Plg!Free, ListsAreRecent
  <2> QED
    BY <2>1, <2>2, <2>3 DEF Plg!Init, Plg!NothingArmed, Plg!Arms, PluginsInv, Plg!UninstallOfShown
<1>4. CatalogInv
  <2>1. Cat!Init
    BY DEF PagesInit
  <2>2. LoopRuns
    BY <2>1 DEF Cat!Init, LoopRuns, PagesAssumption, Cat!CatalogAssumption
  <2>3. CatalogsAreKnown
    BY <2>1 DEF Cat!Init, CatalogsAreKnown, IsCatalog, PagesAssumption, Cat!CatalogAssumption
  <2>4. ChoicesAreGood
    BY <2>1 DEF Cat!Init, ChoicesAreGood, IsShaped
  <2> QED
    BY <2>2, <2>3, <2>4 DEF CatalogInv
<1>5. ScheduledInv /\ NoPlanIsRead
  <2>1. Sch!Init
    BY DEF PagesInit
  <2>2. IsPlanTask(refresh) /\ IsPlanTask(operation) /\ NoPlanIsRead /\ operation.kind = "load"
    BY <2>1, IdleTasks DEF Sch!Init, NoPlanIsRead
  <2>3. PlansRest
    BY <2>1, <2>2
    DEF Sch!Init, Sch!NoPlans, PlansRest, ReadingsAreCovered, Sch!PlansFreshOrPending, NoPlanIsRead
  <2>4. ClicksRest
    BY <2>1, <2>2 DEF Sch!Init, ClicksRest, NoPlanIsRead, Sch!ArmedIsShown
  <2> QED
    BY <2>2, <2>3, <2>4 DEF ScheduledInv
<1>6. WorkspaceInv /\ PanesAreEmpty
  <2>1. Init
    BY DEF PagesInit
  <2>2. PanesAreEmpty
    BY <2>1 DEF Init, PanesAreEmpty
  <2>3. WorldIsShaped
    BY <2>1 DEF Init, WorldIsShaped, NoQueue
  <2>4. FilesInv /\ GitInv
    BY <2>1 DEF Init, FilesInv, FilesAreShaped, FilesAreCovered, GitInv, GitIsShaped, GitIsCovered
  <2> QED
    BY <2>2, <2>3, <2>4 DEF WorkspaceInv
<1> QED
  BY <1>1, <1>2, <1>3, <1>4, <1>5, <1>6 DEF PagesInv

\* A page that does not take the step stays as it is, also when the session
\* ends or begins.
LEMMA MutationsRest == ASSUME MutationsInv, UNCHANGED mV PROVE MutationsInv'
BY DEF mV, MutationsInv, OneId, CreationCounted

LEMMA PlansRestToo ==
    ASSUME ScheduledInv, UNCHANGED sV, online' = online \/ NoPlanIsRead
    PROVE  ScheduledInv' /\ (NoPlanIsRead => NoPlanIsRead')
<1>1. CASE online' = online
  BY <1>1, PlansStay DEF sV, ScheduledInv, ClicksRest, Sch!ArmedIsShown, NoPlanIsRead
<1>2. CASE NoPlanIsRead
  <2>1. PlansRest'
    BY <1>2 DEF sV, ScheduledInv, PlansRest, IsPlanTask, NoPlanIsRead, ReadingsAreCovered,
       Sch!PlansFreshOrPending
  <2> QED
    BY <1>2, <2>1 DEF sV, ScheduledInv, ClicksRest, Sch!ArmedIsShown, NoPlanIsRead
<1> QED
  BY <1>1, <1>2

LEMMA PluginsRest == ASSUME PluginsInv, UNCHANGED pV PROVE PluginsInv'
BY DEF pV, PluginsInv, SlotIsTask, ListsAreRecent, Plg!Free, Plg!Arms, Plg!UninstallOfShown

LEMMA DevicesRest == ASSUME DevicesInv, UNCHANGED dV PROVE DevicesInv'
BY DEF dV, DevicesInv, AnswerIsRecent, Dev!ShownDevicesArePaired

LEMMA CatalogRests == ASSUME CatalogInv, UNCHANGED cV PROVE CatalogInv'
BY DEF cV, CatalogInv, LoopRuns, CatalogsAreKnown, IsCatalog, ChoicesAreGood, Good, IsShaped,
   Cat!Scopes, Cat!NoChoice

LEMMA IntegrationsRest == ASSUME IntegrationsInv, UNCHANGED iV PROVE IntegrationsInv'
BY SameProbes, SameDecisions DEF iV, IntegrationsInv

LEMMA WorkspaceRests ==
    ASSUME WorkspaceInv, UNCHANGED wV, online' = online \/ PanesAreEmpty
    PROVE  WorkspaceInv' /\ (PanesAreEmpty => PanesAreEmpty')
<1>1. WorldIsShaped'
  BY DEF wV, daemon, WorkspaceInv, WorldIsShaped
<1>2. CASE online' = online
  <2>1. FilesInv' /\ GitInv'
    BY <1>2, FilesStay, GitStays DEF wV, files, gits, daemon, WorkspaceInv
  <2> QED
    BY <1>1, <2>1 DEF wV, files, gits, WorkspaceInv, PanesAreEmpty
<1>3. CASE PanesAreEmpty
  <2>1. PanesAreEmpty'
    BY <1>3 DEF wV, files, gits, PanesAreEmpty
  <2>2. FilesInv' /\ GitInv'
    BY <2>1
    DEF PanesAreEmpty, FilesInv, FilesAreShaped, FilesAreCovered, GitInv, GitIsShaped, GitIsCovered
  <2> QED
    BY <1>1, <2>1, <2>2 DEF WorkspaceInv
<1> QED
  BY <1>2, <1>3

LEMMA PagesStep ==
    ASSUME PagesAssumption
    PROVE  PagesInv /\ [PagesNext]_<<focus, online, wV, mV, sV, pV, dV, cV, iV>> => PagesInv'
<1> SUFFICES ASSUME PagesInv, [PagesNext]_<<focus, online, wV, mV, sV, pV, dV, cV, iV>>
             PROVE  PagesInv'
  OBVIOUS
<1>1. /\ MutationsInv /\ IntegrationsInv /\ DevicesInv /\ PluginsInv /\ CatalogInv
      /\ ScheduledInv /\ (focus # "scheduled" => NoPlanIsRead)
      /\ WorkspaceInv /\ (focus # "workspace" => PanesAreEmpty)
      /\ focus' = focus
  BY DEF PagesInv, PagesNext
<1>2. UNCHANGED wV /\ (online' = online \/ focus # "workspace") =>
          WorkspaceInv' /\ (focus # "workspace" => PanesAreEmpty')
  BY <1>1, WorkspaceRests
<1>3. UNCHANGED sV /\ (online' = online \/ focus # "scheduled") =>
          ScheduledInv' /\ (focus # "scheduled" => NoPlanIsRead')
  BY <1>1, PlansRestToo
<1>4. MutationsInv'
  <2>1. UNCHANGED mV \/ Mut!Next
    BY DEF PagesNext
  <2> QED
    BY <1>1, <2>1, MutationsRest, MutationsStep
<1>5. IntegrationsInv'
  <2>1. UNCHANGED iV \/ Int!Next
    BY DEF PagesNext
  <2> QED
    BY <1>1, <2>1, IntegrationsRest, IntegrationsStep
<1>6. DevicesInv'
  <2>1. UNCHANGED dV \/ Dev!Next
    BY DEF PagesNext
  <2> QED
    BY <1>1, <2>1, DevicesRest, DevicesStep
<1>7. PluginsInv'
  <2>1. UNCHANGED pV \/ Plg!Next
    BY DEF PagesNext
  <2> QED
    BY <1>1, <2>1, PluginsRest, PluginsStep
<1>8. CatalogInv'
  <2>1. UNCHANGED cV \/ Cat!Next
    BY DEF PagesNext
  <2> QED
    BY <1>1, <2>1, CatalogRests, CatalogStep
<1>9. WorkspaceInv' /\ (focus # "workspace" => PanesAreEmpty')
  <2>1. \/ UNCHANGED wV /\ (online' = online \/ focus # "workspace")
        \/ Next /\ focus = "workspace"
    BY DEF PagesNext
  <2> QED
    BY <1>1, <1>2, <2>1, WorkspaceStep
<1>10. ScheduledInv' /\ (focus # "scheduled" => NoPlanIsRead')
  <2>1. \/ UNCHANGED sV /\ (online' = online \/ focus # "scheduled")
        \/ Sch!Next /\ focus = "scheduled"
    BY DEF PagesNext
  <2> QED
    BY <1>1, <1>3, <2>1, ScheduledStep
<1> QED
  BY <1>1, <1>4, <1>5, <1>6, <1>7, <1>8, <1>9, <1>10 DEF PagesInv

LEMMA PagesInvariant == PagesSpec => []PagesInv
<1>1. PagesInit => PagesInv
  BY PagesStart, PagesAssumption
<1>2. PagesInv /\ [PagesNext]_<<focus, online, wV, mV, sV, pV, dV, cV, iV>> => PagesInv'
  BY PagesStep, PagesAssumption
<1> QED
  BY <1>1, <1>2, PTL DEF PagesSpec

\* resources.rs (MutationRetry): a mutation the user repeats because its
\* answer was lost goes out under the id it had, and is applied once, in every
\* order of answers, losses and other mutations.
THEOREM RepeatedOnce == PagesSpec => []RepeatedIsAppliedOnce
<1>1. PagesInv => RepeatedIsAppliedOnce
  BY DEF PagesInv, MutationsInv, OneId, RepeatedIsAppliedOnce, Mut!RepeatedIsAppliedOnce
<1> QED
  BY <1>1, PagesInvariant, PTL

\* resources.rs (create_project_from_sources): when the creation of a project
\* from several folders fails half way, the folders reported as created were.
THEOREM ReportIsTrue == PagesSpec => []ReportedSourcesExist
<1>1. PagesInv => ReportedSourcesExist
  BY DEF PagesInv, MutationsInv, CreationCounted, ReportedSourcesExist, Mut!ReportedSourcesExist
<1> QED
  BY <1>1, PagesInvariant, PTL

\* integrations.rs (set_computer_observation, remove_allowed_application and
\* their kin): the computer is acted on only while it may be observed and an
\* application is allowed, also by what a restart reads from the file.
THEOREM LimitsHold == PagesSpec => []ActionsAreLimited
<1>1. PagesInv => ActionsAreLimited
  BY IntegrationsImply DEF PagesInv
<1> QED
  BY <1>1, PagesInvariant, PTL

\* settings.rs (load_devices, request_device_revoke): whatever the page lists
\* can connect, unless its own revocation is running, failed since the list was
\* read, or was cut off, for every order of answers, late calls and broken
\* sessions.
THEOREM ListIsTrue == PagesSpec => []ShownDevicesArePaired
<1>1. PagesInv => ShownDevicesArePaired
  BY DEF PagesInv, DevicesInv, ShownDevicesArePaired
<1> QED
  BY <1>1, PagesInvariant, PTL

\* plugins.rs, integrations.rs, provider_catalog.rs: what disables a page or
\* is shown as running has a task behind it, whatever fails in between.
THEOREM BusyHasWorkAlways == PagesSpec => []BusyHasWork
<1>1. PagesInv => BusyHasWork
  BY IntegrationsImply, PluginsImply, CatalogImplies, PagesAssumption DEF PagesInv, BusyHasWork
<1> QED
  BY <1>1, PagesInvariant, PTL

\* scheduled.rs (request_scheduled_delete), plugins.rs: a second click is
\* about a plan or a plugin the user sees, whatever list came in between.
THEOREM SecondClickIsSeen == PagesSpec => []ConfirmedIsShown
<1>1. PagesInv => ConfirmedIsShown
  BY PluginsImply DEF PagesInv, ScheduledInv, ClicksRest, ConfirmedIsShown
<1> QED
  BY <1>1, PagesInvariant, PTL

\* provider_catalog.rs, provider_selection.rs: every model and effort that is
\* remembered is one of the catalog the session has, for every order of
\* catalogs, snapshots, choices and sessions.
THEOREM ChoicesCanBeSent == PagesSpec => []ChoicesAreOffered
<1>1. PagesInv => ChoicesAreOffered
  BY CatalogImplies, PagesAssumption DEF PagesInv, ChoicesAreOffered
<1> QED
  BY <1>1, PagesInvariant, PTL

\* workspace.rs, scheduled.rs, plugins.rs: whatever a page shows out of date
\* is about to be read again, or the user was told of a failure, except the
\* panes after the new-task page moved the selection and the plans after an
\* operation's answer replaced a newer list (scheduled.rs:130).
THEOREM PagesAreFresh == PagesSpec => []EveryPageIsFresh
<1>1. PagesInv => EveryPageIsFresh
  BY WorkspaceImplies, PluginsImply, PagesAssumption
  DEF PagesInv, ScheduledInv, PlansRest, EveryPageIsFresh
<1> QED
  BY <1>1, PagesInvariant, PTL
=============================================================================
