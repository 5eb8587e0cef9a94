--------------------------- MODULE TaskFlowsProofs ----------------------------
(***************************************************************************)
(* CreatedOnce and RecoveryIsReal for any number of tasks, retries,        *)
(* resource mutations and faults.                                          *)
(***************************************************************************)
EXTENDS TaskFlows, FiniteSetTheorems, TLAPS

Methods == {"workspace", "create", "start", "stop", "delete", "update", "prompt"}
Creates == {"workspace", "create", "prompt"}    \* methods that must not take effect twice

\* The one id task n creates things under.
IdOf(n, what) == Id("task", n, <<what, 0>>)

\* The resources, as far as a creation changes them.
DaemonType ==
    /\ d = [rev |-> d.rev, status |-> d.status, done |-> d.done, spaces |-> d.spaces,
            made |-> d.made, started |-> d.started, updated |-> d.updated,
            prompts |-> d.prompts]
    /\ d.spaces \in Nat
    /\ DOMAIN d.made = Tasks /\ d.made = [n \in Tasks |-> d.made[n]]
    /\ d.prompts \in [Tasks -> Nat]
    /\ tasks \in Nat /\ tasks <= MaxTasks

\* Whatever was created was created under the id of its task, which the daemon
\* remembers.
Accounted ==
    /\ d.spaces <= Cardinality({n \in 1..tasks : IdOf(n, "workspace") \in d.done})
    /\ \A n \in Tasks :
        /\ d.made[n] # {} => IdOf(n, "create") \in d.done
        /\ \E a : d.made[n] \subseteq {a}
        /\ d.prompts[n] <= 1
        /\ d.prompts[n] # 0 => IdOf(n, "prompt") \in d.done

\* With t tasks asked for, a call that creates something carries the id of one.
CallOk(c, t) ==
    /\ c.method \in Methods
    /\ c.method \in Creates => \E n \in 1..t : c.id = IdOf(n, c.method)

CallType(x) == x = NoCall \/ x = [phase |-> x.phase, c |-> x.c, snap |-> x.snap]

CallsInv ==
    /\ DOMAIN call = Flows /\ call = [f \in Flows |-> call[f]]
    /\ \A f \in Flows : CallType(call[f]) /\ (call[f].phase = "sent" => CallOk(call[f].c, tasks))
    /\ \A c \in late : CallOk(c, tasks)

\* A recovery record names a task the user asked for, wherever it is kept.
RecordOk(r, t) ==
    \/ r = NoRecovery
    \/ /\ r = [task |-> r.task, stage |-> r.stage, agent |-> r.agent]
       /\ r.task \in 1..t /\ r.stage \in Stages

FlowOk(x, t) ==
    \/ x = NoFlow
    \/ /\ x = [kind |-> x.kind, r |-> x.r, snap |-> x.snap]
       /\ RecordOk(x.r, t) /\ x.r # NoRecovery

RecordsInv ==
    /\ RecordOk(recovery, tasks) /\ RecordOk(disk, tasks)
    /\ unsaved # NoSave => RecordOk(unsaved, tasks)
    /\ FlowOk(flow, tasks)

OnceInv == DaemonType /\ Accounted /\ CallsInv /\ RecordsInv

-----------------------------------------------------------------------------
\* The daemon applies an id once, and everything it does is accounted for.
LEMMA ExecutedFacts ==
    ASSUME DaemonType, NEW c, CallOk(c, tasks)
    PROVE  LET e == Executed(c)
           IN  /\ e = [rev |-> e.rev, status |-> e.status, done |-> e.done, spaces |-> e.spaces,
                       made |-> e.made, started |-> e.started, updated |-> e.updated,
                       prompts |-> e.prompts]
               /\ e.done = d.done \cup {c.id}
               /\ e.spaces = IF c.method = "workspace" /\ c.id \notin d.done
                             THEN d.spaces + 1 ELSE d.spaces
               /\ e.made = IF c.method = "create" /\ c.id \notin d.done
                           THEN [d.made EXCEPT ![c.id.n] = @ \cup {NextAgent}] ELSE d.made
               /\ e.prompts = IF c.method = "prompt" /\ c.id \notin d.done
                              THEN [d.prompts EXCEPT ![c.id.n] = @ + 1] ELSE d.prompts
<1> DEFINE e == Executed(c)
<1>1. CASE c.id \in d.done
  <2>1. e = d /\ d.done \cup {c.id} = d.done
    BY <1>1 DEF Executed
  <2> QED
    BY <1>1, <2>1 DEF DaemonType
<1>2. CASE c.id \notin d.done /\ c.method = "workspace"
  BY <1>2 DEF Executed, DaemonType
<1>3. CASE c.id \notin d.done /\ c.method = "create"
  <2>1. e = [d EXCEPT !.rev = @ + 1, !.done = d.done \cup {c.id},
                      !.made[c.id.n] = @ \cup {NextAgent}, !.status[NextAgent] = "idle"]
    BY <1>3 DEF Executed
  <2>2. PICK m : m = [d.made EXCEPT ![c.id.n] = @ \cup {NextAgent}]
    OBVIOUS
  <2>3. PICK t : t = [d.status EXCEPT ![NextAgent] = "idle"]
    OBVIOUS
  <2> HIDE DEF e
  <2>4. e = [d EXCEPT !.rev = @ + 1, !.done = d.done \cup {c.id}, !.made = m, !.status = t]
    BY <2>1, <2>2, <2>3 DEF DaemonType
  <2>5. e = [rev |-> d.rev + 1, status |-> t, done |-> d.done \cup {c.id}, spaces |-> d.spaces,
             made |-> m, started |-> d.started, updated |-> d.updated, prompts |-> d.prompts]
    BY <2>4 DEF DaemonType
  <2> QED
    BY <1>3, <2>2, <2>5 DEF e
<1>4. CASE c.id \notin d.done /\ c.method = "start"
  BY <1>4 DEF Executed, DaemonType
<1>5. CASE c.id \notin d.done /\ c.method = "stop"
  BY <1>5 DEF Executed, DaemonType
<1>6. CASE c.id \notin d.done /\ c.method = "delete"
  BY <1>6 DEF Executed, DaemonType
<1>7. CASE c.id \notin d.done /\ c.method = "update"
  BY <1>7 DEF Executed, DaemonType
<1>8. CASE c.id \notin d.done /\ c.method = "prompt"
  BY <1>8 DEF Executed, DaemonType
<1> QED
  BY <1>1, <1>2, <1>3, <1>4, <1>5, <1>6, <1>7, <1>8 DEF CallOk, Methods

\* The set of tasks whose workspace the daemon has made.
LEMMA Counting ==
    ASSUME NEW t \in Nat, NEW done
    PROVE  LET S == {n \in 1..t : IdOf(n, "workspace") \in done}
           IN  IsFiniteSet(S) /\ Cardinality(S) \in Nat /\ Cardinality(S) <= t
<1> DEFINE S == {n \in 1..t : IdOf(n, "workspace") \in done}
<1>1. IsFiniteSet(1..t) /\ Cardinality(1..t) = t
  BY FS_Interval
<1>2. S \subseteq 1..t
  OBVIOUS
<1>3. IsFiniteSet(S) /\ Cardinality(S) <= t
  BY <1>1, <1>2, FS_Subset
<1> QED
  BY <1>3, FS_CardinalityType

LEMMA ExecutedIsAccounted ==
    ASSUME DaemonType, Accounted, NEW c, CallOk(c, tasks),
           d' = Executed(c), tasks' = tasks
    PROVE  DaemonType' /\ Accounted'
<1> DEFINE S == {n \in 1..tasks : IdOf(n, "workspace") \in d.done}
           R == {n \in 1..tasks : IdOf(n, "workspace") \in d.done \cup {c.id}}
<1>1. /\ d' = [rev |-> d'.rev, status |-> d'.status, done |-> d'.done, spaces |-> d'.spaces,
               made |-> d'.made, started |-> d'.started, updated |-> d'.updated,
               prompts |-> d'.prompts]
      /\ d'.done = d.done \cup {c.id}
      /\ d'.spaces = IF c.method = "workspace" /\ c.id \notin d.done
                     THEN d.spaces + 1 ELSE d.spaces
      /\ d'.made = IF c.method = "create" /\ c.id \notin d.done
                   THEN [d.made EXCEPT ![c.id.n] = @ \cup {NextAgent}] ELSE d.made
      /\ d'.prompts = IF c.method = "prompt" /\ c.id \notin d.done
                      THEN [d.prompts EXCEPT ![c.id.n] = @ + 1] ELSE d.prompts
  BY ExecutedFacts
<1>2. tasks \in Nat /\ tasks <= MaxTasks /\ d.spaces \in Nat /\ d.spaces <= Cardinality(S)
  BY DEF DaemonType, Accounted
<1>3. IsFiniteSet(S) /\ Cardinality(S) \in Nat /\ IsFiniteSet(R) /\ Cardinality(R) \in Nat
  BY <1>2, Counting
<1>4. Cardinality(S) <= Cardinality(R)
  <2>1. S \subseteq R
    OBVIOUS
  <2> QED
    BY <1>3, <2>1, FS_Subset
<1>5. \A n \in 1..tasks : n \in Tasks
  BY <1>2, TaskFlowsAssumption DEF Tasks
<1>6. d'.spaces \in Nat /\ d'.spaces <= Cardinality(R)
  <2>1. CASE c.method = "workspace" /\ c.id \notin d.done
    <3>1. PICK n \in 1..tasks : c.id = IdOf(n, "workspace")
      BY <2>1 DEF CallOk, Creates
    <3>2. n \notin S /\ R = S \cup {n}
      BY <2>1, <3>1 DEF IdOf, Id
    <3>3. Cardinality(R) = Cardinality(S) + 1
      BY <1>3, <3>2, FS_AddElement
    <3> QED
      BY <1>1, <1>2, <1>3, <2>1, <3>3
  <2>2. CASE ~(c.method = "workspace" /\ c.id \notin d.done)
    BY <1>1, <1>2, <1>3, <1>4, <2>2
  <2> QED
    BY <2>1, <2>2
<1>7. /\ DOMAIN d'.made = Tasks /\ d'.made = [n \in Tasks |-> d'.made[n]]
      /\ \A n \in Tasks : /\ d'.made[n] # {} => IdOf(n, "create") \in d'.done
                          /\ \E a : d'.made[n] \subseteq {a}
  <2>1. CASE c.method = "create" /\ c.id \notin d.done
    <3>1. PICK n \in 1..tasks : c.id = IdOf(n, "create")
      BY <2>1 DEF CallOk, Creates
    <3>2. c.id.n = n /\ n \in Tasks
      BY <1>5, <3>1 DEF IdOf, Id
    <3>3. d.made[n] = {}
      BY <2>1, <3>1, <3>2 DEF Accounted
    <3>4. d'.made = [d.made EXCEPT ![n] = d.made[n] \cup {NextAgent}]
      BY <1>1, <2>1, <3>2
    <3>5. PICK a : a = NextAgent
      OBVIOUS
    <3>6. d'.made = [d.made EXCEPT ![n] = {a}]
      BY <3>3, <3>4, <3>5
    <3>7. DOMAIN d.made = Tasks /\ d.made = [m \in Tasks |-> d.made[m]]
      BY DEF DaemonType
    <3>8. d'.made = [m \in Tasks |-> IF m = n THEN {a} ELSE d.made[m]]
      BY <3>2, <3>6, <3>7
    <3>9. IdOf(n, "create") \in d'.done /\ d.done \subseteq d'.done
      BY <1>1, <3>1
    <3> QED
      BY <3>2, <3>8, <3>9 DEF Accounted
  <2>2. CASE ~(c.method = "create" /\ c.id \notin d.done)
    BY <1>1, <2>2 DEF DaemonType, Accounted
  <2> QED
    BY <2>1, <2>2
<1>8. /\ d'.prompts \in [Tasks -> Nat]
      /\ \A n \in Tasks : /\ d'.prompts[n] <= 1
                          /\ d'.prompts[n] # 0 => IdOf(n, "prompt") \in d'.done
  <2>1. CASE c.method = "prompt" /\ c.id \notin d.done
    <3>1. PICK n \in 1..tasks : c.id = IdOf(n, "prompt")
      BY <2>1 DEF CallOk, Creates
    <3>2. c.id.n = n /\ n \in Tasks
      BY <1>5, <3>1 DEF IdOf, Id
    <3>3. d.prompts[n] = 0
      BY <2>1, <3>1, <3>2 DEF Accounted
    <3>4. d.prompts \in [Tasks -> Nat]
      BY DEF DaemonType
    <3>5. d'.prompts = [d.prompts EXCEPT ![n] = 1]
      BY <1>1, <2>1, <3>2, <3>3, <3>4
    <3>6. IdOf(n, "prompt") \in d'.done /\ d.done \subseteq d'.done
      BY <1>1, <3>1
    <3> QED
      BY <3>2, <3>4, <3>5, <3>6 DEF Accounted
  <2>2. CASE ~(c.method = "prompt" /\ c.id \notin d.done)
    BY <1>1, <2>2 DEF DaemonType, Accounted
  <2> QED
    BY <2>1, <2>2
<1>9. DaemonType'
  BY <1>1, <1>2, <1>6, <1>7, <1>8 DEF DaemonType
<1>10. Accounted'
  <2>1. R = {n \in 1..tasks' : IdOf(n, "workspace") \in d'.done}
    BY <1>1
  <2>2. d'.spaces <= Cardinality({n \in 1..tasks' : IdOf(n, "workspace") \in d'.done})
    BY <1>6, <2>1
  <2>3. \A n \in Tasks :
          /\ d'.made[n] # {} => IdOf(n, "create") \in d'.done
          /\ \E a : d'.made[n] \subseteq {a}
          /\ d'.prompts[n] <= 1
          /\ d'.prompts[n] # 0 => IdOf(n, "prompt") \in d'.done
    BY <1>7, <1>8
  <2> HIDE DEF R, S
  <2> QED
    BY <2>2, <2>3 DEF Accounted
<1> QED
  BY <1>9, <1>10

\* Nothing happens at the daemon, at most another task is asked for.
LEMMA IdleIsAccounted ==
    ASSUME DaemonType, Accounted, UNCHANGED d,
           tasks' = tasks \/ tasks' = tasks + 1, tasks' <= MaxTasks
    PROVE  DaemonType' /\ Accounted'
<1>1. tasks \in Nat /\ tasks' \in Nat /\ tasks <= tasks' /\ d.spaces \in Nat
  BY DEF DaemonType
<1> DEFINE S == {n \in 1..tasks : IdOf(n, "workspace") \in d.done}
           R == {n \in 1..tasks' : IdOf(n, "workspace") \in d.done}
<1>2. /\ IsFiniteSet(S) /\ Cardinality(S) \in Nat
      /\ IsFiniteSet(R) /\ Cardinality(R) \in Nat
  BY <1>1, Counting
<1>3. S \subseteq R
  BY <1>1
<1>4. d.spaces <= Cardinality(R)
  BY <1>1, <1>2, <1>3, FS_Subset DEF Accounted
<1>5. Accounted'
  BY <1>4 DEF Accounted
<1>6. DaemonType'
  BY <1>1 DEF DaemonType
<1> QED
  BY <1>5, <1>6

-----------------------------------------------------------------------------
\* What is well formed stays so when another task is asked for.
LEMMA MoreTasks ==
    ASSUME NEW t \in Nat, NEW u \in Nat, t <= u
    PROVE  /\ \A c : CallOk(c, t) => CallOk(c, u)
           /\ \A r : RecordOk(r, t) => RecordOk(r, u)
           /\ \A x : FlowOk(x, t) => FlowOk(x, u)
<1>1. 1..t \subseteq 1..u
  OBVIOUS
<1>2. \A r : RecordOk(r, t) => RecordOk(r, u)
  BY <1>1 DEF RecordOk
<1> QED
  BY <1>1, <1>2 DEF CallOk, FlowOk

LEMMA NextCallOk ==
    ASSUME NEW t, NEW r, RecordOk(r, t), r # NoRecovery
    PROVE  CallOk(NextCall(r), t)
<1>1. r.task \in 1..t /\ r.stage \in Stages
  BY DEF RecordOk
<1>2. CASE r.stage = "Workspace"
  <2>1. NextCall(r) = Call("workspace", 0, IdOf(r.task, "workspace"))
    BY <1>2 DEF NextCall, TaskId, IdOf
  <2> QED
    BY <1>1, <2>1 DEF CallOk, Call, Methods
<1>3. CASE r.stage = "Create"
  <2>1. NextCall(r) = Call("create", 0, IdOf(r.task, "create"))
    BY <1>3 DEF NextCall, TaskId, IdOf
  <2> QED
    BY <1>1, <2>1 DEF CallOk, Call, Methods
<1>4. CASE r.stage = "Start"
  <2>1. NextCall(r) = Call("start", r.agent, TaskId(r, "start"))
    BY <1>4 DEF NextCall
  <2> QED
    BY <2>1 DEF CallOk, Call, Methods, Creates
<1>5. CASE r.stage = "Prompt"
  <2>1. NextCall(r) = Call("prompt", r.agent, IdOf(r.task, "prompt"))
    BY <1>5 DEF NextCall, TaskId, IdOf
  <2> QED
    BY <1>1, <2>1 DEF CallOk, Call, Methods
<1> QED
  BY <1>1, <1>2, <1>3, <1>4, <1>5 DEF Stages

\* A call that becomes a late one was on its way.
OnItsWay ==
    \A c \in late' : c \in late \/ \E g \in Flows : call[g].phase = "sent" /\ c = call[g].c

Replaced(f, x) == call' = [call EXCEPT ![f] = x]

\* One flow's call is replaced; a call on its way may become a late one.
LEMMA CallStep ==
    ASSUME CallsInv, tasks \in Nat, tasks' \in Nat, tasks <= tasks',
           NEW f \in Flows, NEW x, CallType(x), x.phase = "sent" => CallOk(x.c, tasks'),
           Replaced(f, x), OnItsWay
    PROVE  CallsInv'
<1>1. \A c : CallOk(c, tasks) => CallOk(c, tasks')
  BY MoreTasks
<1>2. DOMAIN call = Flows /\ call = [g \in Flows |-> call[g]]
  BY DEF CallsInv
<1>3. call' = [g \in Flows |-> IF g = f THEN x ELSE call[g]]
  BY <1>2 DEF Replaced
<1>4. \A g \in Flows : CallType(call[g]) /\ (call[g].phase = "sent" => CallOk(call[g].c, tasks))
  BY DEF CallsInv
<1>5. \A c \in late' : CallOk(c, tasks')
  BY <1>1, <1>4 DEF CallsInv, OnItsWay
<1>6. \A g \in Flows : CallType(call'[g]) /\ (call'[g].phase = "sent" => CallOk(call'[g].c, tasks'))
  BY <1>1, <1>3, <1>4
<1>7. DOMAIN call' = Flows /\ call' = [g \in Flows |-> call'[g]]
  BY <1>3
<1> QED
  BY <1>5, <1>6, <1>7 DEF CallsInv

LEMMA DropStep ==
    ASSUME CallsInv, tasks' = tasks, Drop(Flows)
    PROVE  CallsInv'
<1>1. call' = [f \in Flows |-> NoCall]
  BY DEF Drop
<1>2. OnItsWay
  BY DEF Drop, OnItsWay
<1>3. \A c \in late' : CallOk(c, tasks')
  BY <1>2 DEF CallsInv, OnItsWay
<1>4. \A f \in Flows : CallType(call'[f]) /\ call'[f].phase # "sent"
  BY <1>1 DEF CallType, NoCall
<1>5. DOMAIN call' = Flows /\ call' = [f \in Flows |-> call'[f]]
  BY <1>1
<1> QED
  BY <1>3, <1>4, <1>5 DEF CallsInv

LEMMA Phased ==
    ASSUME NEW x, CallType(x), x.phase # "none", NEW p
    PROVE  /\ CallType([x EXCEPT !.phase = p]) /\ [x EXCEPT !.phase = p].phase = p
<1>1. x = [phase |-> x.phase, c |-> x.c, snap |-> x.snap]
  BY DEF CallType, NoCall
<1>2. [x EXCEPT !.phase = p] = [phase |-> p, c |-> x.c, snap |-> x.snap]
  BY <1>1
<1> QED
  BY <1>2 DEF CallType

-----------------------------------------------------------------------------
\* The steps at the daemon.
LEMMA DaemonKeeps ==
    ASSUME OnceInv, DaemonStep \/ \E f \in Flows : AnswerLost(f)
    PROVE  OnceInv'
<1>0. DaemonType /\ Accounted /\ CallsInv /\ RecordsInv /\ tasks \in Nat /\ tasks <= MaxTasks
  BY DEF OnceInv, DaemonType
<1>1. UNCHANGED <<view, saved, tasks>>
  BY DEF DaemonStep, DaemonAccepts, DaemonRefuses, DaemonAnswersSnapshot, LateExecution,
         AnswerLost, counts
<1>2. RecordsInv'
  BY <1>0, <1>1 DEF RecordsInv, view, saved
<1>3. ASSUME NEW f \in Flows, DaemonAccepts(f)
      PROVE  DaemonType' /\ Accounted' /\ CallsInv'
  <2>1. CallOk(call[f].c, tasks) /\ CallType(call[f]) /\ call[f].phase = "sent"
    BY <1>0, <1>3 DEF CallsInv, DaemonAccepts
  <2>2. d' = Executed(call[f].c) /\ tasks' = tasks
    BY <1>1, <1>3 DEF DaemonAccepts
  <2>3. PICK c : c = call[f].c
    OBVIOUS
  <2>4. DaemonType' /\ Accounted'
    BY <1>0, <2>1, <2>2, <2>3, ExecutedIsAccounted
  <2>5. PICK q : q = (IF call[f].c.method = "prompt" THEN "ok" ELSE "snapshot")
    OBVIOUS
  <2>6. PICK x : x = [call[f] EXCEPT !.phase = q]
    OBVIOUS
  <2>7. Replaced(f, x) /\ late' = late
    BY <1>3, <2>5, <2>6 DEF DaemonAccepts, Replaced
  <2>8. CallType(x) /\ x.phase # "sent"
    BY <2>1, <2>5, <2>6, Phased
  <2>9. OnItsWay
    BY <2>7 DEF OnItsWay
  <2>10. CallsInv'
    BY <1>0, <2>2, <2>7, <2>8, <2>9, CallStep
  <2> QED
    BY <2>4, <2>10
<1>4. ASSUME NEW f \in Flows,
             \/ DaemonRefuses(f)
             \/ AnswerLost(f)
      PROVE  DaemonType' /\ Accounted' /\ CallsInv'
  <2>1. CallType(call[f]) /\ call[f].phase # "none" /\ UNCHANGED <<d, tasks>>
    BY <1>0, <1>1, <1>4 DEF CallsInv, DaemonRefuses, AnswerLost
  <2>2. DaemonType' /\ Accounted'
    BY <1>0, <2>1, IdleIsAccounted
  <2>3. PICK x : x = [call[f] EXCEPT !.phase = "failed"]
    OBVIOUS
  <2>7. Replaced(f, x)
    BY <1>4, <2>3 DEF DaemonRefuses, AnswerLost, Replaced
  <2>4. OnItsWay
    BY <1>4 DEF DaemonRefuses, AnswerLost, OnItsWay
  <2>5. CallType(x) /\ x.phase # "sent"
    BY <2>1, <2>3, Phased
  <2>6. CallsInv'
    BY <1>0, <2>1, <2>4, <2>5, <2>7, CallStep
  <2> QED
    BY <2>2, <2>6
<1>5. ASSUME NEW f \in Flows, DaemonAnswersSnapshot(f)
      PROVE  DaemonType' /\ Accounted' /\ CallsInv'
  <2>1. CallType(call[f]) /\ call[f].phase = "snapshot" /\ UNCHANGED <<d, tasks, late>>
    BY <1>0, <1>1, <1>5 DEF CallsInv, DaemonAnswersSnapshot
  <2>2. DaemonType' /\ Accounted'
    BY <1>0, <2>1, IdleIsAccounted
  <2>3. PICK r : r = Resources
    OBVIOUS
  <2>4. PICK z : z = call[f]
    OBVIOUS
  <2>5. PICK y : y = [phase |-> "ok", c |-> z.c, snap |-> r]
    OBVIOUS
  <2>6. Replaced(f, y)
    <3>1. DOMAIN call = Flows
      BY <1>0 DEF CallsInv
    <3>2. call' = [call EXCEPT ![f] = [[z EXCEPT !.phase = "ok"] EXCEPT !.snap = r]]
      BY <1>5, <2>3, <2>4, <3>1 DEF DaemonAnswersSnapshot
    <3>3. z = [phase |-> z.phase, c |-> z.c, snap |-> z.snap]
      BY <2>1, <2>4 DEF CallType, NoCall
    <3>4. [z EXCEPT !.phase = "ok"] = [phase |-> "ok", c |-> z.c, snap |-> z.snap]
      BY <3>3
    <3>5. PICK w : w = [z EXCEPT !.phase = "ok"]
      OBVIOUS
    <3>7. w = [phase |-> "ok", c |-> z.c, snap |-> z.snap]
      BY <3>4, <3>5
    <3>6. [w EXCEPT !.snap = r] = y
      BY <2>5, <3>7
    <3> QED
      BY <3>2, <3>5, <3>6 DEF Replaced
  <2>7. CallType(y) /\ y.phase # "sent"
    BY <2>5 DEF CallType
  <2>8. OnItsWay
    BY <2>1 DEF OnItsWay
  <2>9. CallsInv'
    BY <1>0, <2>1, <2>6, <2>7, <2>8, CallStep
  <2> QED
    BY <2>2, <2>9
<1>6. ASSUME NEW c \in late, late' = late \ {c}, d' = IF Allowed(c) THEN Executed(c) ELSE d,
             UNCHANGED <<call, tasks>>
      PROVE  DaemonType' /\ Accounted' /\ CallsInv'
  <2>1. CallOk(c, tasks)
    BY <1>0 DEF CallsInv
  <2>2. DaemonType' /\ Accounted'
    <3>1. CASE Allowed(c)
      BY <1>0, <1>6, <2>1, <3>1, ExecutedIsAccounted
    <3>2. CASE ~Allowed(c)
      BY <1>0, <1>6, <3>2, IdleIsAccounted
    <3> QED
      BY <3>1, <3>2
  <2>3. CallsInv'
    BY <1>0, <1>6 DEF CallsInv
  <2> QED
    BY <2>2, <2>3
<1>7. ASSUME LateExecution PROVE DaemonType' /\ Accounted' /\ CallsInv'
  BY <1>1, <1>6, <1>7 DEF LateExecution
<1> QED
  BY <1>2, <1>3, <1>4, <1>5, <1>7 DEF OnceInv, DaemonStep

-----------------------------------------------------------------------------
\* The steps of the application: nothing happens at the daemon.
LEMMA NoFlowCall == CallType(NoCall) /\ NoCall.phase # "sent"
BY DEF CallType, NoCall

LEMMA SentType == ASSUME NEW c PROVE CallType(Send(c)) /\ Send(c).c = c
BY DEF CallType, Send

LEMMA Waiting == UNCHANGED late => OnItsWay
BY DEF OnItsWay

\* A flow sends its next call, or is over.
LEMMA SendStep ==
    ASSUME OnceInv, tasks' \in Nat, tasks <= tasks', NEW f \in Flows, NEW c,
           CallOk(c, tasks'), Replaced(f, Send(c)), OnItsWay
    PROVE  CallsInv'
<1>1. CallsInv /\ tasks \in Nat
  BY DEF OnceInv, DaemonType
<1>2. PICK x : x = Send(c)
  OBVIOUS
<1>3. CallType(x) /\ (x.phase = "sent" => CallOk(x.c, tasks')) /\ Replaced(f, x)
  BY <1>2, SentType
<1> QED
  BY <1>1, <1>3, CallStep

LEMMA OverStep ==
    ASSUME OnceInv, tasks' = tasks, NEW f \in Flows, Replaced(f, NoCall), UNCHANGED late
    PROVE  CallsInv'
<1>1. CallsInv /\ tasks \in Nat /\ OnItsWay
  BY Waiting DEF OnceInv, DaemonType
<1>2. PICK x : x = NoCall
  OBVIOUS
<1>3. CallType(x) /\ x.phase # "sent" /\ Replaced(f, x)
  BY <1>2, NoFlowCall
<1> QED
  BY <1>1, <1>3, CallStep

LEMMA StartAttemptKeeps ==
    ASSUME OnceInv, tasks' \in Nat, tasks <= tasks', NEW r, StartAttempt(r),
           RecordOk(r, tasks'), r # NoRecovery
    PROVE  CallsInv' /\ RecordsInv'
<1>1. PICK c : c = NextCall(r)
  OBVIOUS
<1>2. CallOk(c, tasks')
  BY <1>1, NextCallOk
<1>3. Replaced("task", Send(c)) /\ UNCHANGED late /\ "task" \in Flows
  BY <1>1 DEF StartAttempt, Replaced, Flows
<1>4. CallsInv'
  BY <1>2, <1>3, Waiting, SendStep
<1>5. RecordOk(disk', tasks')
  BY MoreTasks DEF OnceInv, RecordsInv, DaemonType, StartAttempt
<1>6. FlowOk(flow', tasks')
  BY DEF FlowOk, StartAttempt
<1>7. RecordsInv'
  BY <1>5, <1>6 DEF RecordsInv, StartAttempt, ScheduleSave
<1> QED
  BY <1>4, <1>7

LEMMA FlowEndsKeeps ==
    ASSUME OnceInv, NEW r, FlowEnds(r), RecordOk(r, tasks)
    PROVE  CallsInv' /\ RecordsInv'
<1>1. Replaced("task", NoCall) /\ UNCHANGED <<late, tasks, disk>> /\ "task" \in Flows
  BY DEF FlowEnds, Replaced, Flows, counts
<1>2. CallsInv'
  BY <1>1, OverStep
<1>3. FlowOk(flow', tasks')
  BY DEF FlowOk, FlowEnds
<1>4. RecordsInv'
  BY <1>1, <1>3 DEF RecordsInv, FlowEnds, ScheduleSave, OnceInv
<1> QED
  BY <1>2, <1>4

LEMMA IdleKeeps ==
    ASSUME OnceInv, UNCHANGED d, tasks' = tasks \/ tasks' = tasks + 1, tasks' <= MaxTasks,
           CallsInv', RecordsInv'
    PROVE  OnceInv'
BY IdleIsAccounted DEF OnceInv

\* Creating and cleaning up.
LEMMA TaskKeeps ==
    ASSUME OnceInv,
           CreateNewTask \/ RetryNewTask \/ TaskStep \/ AbandonTask \/ ArmCleanup
             \/ AlreadyGone \/ CleanUp
    PROVE  OnceInv'
<1>0. /\ DaemonType /\ CallsInv /\ RecordsInv /\ tasks \in Nat /\ tasks <= MaxTasks
      /\ "task" \in Flows /\ MaxTasks \in Nat
  BY TaskFlowsAssumption DEF OnceInv, DaemonType, Flows
<1>1. CASE CreateNewTask
  <2>1. tasks' = tasks + 1 /\ tasks' \in Nat /\ tasks <= tasks' /\ tasks' <= MaxTasks
    BY <1>0, <1>1 DEF CreateNewTask
  <2>2. PICK r : /\ StartAttempt(r)
                 /\ \E stage \in {"Workspace", "Create"} :
                       r = [task |-> tasks', stage |-> stage, agent |-> 0]
    BY <1>1 DEF CreateNewTask
  <2>3. RecordOk(r, tasks') /\ r # NoRecovery
    <3>1. tasks' \in 1..tasks' /\ tasks' # 0
      BY <1>0, <2>1
    <3>2. r = [task |-> r.task, stage |-> r.stage, agent |-> r.agent]
          /\ r.task = tasks' /\ r.stage \in Stages
      BY <2>2 DEF Stages
    <3>3. r.task # NoRecovery.task
      BY <3>1, <3>2 DEF NoRecovery
    <3> QED
      BY <3>1, <3>2, <3>3 DEF RecordOk
  <2>4. CallsInv' /\ RecordsInv'
    BY <2>1, <2>2, <2>3, StartAttemptKeeps
  <2>5. UNCHANGED d
    BY <2>2 DEF StartAttempt
  <2> QED
    BY <2>1, <2>4, <2>5, IdleKeeps
<1>2. CASE RetryNewTask
  <2>1. tasks' = tasks /\ StartAttempt(recovery) /\ recovery # NoRecovery /\ UNCHANGED d
    BY <1>2 DEF RetryNewTask, StartAttempt
  <2>2. RecordOk(recovery, tasks')
    BY <1>0, <2>1 DEF RecordsInv
  <2>3. PICK r : r = recovery
    OBVIOUS
  <2>4. CallsInv' /\ RecordsInv'
    BY <1>0, <2>1, <2>2, <2>3, StartAttemptKeeps
  <2> QED
    BY <1>0, <2>1, <2>4, IdleKeeps
<1>3. CASE AttemptGoesOn
  <2>1. /\ UNCHANGED <<d, late, recovery, saved, tasks>> /\ flow # NoFlow
        /\ flow.r.stage # "Prompt"
    BY <1>3 DEF AttemptGoesOn, counts, NoFlow
  <2>2. PICK g : g = flow.r
    OBVIOUS
  <2>3. /\ flow = [kind |-> flow.kind, r |-> g, snap |-> flow.snap]
        /\ g = [task |-> g.task, stage |-> g.stage, agent |-> g.agent]
        /\ g.task \in 1..tasks /\ g.stage \in {"Workspace", "Create", "Start"}
    BY <1>0, <2>1, <2>2 DEF RecordsInv, FlowOk, RecordOk, Stages
  <2>4. PICK r : r = Advanced(g)
    OBVIOUS
  <2>5. RecordOk(r, tasks) /\ r # NoRecovery
    <3>1. PICK a : a = (CHOOSE b \in d.made[g.task] : TRUE)
      OBVIOUS
    <3>2. \/ r = [g EXCEPT !.stage = "Create"]
          \/ r = [g EXCEPT !.stage = "Start", !.agent = a]
          \/ r = [g EXCEPT !.stage = "Prompt"]
      BY <2>3, <2>4, <3>1 DEF Advanced
    <3>3. r = [task |-> r.task, stage |-> r.stage, agent |-> r.agent]
          /\ r.task = g.task /\ r.stage \in Stages
      BY <2>3, <3>2 DEF Stages
    <3>4. r.task # 0
      BY <1>0, <2>3, <3>3
    <3> QED
      BY <2>3, <3>3, <3>4 DEF RecordOk, NoRecovery
  <2>6. PICK c : c = NextCall(r)
    OBVIOUS
  <2>7. CallOk(c, tasks') /\ Replaced("task", Send(c)) /\ OnItsWay
    BY <1>3, <2>1, <2>2, <2>4, <2>5, <2>6, NextCallOk, Waiting DEF AttemptGoesOn, Replaced
  <2>8. CallsInv'
    BY <1>0, <2>1, <2>7, SendStep
  <2>9. PICK s : s = call["task"].snap
    OBVIOUS
  <2>10. flow' = [kind |-> flow.kind, r |-> r, snap |-> s]
    BY <1>3, <2>2, <2>3, <2>4, <2>9 DEF AttemptGoesOn
  <2>11. FlowOk(flow', tasks')
    BY <2>1, <2>5, <2>10 DEF FlowOk
  <2>12. RecordsInv'
    BY <1>0, <2>1, <2>11 DEF RecordsInv, saved
  <2> QED
    BY <1>0, <2>1, <2>8, <2>12, IdleKeeps
<1>4. CASE AttemptCompletes \/ AttemptFails \/ CleanupCompletes \/ CleanupFails
  <2>1. PICK r : FlowEnds(r) /\ (r = NoRecovery \/ (flow # NoFlow /\ r = flow.r))
    BY <1>4 DEF AttemptCompletes, AttemptFails, CleanupCompletes, CleanupFails, NoFlow
  <2>2. RecordOk(r, tasks)
    BY <1>0, <2>1 DEF RecordsInv, FlowOk, RecordOk
  <2>3. CallsInv' /\ RecordsInv'
    BY <2>1, <2>2, FlowEndsKeeps
  <2>4. UNCHANGED <<d, tasks>>
    BY <2>1 DEF FlowEnds, counts
  <2> QED
    BY <1>0, <2>3, <2>4, IdleKeeps
<1>5. CASE AbandonTask \/ AlreadyGone
  <2>1. GiveUp
    BY <1>5 DEF AbandonTask, AlreadyGone
  <2>2. UNCHANGED <<d, late, call, flow, disk, tasks>>
        /\ recovery' = NoRecovery /\ unsaved' = NoRecovery
    BY <2>1 DEF GiveUp, ScheduleSave, counts
  <2>3. CallsInv'
    BY <1>0, <2>2 DEF CallsInv
  <2>4. RecordsInv'
    BY <1>0, <2>2 DEF RecordsInv, RecordOk
  <2> QED
    BY <1>0, <2>2, <2>3, <2>4, IdleKeeps
<1>6. CASE ArmCleanup
  <2>1. UNCHANGED <<d, late, call, flow, recovery, saved, tasks>>
    BY <1>6 DEF ArmCleanup, counts
  <2>2. CallsInv' /\ RecordsInv'
    BY <1>0, <2>1 DEF CallsInv, RecordsInv, saved
  <2> QED
    BY <1>0, <2>1, <2>2, IdleKeeps
<1>7. CASE CleanUp
  <2>1. UNCHANGED <<d, late, recovery, saved, tasks>> /\ recovery # NoRecovery
    BY <1>7 DEF CleanUp, Armed, CanCleanUp
  <2>2. PICK c : /\ Replaced("task", Send(c))
                 /\ \/ c = Call("stop", recovery.agent, TaskId(recovery, "cleanup_stop"))
                    \/ c = Call("delete", recovery.agent, TaskId(recovery, "cleanup_delete"))
    BY <1>7 DEF CleanUp, Replaced
  <2>3. CallOk(c, tasks')
    BY <2>2 DEF CallOk, Call, Methods, Creates
  <2>4. CallsInv'
    BY <1>0, <2>1, <2>2, <2>3, Waiting, SendStep
  <2>5. flow' = [kind |-> "cleanup", r |-> recovery, snap |-> NoSnapshot]
    BY <1>7 DEF CleanUp
  <2>6. FlowOk(flow', tasks')
    BY <1>0, <2>1, <2>5 DEF FlowOk, RecordsInv
  <2>7. RecordsInv'
    BY <1>0, <2>1, <2>6 DEF RecordsInv, saved
  <2> QED
    BY <1>0, <2>1, <2>4, <2>7, IdleKeeps
<1>8. CASE CleanupStopped
  <2>1. UNCHANGED <<d, late, recovery, saved, tasks>> /\ flow # NoFlow
    BY <1>8 DEF CleanupStopped, counts, NoFlow
  <2>2. PICK c : /\ Replaced("task", Send(c))
                 /\ c = Call("delete", flow.r.agent, TaskId(flow.r, "cleanup_delete"))
    BY <1>8 DEF CleanupStopped, Replaced
  <2>3. CallOk(c, tasks')
    BY <2>2 DEF CallOk, Call, Methods, Creates
  <2>4. CallsInv'
    BY <1>0, <2>1, <2>2, <2>3, Waiting, SendStep
  <2>5. PICK s : s = call["task"].snap
    OBVIOUS
  <2>6. flow = [kind |-> flow.kind, r |-> flow.r, snap |-> flow.snap]
        /\ RecordOk(flow.r, tasks) /\ flow.r # NoRecovery
    BY <1>0, <2>1 DEF RecordsInv, FlowOk
  <2>7. flow' = [kind |-> flow.kind, r |-> flow.r, snap |-> s]
    BY <1>8, <2>5, <2>6 DEF CleanupStopped
  <2>8. FlowOk(flow', tasks')
    BY <2>1, <2>6, <2>7 DEF FlowOk
  <2>9. RecordsInv'
    BY <1>0, <2>1, <2>8 DEF RecordsInv, saved
  <2> QED
    BY <1>0, <2>1, <2>4, <2>9, IdleKeeps
<1> QED
  BY <1>1, <1>2, <1>3, <1>4, <1>5, <1>6, <1>7, <1>8 DEF TaskStep

\* The resource mutation and the provider switch.
LEMMA OtherFlowsKeep ==
    ASSUME OnceInv,
           (\E method \in {"start", "stop", "delete"} : RunMutation(method))
             \/ MutationAnswered \/ SwitchProvider \/ SwitchStep
    PROVE  OnceInv'
<1>0. /\ DaemonType /\ CallsInv /\ RecordsInv /\ tasks \in Nat /\ tasks <= MaxTasks
      /\ "mutation" \in Flows /\ "switch" \in Flows
  BY DEF OnceInv, DaemonType, Flows
<1>1. UNCHANGED <<d, flow, recovery, saved, tasks>>
  BY DEF RunMutation, MutationAnswered, SwitchProvider, SwitchStep, SwitchGoesOn,
         SwitchCompletes, SwitchFails, SwitchEnds, counts
<1>2. tasks' = tasks /\ tasks' \in Nat /\ tasks <= tasks'
  BY <1>0, <1>1
<1>3. RecordsInv'
  BY <1>0, <1>1 DEF RecordsInv, saved
<1> SUFFICES CallsInv'
  BY <1>0, <1>1, <1>3, IdleKeeps
<1>4. \A c : c.method \in Methods \ Creates => CallOk(c, tasks')
  BY DEF CallOk
<1>5. ASSUME NEW method \in {"start", "stop", "delete"}, RunMutation(method) PROVE CallsInv'
  <2>1. PICK c : c = Call(method, 1, Id("mutation", mutations', <<method, 0>>))
    OBVIOUS
  <2>2. CallOk(c, tasks')
    BY <1>4, <2>1 DEF Call, Methods, Creates
  <2>3. Replaced("mutation", Send(c)) /\ OnItsWay
    BY <1>0, <1>5, <2>1 DEF RunMutation, Replaced, OnItsWay
  <2> QED
    BY <1>0, <1>2, <2>2, <2>3, SendStep
<1>6. CASE MutationAnswered
  <2>1. Replaced("mutation", NoCall) /\ UNCHANGED late
    BY <1>6 DEF MutationAnswered, Replaced
  <2> QED
    BY <1>0, <1>2, <2>1, OverStep
<1>7. CASE SwitchProvider
  <2>1. CASE UNCHANGED <<call, late>>
    BY <1>0, <1>2, <2>1 DEF CallsInv
  <2>2. CASE ~UNCHANGED <<call, late>>
    <3>1. PICK c : c = Call("stop", 1, Id("switch", mutations', <<"stop", 0>>))
      OBVIOUS
    <3>2. CallOk(c, tasks')
      BY <1>4, <3>1 DEF Call, Methods, Creates
    <3>3. Replaced("switch", Send(c)) /\ UNCHANGED late
      BY <1>7, <2>2, <3>1 DEF SwitchProvider, SwitchCall, Replaced
    <3> QED
      BY <1>0, <1>2, <3>2, <3>3, Waiting, SendStep
  <2> QED
    BY <2>1, <2>2
<1>8. CASE SwitchGoesOn
  <2>1. PICK m : m = (IF call["switch"].c.method = "stop" THEN "update" ELSE "start")
    OBVIOUS
  <2>2. PICK c : c = Call(m, 1, Id("switch", switch.n, <<m, 0>>))
    OBVIOUS
  <2>3. CallOk(c, tasks')
    BY <1>4, <2>1, <2>2 DEF Call, Methods, Creates
  <2>4. Replaced("switch", Send(c)) /\ UNCHANGED late
    BY <1>8, <2>1, <2>2 DEF SwitchGoesOn, SwitchCall, Replaced
  <2> QED
    BY <1>0, <1>2, <2>3, <2>4, Waiting, SendStep
<1>9. CASE SwitchCompletes \/ SwitchFails
  <2>1. Replaced("switch", NoCall) /\ UNCHANGED late
    BY <1>9 DEF SwitchCompletes, SwitchFails, SwitchEnds, Replaced
  <2> QED
    BY <1>0, <1>2, <2>1, OverStep
<1> QED
  BY <1>5, <1>6, <1>7, <1>8, <1>9 DEF SwitchStep

\* The session, the file and the crash: the record survives, the calls are dropped.
LEMMA SessionKeeps ==
    ASSUME OnceInv, Disconnect \/ Reconnect \/ SessionSnapshot \/ Save \/ Crash
    PROVE  OnceInv'
<1>0. DaemonType /\ CallsInv /\ RecordsInv /\ tasks \in Nat /\ tasks <= MaxTasks
  BY DEF OnceInv, DaemonType
<1>1. UNCHANGED <<d, tasks>>
  BY DEF Disconnect, Reconnect, SessionSnapshot, Save, Crash, counts
<1>2. RecordOk(NoRecovery, tasks) /\ FlowOk(NoFlow, tasks)
  BY DEF RecordOk, FlowOk
<1>3. CASE Disconnect
  <2>1. Drop(Flows) /\ UNCHANGED <<recovery, saved>> /\ flow' = NoFlow
    BY <1>3 DEF Disconnect, ClearConnectionBoundState
  <2>2. CallsInv'
    BY <1>0, <1>1, <2>1, DropStep
  <2>3. RecordsInv'
    BY <1>0, <1>1, <1>2, <2>1 DEF RecordsInv, saved
  <2> QED
    BY <1>0, <1>1, <2>2, <2>3, IdleKeeps
<1>4. CASE Crash
  <2>1. /\ Drop(Flows) /\ flow' = NoFlow /\ unsaved' = NoSave
        /\ recovery' = disk' /\ (disk' = disk \/ disk' = NoRecovery)
    BY <1>4 DEF Crash, ClearConnectionBoundState
  <2>2. CallsInv'
    BY <1>0, <1>1, <2>1, DropStep
  <2>3. RecordsInv'
    BY <1>0, <1>1, <1>2, <2>1 DEF RecordsInv
  <2> QED
    BY <1>0, <1>1, <2>2, <2>3, IdleKeeps
<1>5. CASE Reconnect \/ Save
  <2>1. /\ UNCHANGED <<call, late, recovery, flow>>
        /\ (UNCHANGED saved \/ (unsaved # NoSave /\ disk' = unsaved /\ unsaved' = NoSave))
    BY <1>5 DEF Reconnect, Save, view
  <2>2. CallsInv'
    BY <1>0, <1>1, <2>1 DEF CallsInv
  <2>3. RecordsInv'
    BY <1>0, <1>1, <2>1 DEF RecordsInv, saved
  <2> QED
    BY <1>0, <1>1, <2>2, <2>3, IdleKeeps
<1>6. CASE SessionSnapshot
  <2>1. /\ UNCHANGED <<call, late, flow, disk>>
        /\ recovery' = Reconciled(Resources) /\ unsaved' = recovery'
    BY <1>6 DEF SessionSnapshot, ScheduleSave
  <2>2. CallsInv'
    BY <1>0, <1>1, <2>1 DEF CallsInv
  <2>3. RecordOk(recovery', tasks)
    <3>1. CASE recovery' \in {recovery, NoRecovery}
      BY <1>0, <1>2, <3>1 DEF RecordsInv
    <3>2. CASE recovery' \notin {recovery, NoRecovery}
      <4>1. recovery' = [recovery EXCEPT !.stage = "Prompt"] /\ recovery # NoRecovery
        BY <2>1, <3>2 DEF Reconciled
      <4>2. recovery = [task |-> recovery.task, stage |-> recovery.stage, agent |-> recovery.agent]
            /\ recovery.task \in 1..tasks
        BY <1>0, <4>1 DEF RecordsInv, RecordOk
      <4>3. recovery' = [task |-> recovery.task, stage |-> "Prompt", agent |-> recovery.agent]
        BY <4>1, <4>2
      <4> QED
        BY <4>2, <4>3 DEF RecordOk, Stages
    <3> QED
      BY <3>1, <3>2
  <2>4. RecordsInv'
    BY <1>0, <1>1, <2>1, <2>3 DEF RecordsInv
  <2> QED
    BY <1>0, <1>1, <2>2, <2>4, IdleKeeps
<1> QED
  BY <1>3, <1>4, <1>5, <1>6

-----------------------------------------------------------------------------
LEMMA OnceAtFirst == Init => OnceInv
<1> SUFFICES ASSUME Init PROVE OnceInv
  OBVIOUS
<1>1. DaemonType
  BY TaskFlowsAssumption DEF Init, DaemonType
<1>2. Accounted
  <2>1. Cardinality({n \in 1..tasks : IdOf(n, "workspace") \in d.done}) \in Nat
    BY <1>1, Counting DEF DaemonType
  <2>2. d.spaces = 0 /\ \A n \in Tasks : d.made[n] = {} /\ d.prompts[n] = 0
    BY DEF Init
  <2> QED
    BY <2>1, <2>2 DEF Accounted
<1>3. CallsInv
  BY DEF Init, CallsInv, CallType, NoCall
<1>4. RecordsInv
  BY DEF Init, RecordsInv, RecordOk, FlowOk
<1> QED
  BY <1>1, <1>2, <1>3, <1>4 DEF OnceInv

LEMMA OnceStays == OnceInv /\ [Next]_vars => OnceInv'
<1> SUFFICES ASSUME OnceInv, [Next]_vars PROVE OnceInv'
  OBVIOUS
<1>1. CASE UNCHANGED vars
  <2>1. UNCHANGED <<d, late, call, flow, recovery, disk, unsaved, tasks>>
    BY <1>1 DEF vars, view, saved, counts
  <2>2. tasks \in Nat /\ tasks <= MaxTasks /\ CallsInv /\ RecordsInv
    BY DEF OnceInv, DaemonType
  <2>3. CallsInv' /\ RecordsInv'
    BY <2>1, <2>2 DEF CallsInv, RecordsInv
  <2> QED
    BY <2>1, <2>2, <2>3, IdleKeeps
<1>2. CASE Next
  BY <1>2, DaemonKeeps, TaskKeeps, OtherFlowsKeep, SessionKeeps DEF Next
<1> QED
  BY <1>1, <1>2

\* What is remembered under one id per task was done once per task.
LEMMA OnceIsEnough == OnceInv => CreatedOnce
<1> SUFFICES ASSUME OnceInv PROVE CreatedOnce
  OBVIOUS
<1>0. DaemonType /\ Accounted /\ tasks \in Nat /\ d.spaces \in Nat
  BY DEF OnceInv, DaemonType
<1>1. d.spaces <= tasks
  <2> DEFINE S == {n \in 1..tasks : IdOf(n, "workspace") \in d.done}
  <2>1. Cardinality(S) \in Nat /\ Cardinality(S) <= tasks
    BY <1>0, Counting
  <2>2. d.spaces <= Cardinality(S)
    BY <1>0 DEF Accounted
  <2> HIDE DEF S
  <2> QED
    BY <1>0, <2>1, <2>2
<1>2. ASSUME NEW n \in Tasks PROVE Cardinality(d.made[n]) <= 1
  <2>1. PICK a : d.made[n] \subseteq {a}
    BY <1>0 DEF Accounted
  <2>2. IsFiniteSet({a}) /\ Cardinality({a}) = 1
    BY FS_Singleton
  <2> QED
    BY <2>1, <2>2, FS_Subset
<1> QED
  BY <1>0, <1>1, <1>2 DEF Accounted, CreatedOnce

\* Whatever is retried after whatever fault, and whatever runs beside it: one
\* workspace, one agent and one first prompt for each task (tasks.rs, the ids
\* of NewTaskRecoveryState).
THEOREM CreationsHappenOnce ==
    ASSUME TaskFlowsAssumption PROVE Spec => []CreatedOnce
<1>1. Init => OnceInv
  BY OnceAtFirst
<1>2. OnceInv /\ [Next]_vars => OnceInv'
  BY OnceStays
<1>3. OnceInv => CreatedOnce
  BY OnceIsEnough
<1> QED
  BY <1>1, <1>2, <1>3, PTL DEF Spec
-----------------------------------------------------------------------------
(* RecoveryIsReal.  What the saga and the switch believe rests on answers,  *)
(* an answer on an id the daemon has applied, and an id, whoever sent it    *)
(* and whenever it arrived, on one effect.                                  *)

\* What the ids the daemon has applied say of its resources: agents are made in
\* order, a start started the agent of its task, an update updated.
World ==
    /\ DOMAIN d.status = Agents
    /\ \E k \in Agents :
        /\ k <= 1 + Cardinality({n \in 1..tasks : IdOf(n, "create") \in d.done})
        /\ \A a \in Agents : d.status[a] # "none" <=> a <= k
    /\ \A n \in Tasks :
        /\ d.made[n] \subseteq Agents
        /\ IdOf(n, "create") \in d.done => d.made[n] # {}
        /\ IdOf(n, "start") \in d.done => d.made[n] # {} /\ d.made[n] \subseteq d.started
    /\ \A a \in Agents : d.status[a] = "running" => a \in d.started
    /\ (\E i \in d.done : i.what = <<"update", 0>>) => d.updated
    /\ d.updated \in BOOLEAN

\* A call does what its id stands for; the start of a task, to its agent.
Says(c) ==
    /\ c.id.what = <<"update", 0>> <=> c.method = "update"
    /\ \A n \in Tasks :
        /\ c.id = IdOf(n, "create") => c.method = "create"
        /\ c.id = IdOf(n, "start") => c.method = "start" /\ c.agent \in d.made[n]

\* A snapshot, wherever it is kept, shows no update that was not made.
Snap(s) == s # NoSnapshot => s.updated \in BOOLEAN /\ (s.updated => d.updated)

SaysCall(x) ==
    x.phase # "none" =>
        /\ Says(x.c) /\ Snap(x.snap)
        /\ x.phase \in {"snapshot", "ok"} => x.c.id \in d.done

Answered == (\A f \in Flows : SaysCall(call[f])) /\ \A c \in late : Says(c)

Snaps ==
    /\ Snap(snapshot)
    /\ flow # NoFlow => Snap(flow.snap)
    /\ switch # NoFlow =>
        /\ switch = [kind |-> switch.kind, n |-> switch.n, snap |-> switch.snap]
        /\ Snap(switch.snap)

\* The creation waits for the call of its stage; the switch starts the agent
\* after the update.
Linked ==
    /\ flow.kind = "attempt" /\ call["task"].phase # "none" => call["task"].c = NextCall(flow.r)
    /\ call["switch"].phase # "none" /\ call["switch"].c.method = "start" => d.updated

RecoveryInv == OnceInv /\ World /\ Answered /\ Snaps /\ Linked /\ RecoveryIsReal

\* What the daemon did stays done.
Grows ==
    /\ d.done \subseteq d'.done /\ d.started \subseteq d'.started
    /\ \A n \in Tasks : d.made[n] \subseteq d'.made[n]
    /\ d.updated => d'.updated
    /\ d'.updated \in BOOLEAN

-----------------------------------------------------------------------------
\* The rest of what ExecutedFacts says of a call.
LEMMA ExecutedElse ==
    ASSUME DaemonType, NEW c, CallOk(c, tasks)
    PROVE  LET e == Executed(c)
               new(m) == c.method = m /\ c.id \notin d.done
           IN  /\ e.started = IF new("start") THEN d.started \cup {c.agent} ELSE d.started
               /\ e.updated = IF new("update") THEN TRUE ELSE d.updated
               /\ e.status =
                    IF new("create") THEN [d.status EXCEPT ![NextAgent] = "idle"]
                    ELSE IF new("start") THEN [d.status EXCEPT ![c.agent] = "running"]
                    ELSE IF new("stop") THEN [d.status EXCEPT ![c.agent] = "stopped"]
                    ELSE IF new("delete") THEN [d.status EXCEPT ![c.agent] = "deleted"]
                    ELSE d.status
<1> DEFINE e == Executed(c)
<1>1. CASE c.id \in d.done
  <2>1. e = d
    BY <1>1 DEF Executed
  <2> QED
    BY <1>1, <2>1
<1>2. CASE c.id \notin d.done /\ c.method = "workspace"
  BY <1>2 DEF Executed, DaemonType
<1>3. CASE c.id \notin d.done /\ c.method = "create"
  <2>1. e = [d EXCEPT !.rev = @ + 1, !.done = d.done \cup {c.id},
                      !.made[c.id.n] = @ \cup {NextAgent}, !.status[NextAgent] = "idle"]
    BY <1>3 DEF Executed
  <2>2. PICK m : m = [d.made EXCEPT ![c.id.n] = @ \cup {NextAgent}]
    OBVIOUS
  <2>3. PICK t : t = [d.status EXCEPT ![NextAgent] = "idle"]
    OBVIOUS
  <2> HIDE DEF e
  <2>4. e = [d EXCEPT !.rev = @ + 1, !.done = d.done \cup {c.id}, !.made = m, !.status = t]
    BY <2>1, <2>2, <2>3 DEF DaemonType
  <2>5. e.status = t /\ e.started = d.started /\ e.updated = d.updated
    BY <2>4 DEF DaemonType
  <2> QED
    BY <1>3, <2>3, <2>5 DEF e
<1>4. CASE c.id \notin d.done /\ c.method = "start"
  BY <1>4 DEF Executed, DaemonType
<1>5. CASE c.id \notin d.done /\ c.method = "stop"
  BY <1>5 DEF Executed, DaemonType
<1>6. CASE c.id \notin d.done /\ c.method = "delete"
  BY <1>6 DEF Executed, DaemonType
<1>7. CASE c.id \notin d.done /\ c.method = "update"
  BY <1>7 DEF Executed, DaemonType
<1>8. CASE c.id \notin d.done /\ c.method = "prompt"
  BY <1>8 DEF Executed, DaemonType
<1> QED
  BY <1>1, <1>2, <1>3, <1>4, <1>5, <1>6, <1>7, <1>8 DEF CallOk, Methods

\* There is always an agent to make for a task that has none: the next one.
LEMMA NextAgentIsNew ==
    ASSUME DaemonType, NEW n \in 1..tasks, IdOf(n, "create") \notin d.done,
           NEW k \in Agents, NEW S, S = {m \in 1..tasks : IdOf(m, "create") \in d.done},
           k <= 1 + Cardinality(S),
           \A a \in Agents : d.status[a] # "none" <=> a <= k
    PROVE  NextAgent = k + 1 /\ k + 1 \in Agents
<1>1. /\ tasks \in Nat /\ tasks <= MaxTasks /\ MaxTasks \in Nat /\ MaxAttempts \in Nat
      /\ k \in Nat
  BY TaskFlowsAssumption DEF DaemonType, Agents
<1>2. Cardinality(S) <= tasks - 1 /\ Cardinality(S) \in Nat
  <2>1. IsFiniteSet(1..tasks) /\ Cardinality(1..tasks) = tasks
    BY <1>1, FS_Interval
  <2>2. S \subseteq (1..tasks) \ {n}
    OBVIOUS
  <2>3. /\ IsFiniteSet((1..tasks) \ {n})
        /\ Cardinality((1..tasks) \ {n}) = tasks - 1
    BY <2>1, FS_RemoveElement
  <2> QED
    BY <2>2, <2>3, FS_Subset, FS_CardinalityType
<1>3. MaxTasks <= MaxTasks * (MaxAttempts + 1)
  <2>1. MaxTasks * (MaxAttempts + 1) = MaxTasks * MaxAttempts + MaxTasks
    BY <1>1
  <2>2. MaxTasks * MaxAttempts \in Nat
    BY <1>1
  <2> QED
    BY <1>1, <2>1, <2>2
<1>4. PICK most : most = MaxTasks * (MaxAttempts + 1)
  OBVIOUS
<1>5. k + 1 \in Agents
  BY <1>1, <1>2, <1>3, <1>4 DEF Agents
<1>6. d.status[k + 1] = "none" /\ \A b \in Agents : b < k + 1 => d.status[b] # "none"
  BY <1>1, <1>5 DEF Agents
<1>7. \A a \in Agents :
        d.status[a] = "none" /\ (\A b \in Agents : b < a => d.status[b] # "none") => a = k + 1
  BY <1>1, <1>5, <1>6 DEF Agents
<1> QED
  BY <1>5, <1>6, <1>7 DEF NextAgent

\* The daemon applies a call.
LEMMA WorldExecutes ==
    ASSUME DaemonType, Accounted, World, NEW c, CallOk(c, tasks), Says(c), Allowed(c),
           d' = Executed(c), tasks' = tasks
    PROVE  World' /\ Grows /\ c.id \in d'.done
<1> DEFINE new(m) == c.method = m /\ c.id \notin d.done
           S == {n \in 1..tasks : IdOf(n, "create") \in d.done}
           R == {n \in 1..tasks : IdOf(n, "create") \in d'.done}
<1>1. /\ d'.done = d.done \cup {c.id}
      /\ d'.made = IF new("create") THEN [d.made EXCEPT ![c.id.n] = @ \cup {NextAgent}]
                   ELSE d.made
      /\ d'.started = IF new("start") THEN d.started \cup {c.agent} ELSE d.started
      /\ d'.updated = IF new("update") THEN TRUE ELSE d.updated
      /\ d'.status =
            IF new("create") THEN [d.status EXCEPT ![NextAgent] = "idle"]
            ELSE IF new("start") THEN [d.status EXCEPT ![c.agent] = "running"]
            ELSE IF new("stop") THEN [d.status EXCEPT ![c.agent] = "stopped"]
            ELSE IF new("delete") THEN [d.status EXCEPT ![c.agent] = "deleted"]
            ELSE d.status
  BY ExecutedFacts, ExecutedElse
<1>2. PICK k \in Agents : /\ k <= 1 + Cardinality(S)
                          /\ \A a \in Agents : d.status[a] # "none" <=> a <= k
  BY DEF World
<1>3. /\ tasks \in Nat /\ k \in Nat /\ DOMAIN d.made = Tasks /\ DOMAIN d.status = Agents
      /\ \A n \in 1..tasks : n \in Tasks
  BY TaskFlowsAssumption DEF DaemonType, World, Agents, Tasks
<1>4. Cardinality(S) \in Nat /\ Cardinality(R) \in Nat /\ Cardinality(S) <= Cardinality(R)
  <2>1. IsFiniteSet(1..tasks)
    BY <1>3, FS_Interval
  <2>2. S \subseteq R /\ R \subseteq 1..tasks
    BY <1>1
  <2> HIDE DEF S, R
  <2>3. IsFiniteSet(R)
    BY <2>1, <2>2, FS_Subset
  <2> QED
    BY <2>2, <2>3, FS_Subset, FS_CardinalityType
<1>5. \A n \in Tasks : d.made[n] \subseteq d'.made[n]
  BY <1>1, <1>3
<1>6. Grows /\ c.id \in d'.done
  <2>1. d.done \subseteq d'.done /\ d.started \subseteq d'.started /\ c.id \in d'.done
    BY <1>1
  <2>2. d'.updated = TRUE \/ d'.updated = d.updated
    BY <1>1
  <2>3. d.updated \in BOOLEAN
    BY DEF World
  <2> QED
    BY <1>5, <2>1, <2>2, <2>3 DEF Grows
<1>7. (\E i \in d'.done : i.what = <<"update", 0>>) => d'.updated
  <2> SUFFICES ASSUME NEW i \in d'.done, i.what = <<"update", 0>> PROVE d'.updated
    OBVIOUS
  <2>1. CASE i \in d.done
    BY <1>6, <2>1 DEF World, Grows
  <2>2. CASE i = c.id /\ i \notin d.done
    BY <1>1, <2>2 DEF Says
  <2> QED
    BY <1>1, <2>1, <2>2
<1>8. ASSUME NEW n \in Tasks, IdOf(n, "start") \in d'.done
      PROVE  d'.made[n] # {} /\ d'.made[n] \subseteq d'.started
  <2>1. d.made[n] # {}
    BY <1>1, <1>8 DEF World, Says
  <2>2. d'.made[n] = d.made[n]
    <3>1. CASE ~new("create")
      BY <1>1, <3>1
    <3>2. CASE new("create")
      <4>1. PICK m \in 1..tasks : c.id = IdOf(m, "create")
        BY <3>2 DEF CallOk, Creates
      <4>2. c.id.n = m
        BY <4>1 DEF IdOf, Id
      <4>3. m # n
        BY <2>1, <3>2, <4>1 DEF Accounted
      <4> QED
        BY <1>1, <1>3, <3>2, <4>2, <4>3
    <3> QED
      BY <3>1, <3>2
  <2>3. CASE IdOf(n, "start") \in d.done
    BY <1>6, <2>2, <2>3 DEF World, Grows
  <2>4. CASE IdOf(n, "start") = c.id /\ c.id \notin d.done
    <3>1. c.method = "start" /\ c.agent \in d.made[n]
      BY <2>4 DEF Says
    <3>2. \E a : d.made[n] \subseteq {a}
      BY DEF Accounted
    <3>3. d.made[n] = {c.agent}
      BY <3>1, <3>2
    <3> QED
      BY <1>1, <2>2, <2>4, <3>1, <3>3
  <2> QED
    BY <1>1, <1>8, <2>1, <2>2, <2>3, <2>4
<1>9. CASE new("create")
  <2>1. PICK m \in 1..tasks : c.id = IdOf(m, "create")
    BY <1>9 DEF CallOk, Creates
  <2>2. c.id.n = m /\ m \in Tasks
    BY <1>3, <2>1 DEF IdOf, Id
  <2>3. NextAgent = k + 1 /\ k + 1 \in Agents
    BY <1>2, <1>9, <2>1, NextAgentIsNew
  <2>4. Cardinality(R) = Cardinality(S) + 1
    <3>1. IsFiniteSet(S)
      BY <1>3, FS_Interval, FS_Subset, IsFiniteSet(1..tasks), S \subseteq 1..tasks
    <3>2. R = S \cup {m} /\ m \notin S
      BY <1>1, <1>9, <2>1 DEF IdOf, Id
    <3> QED
      BY <3>1, <3>2, FS_AddElement
  <2>5. /\ d'.made = [d.made EXCEPT ![m] = d.made[m] \cup {k + 1}]
        /\ d'.status = [d.status EXCEPT ![k + 1] = "idle"]
        /\ d'.started = d.started
    BY <1>1, <1>9, <2>2, <2>3
  <2>6. \A a \in Agents : d'.status[a] = IF a = k + 1 THEN "idle" ELSE d.status[a]
    BY <1>3, <2>3, <2>5
  <2>7. \A a \in Agents : d'.status[a] # "none" <=> a <= k + 1
    BY <1>2, <1>3, <2>6 DEF Agents
  <2>8. k + 1 <= 1 + Cardinality(R)
    BY <1>2, <1>3, <1>4, <2>4
  <2>9. ASSUME NEW n \in Tasks
        PROVE  /\ d'.made[n] \subseteq Agents
               /\ IdOf(n, "create") \in d'.done => d'.made[n] # {}
    <3>1. d'.made[n] = IF n = m THEN d.made[m] \cup {k + 1} ELSE d.made[n]
      BY <1>3, <2>2, <2>5
    <3>2. d.made[n] \subseteq Agents /\ (IdOf(n, "create") \in d.done => d.made[n] # {})
      BY DEF World
    <3>3. IdOf(n, "create") \in d'.done => IdOf(n, "create") \in d.done \/ n = m
      BY <1>1, <2>1 DEF IdOf, Id
    <3> QED
      BY <2>3, <3>1, <3>2, <3>3
  <2>10. \A a \in Agents : d'.status[a] = "running" => a \in d'.started
    BY <2>5, <2>6 DEF World
  <2>11. DOMAIN d'.status = Agents /\ d'.updated \in BOOLEAN
    BY <1>3, <1>6, <2>5 DEF Grows
  <2>12. \E j \in Agents : /\ j <= 1 + Cardinality({n \in 1..tasks' : IdOf(n, "create") \in d'.done})
                           /\ \A a \in Agents : d'.status[a] # "none" <=> a <= j
    BY <2>3, <2>7, <2>8
  <2> HIDE DEF R, S, new
  <2> QED
    BY <1>6, <1>7, <1>8, <2>9, <2>10, <2>11, <2>12 DEF World
<1>10. CASE ~new("create")
  <2>1. d'.made = d.made
    BY <1>1, <1>10
  <2>2. \A n \in Tasks :
          /\ d'.made[n] \subseteq Agents
          /\ IdOf(n, "create") \in d'.done => d'.made[n] # {}
    BY <1>1, <1>10, <2>1 DEF World, Says
  <2>3. c.method \in {"start", "stop", "delete"} /\ c.id \notin d.done =>
          c.agent \in Agents /\ d.status[c.agent] # "none"
    BY DEF Allowed, Exists
  <2>4. \/ UNCHANGED d.status
        \/ /\ c.agent \in Agents /\ d.status[c.agent] # "none"
           /\ \/ d'.status = [d.status EXCEPT ![c.agent] = "running"] /\ c.agent \in d'.started
              \/ d'.status = [d.status EXCEPT ![c.agent] = "stopped"]
              \/ d'.status = [d.status EXCEPT ![c.agent] = "deleted"]
    BY <1>1, <1>10, <2>3
  <2>5. /\ DOMAIN d'.status = Agents
        /\ \A a \in Agents : d'.status[a] # "none" <=> d.status[a] # "none"
        /\ \A a \in Agents : d'.status[a] = "running" => d.status[a] = "running" \/ a \in d'.started
    BY <1>3, <2>4
  <2>6. \E j \in Agents : /\ j <= 1 + Cardinality({n \in 1..tasks' : IdOf(n, "create") \in d'.done})
                          /\ \A a \in Agents : d'.status[a] # "none" <=> a <= j
    <3>1. k <= 1 + Cardinality(R)
      BY <1>2, <1>3, <1>4
    <3> QED
      BY <1>2, <2>5, <3>1
  <2>7. \A a \in Agents : d'.status[a] = "running" => a \in d'.started
    BY <1>6, <2>5 DEF World, Grows
  <2>8. d'.updated \in BOOLEAN
    BY <1>6 DEF Grows
  <2> HIDE DEF R, S, new
  <2> QED
    BY <1>6, <1>7, <1>8, <2>2, <2>5, <2>6, <2>7, <2>8 DEF World
<1> QED
  BY <1>6, <1>9, <1>10

\* Nothing happens at the daemon.
LEMMA WorldWaits ==
    ASSUME DaemonType, World, UNCHANGED d, tasks' \in Nat, tasks <= tasks'
    PROVE  World' /\ Grows
<1> DEFINE S == {n \in 1..tasks : IdOf(n, "create") \in d.done}
           R == {n \in 1..tasks' : IdOf(n, "create") \in d.done}
<1>1. tasks \in Nat /\ IsFiniteSet(1..tasks')
  <2>1. tasks \in Nat
    BY DEF DaemonType
  <2>2. PICK t \in Nat : t = tasks'
    OBVIOUS
  <2>3. IsFiniteSet(1..t)
    BY FS_Interval
  <2> QED
    BY <2>1, <2>2, <2>3
<1>2. S \subseteq R /\ R \subseteq 1..tasks'
  BY <1>1
<1>3. Cardinality(S) \in Nat /\ Cardinality(R) \in Nat /\ Cardinality(S) <= Cardinality(R)
  <2> HIDE DEF S, R
  <2> QED
    BY <1>1, <1>2, FS_Subset, FS_CardinalityType
<1>4. PICK k \in Agents : /\ k <= 1 + Cardinality(S)
                          /\ \A a \in Agents : d.status[a] # "none" <=> a <= k
  BY DEF World
<1>5. k <= 1 + Cardinality(R)
  BY <1>3, <1>4 DEF Agents
<1>6. World'
  BY <1>4, <1>5 DEF World
<1> QED
  BY <1>6 DEF Grows, World

-----------------------------------------------------------------------------
\* What was true of a call, a snapshot and a record stays true.
LEMMA StaysTrue ==
    ASSUME DaemonType, Grows
    PROVE  /\ \A c : Says(c) => Says(c)'
           /\ \A s : Snap(s) => Snap(s)'
           /\ \A r : RecordOk(r, tasks) /\ Real(r) => Real(r)'
<1>1. ASSUME NEW c, Says(c) PROVE Says(c)'
  BY <1>1 DEF Says, Grows
<1>2. ASSUME NEW s, Snap(s) PROVE Snap(s)'
  BY <1>2 DEF Snap, Grows
<1>3. ASSUME NEW r, RecordOk(r, tasks), Real(r) PROVE Real(r)'
  <2>1. r # NoRecovery => r.task \in Tasks
    BY <1>3, TaskFlowsAssumption DEF RecordOk, DaemonType, Tasks
  <2> QED
    BY <1>3, <2>1 DEF Real, Grows
<1> QED
  BY <1>1, <1>2, <1>3

\* One flow's call is replaced; a call on its way may become a late one.
LEMMA AnsweredStep ==
    ASSUME OnceInv, Answered, Grows, NEW f \in Flows, NEW x, SaysCall(x)',
           Replaced(f, x), OnItsWay
    PROVE  Answered' /\ \A g \in Flows : call'[g] = IF g = f THEN x ELSE call[g]
<1>1. \A g \in Flows : call'[g] = IF g = f THEN x ELSE call[g]
  BY DEF OnceInv, CallsInv, Replaced
<1>2. ASSUME NEW g \in Flows PROVE SaysCall(call[g])'
  <2>1. CASE g = f
    BY <1>1, <2>1
  <2>2. CASE g # f
    <3>1. PICK y : y = call[g]
      OBVIOUS
    <3>2. SaysCall(y)
      BY <3>1 DEF Answered
    <3>3. SaysCall(y)'
      BY <3>2, StaysTrue DEF OnceInv, SaysCall, Grows
    <3> QED
      BY <1>1, <2>2, <3>1, <3>3
  <2> QED
    BY <2>1, <2>2
<1>3. ASSUME NEW c, c \in late' PROVE Says(c)'
  <2>1. Says(c)
    BY <1>3 DEF OnItsWay, Answered, SaysCall
  <2> QED
    BY <2>1, StaysTrue DEF OnceInv
<1> QED
  BY <1>1, <1>2, <1>3 DEF Answered

LEMMA SendSays ==
    ASSUME DaemonType, Grows, NEW c, Says(c)
    PROVE  SaysCall(Send(c))' /\ Send(c).phase = "sent" /\ Send(c).c = c
<1>1. Says(c)'
  BY StaysTrue
<1> QED
  BY <1>1 DEF SaysCall, Send, Snap

LEMMA DropAnswered ==
    ASSUME OnceInv, Answered, Grows, Drop(Flows)
    PROVE  Answered' /\ \A f \in Flows : call'[f].phase = "none"
<1>1. \A f \in Flows : call'[f].phase = "none"
  BY DEF Drop, NoCall
<1>2. OnItsWay
  BY DEF Drop, OnItsWay
<1>3. ASSUME NEW c, c \in late' PROVE Says(c)'
  <2>1. Says(c)
    BY <1>2, <1>3 DEF OnItsWay, Answered, SaysCall
  <2> QED
    BY <2>1, StaysTrue DEF OnceInv
<1> QED
  BY <1>1, <1>3 DEF Answered, SaysCall

\* The call of a record's stage, if what the record claims is done.
LEMMA NextCallSays ==
    ASSUME NEW r, RecordOk(r, tasks), r # NoRecovery, Real(r)
    PROVE  Says(NextCall(r))
<1>1. r.stage \in Stages
  BY DEF RecordOk
<1>2. CASE r.stage = "Workspace"
  <2>1. NextCall(r) = Call("workspace", 0, TaskId(r, "workspace"))
    BY <1>2 DEF NextCall
  <2> QED
    BY <2>1 DEF Says, Call, TaskId, IdOf, Id
<1>3. CASE r.stage = "Create"
  <2>1. NextCall(r) = Call("create", 0, TaskId(r, "create"))
    BY <1>3 DEF NextCall
  <2> QED
    BY <2>1 DEF Says, Call, TaskId, IdOf, Id
<1>4. CASE r.stage = "Start"
  <2>1. NextCall(r) = Call("start", r.agent, TaskId(r, "start"))
    BY <1>4 DEF NextCall
  <2>2. r.agent \in d.made[r.task]
    BY <1>4 DEF Real
  <2> QED
    BY <2>1, <2>2 DEF Says, Call, TaskId, IdOf, Id
<1>5. CASE r.stage = "Prompt"
  <2>1. NextCall(r) = Call("prompt", r.agent, TaskId(r, "prompt"))
    BY <1>5 DEF NextCall
  <2> QED
    BY <2>1 DEF Says, Call, TaskId, IdOf, Id
<1> QED
  BY <1>1, <1>2, <1>3, <1>4, <1>5 DEF Stages

\* What the application shows and keeps does not change.
LEMMA ViewStays ==
    ASSUME OnceInv, Snaps, RecoveryIsReal, Grows, UNCHANGED <<view, saved>>
    PROVE  Snaps' /\ RecoveryIsReal'
<1>1. UNCHANGED <<snapshot, flow, recovery, switch, preference, disk, unsaved>>
  BY DEF view, saved
<1>2. DaemonType /\ RecordsInv
  BY DEF OnceInv
<1>3. Snaps'
  BY <1>1, <1>2, StaysTrue DEF Snaps
<1>4. RecoveryIsReal'
  <2>1. Real(recovery)' /\ Real(disk)' /\ (unsaved # NoSave => Real(unsaved)')
    BY <1>1, <1>2, StaysTrue DEF RecoveryIsReal, RecordsInv
  <2>2. flow # NoFlow => Real(flow.r)'
    BY <1>1, <1>2, StaysTrue DEF RecoveryIsReal, RecordsInv, FlowOk
  <2>3. preference => d'.updated
    BY DEF RecoveryIsReal, Grows
  <2> QED
    BY <1>1, <2>1, <2>2, <2>3 DEF RecoveryIsReal
<1> QED
  BY <1>3, <1>4

\* An answer comes, or does not; the view does not see it yet.
LEMMA PhaseRecovers ==
    ASSUME OnceInv, OnceInv', World', Grows, Answered, Snaps, Linked, RecoveryIsReal,
           UNCHANGED <<view, saved>>, NEW f \in Flows, NEW x, Replaced(f, x), OnItsWay,
           SaysCall(x)', call[f].phase # "none", x.c = call[f].c
    PROVE  RecoveryInv'
<1>1. Answered' /\ \A g \in Flows : call'[g] = IF g = f THEN x ELSE call[g]
  BY AnsweredStep
<1>2. Snaps' /\ RecoveryIsReal'
  BY ViewStays
<1>3. flow' = flow /\ "task" \in Flows /\ "switch" \in Flows
  BY DEF view, Flows
<1>4. Linked'
  <2>1. \A g \in Flows : call[g].phase # "none" \/ call'[g].phase = "none"
    BY <1>1
  <2>2. \A g \in Flows : call'[g].phase # "none" => call'[g].c = call[g].c
    BY <1>1
  <2>3. flow.kind = "attempt" /\ call'["task"].phase # "none"
          => call'["task"].c = NextCall(flow.r)
    BY <1>3, <2>1, <2>2 DEF Linked
  <2>4. call'["switch"].phase # "none" /\ call'["switch"].c.method = "start" => d'.updated
    BY <1>3, <2>1, <2>2 DEF Linked, Grows
  <2>5. NextCall(flow.r)' = NextCall(flow.r)
    BY <1>3 DEF NextCall, TaskId, Id, Call
  <2> QED
    BY <1>3, <2>3, <2>4, <2>5 DEF Linked
<1> QED
  BY <1>1, <1>2, <1>4 DEF RecoveryInv

LEMMA DaemonRecovers ==
    ASSUME RecoveryInv, DaemonStep \/ \E f \in Flows : AnswerLost(f)
    PROVE  RecoveryInv'
<1>0. /\ OnceInv /\ World /\ Answered /\ Snaps /\ Linked /\ RecoveryIsReal
      /\ DaemonType /\ Accounted /\ CallsInv /\ tasks \in Nat
  BY DEF RecoveryInv, OnceInv, DaemonType
<1>1. UNCHANGED <<view, saved, tasks>>
  BY DEF DaemonStep, DaemonAccepts, DaemonRefuses, DaemonAnswersSnapshot, LateExecution,
         AnswerLost, counts
<1>2. OnceInv' /\ tasks' = tasks
  BY <1>0, <1>1, DaemonKeeps
<1>3. UNCHANGED d => World' /\ Grows
  BY <1>0, <1>2, WorldWaits
<1>4. ASSUME NEW f \in Flows, DaemonAccepts(f) PROVE RecoveryInv'
  <2>1. PICK z : z = call[f]
    OBVIOUS
  <2>2. /\ z.phase = "sent" /\ Allowed(z.c) /\ d' = Executed(z.c)
        /\ CallOk(z.c, tasks) /\ Says(z.c) /\ CallType(z) /\ Snap(z.snap)
    BY <1>0, <1>4, <2>1 DEF DaemonAccepts, CallsInv, Answered, SaysCall
  <2>3. World' /\ Grows /\ z.c.id \in d'.done
    BY <1>0, <1>2, <2>2, WorldExecutes
  <2>4. PICK q : q = (IF z.c.method = "prompt" THEN "ok" ELSE "snapshot")
    OBVIOUS
  <2>5. PICK x : x = [z EXCEPT !.phase = q]
    OBVIOUS
  <2>6. Replaced(f, x) /\ OnItsWay
    BY <1>4, <2>1, <2>4, <2>5 DEF DaemonAccepts, Replaced, OnItsWay
  <2>7. x = [phase |-> q, c |-> z.c, snap |-> z.snap]
    BY <2>2, <2>5 DEF CallType, NoCall
  <2>8. Says(z.c)' /\ Snap(z.snap)'
    BY <1>0, <2>2, <2>3, StaysTrue
  <2>9. SaysCall(x)'
    BY <2>3, <2>7, <2>8 DEF SaysCall
  <2> QED
    BY <1>0, <1>1, <1>2, <2>1, <2>2, <2>3, <2>6, <2>7, <2>9, PhaseRecovers
<1>5. ASSUME NEW f \in Flows, DaemonRefuses(f) \/ AnswerLost(f) PROVE RecoveryInv'
  <2>1. PICK z : z = call[f]
    OBVIOUS
  <2>2. /\ z.phase # "none" /\ UNCHANGED d
        /\ Says(z.c) /\ CallType(z) /\ Snap(z.snap)
    BY <1>0, <1>5, <2>1 DEF DaemonRefuses, AnswerLost, CallsInv, Answered, SaysCall
  <2>3. PICK x : x = [z EXCEPT !.phase = "failed"]
    OBVIOUS
  <2>4. Replaced(f, x) /\ OnItsWay
    BY <1>5, <2>1, <2>3 DEF DaemonRefuses, AnswerLost, Replaced, OnItsWay
  <2>5. x = [phase |-> "failed", c |-> z.c, snap |-> z.snap]
    BY <2>2, <2>3 DEF CallType, NoCall
  <2>6. SaysCall(x)'
    BY <1>0, <1>3, <2>2, <2>5, StaysTrue DEF SaysCall
  <2> QED
    BY <1>0, <1>1, <1>2, <1>3, <2>1, <2>2, <2>4, <2>5, <2>6, PhaseRecovers
<1>6. ASSUME NEW f \in Flows, DaemonAnswersSnapshot(f) PROVE RecoveryInv'
  <2>1. PICK z : z = call[f]
    OBVIOUS
  <2>2. /\ z.phase = "snapshot" /\ UNCHANGED <<d, late>> /\ Says(z.c) /\ CallType(z)
        /\ z.c.id \in d.done
    BY <1>0, <1>6, <2>1 DEF DaemonAnswersSnapshot, CallsInv, Answered, SaysCall
  <2>3. PICK s : s = Resources
    OBVIOUS
  <2>4. Snap(s)
    BY <1>0, <2>3 DEF Snap, Resources, World
  <2>5. z = [phase |-> z.phase, c |-> z.c, snap |-> z.snap]
    BY <2>2 DEF CallType, NoCall
  <2>6. PICK w : w = [z EXCEPT !.phase = "ok"]
    OBVIOUS
  <2>7. w = [phase |-> "ok", c |-> z.c, snap |-> z.snap]
    BY <2>5, <2>6
  <2>8. PICK x : x = [w EXCEPT !.snap = s]
    OBVIOUS
  <2>9. x = [phase |-> "ok", c |-> z.c, snap |-> s]
    BY <2>7, <2>8
  <2>10. Replaced(f, x) /\ OnItsWay
    <3>1. DOMAIN call = Flows
      BY <1>0 DEF CallsInv
    <3>2. call' = [call EXCEPT ![f] = [[z EXCEPT !.phase = "ok"] EXCEPT !.snap = s]]
      BY <1>6, <2>1, <2>3, <3>1 DEF DaemonAnswersSnapshot
    <3> QED
      BY <2>2, <2>6, <2>8, <3>2 DEF Replaced, OnItsWay
  <2>11. SaysCall(x)'
    BY <1>0, <1>3, <2>2, <2>4, <2>9, StaysTrue DEF SaysCall
  <2> QED
    BY <1>0, <1>1, <1>2, <1>3, <2>1, <2>2, <2>9, <2>10, <2>11, PhaseRecovers
<1>7. ASSUME LateExecution PROVE RecoveryInv'
  <2>1. PICK c \in late : /\ late' = late \ {c} /\ UNCHANGED call
                          /\ d' = IF Allowed(c) THEN Executed(c) ELSE d
    BY <1>7 DEF LateExecution
  <2>2. CallOk(c, tasks) /\ Says(c)
    BY <1>0 DEF CallsInv, Answered
  <2>3. World' /\ Grows
    <3>1. CASE Allowed(c)
      BY <1>0, <1>2, <2>1, <2>2, <3>1, WorldExecutes
    <3>2. CASE ~Allowed(c)
      BY <1>3, <2>1, <3>2
    <3> QED
      BY <3>1, <3>2
  <2>4. ASSUME NEW f \in Flows PROVE SaysCall(call[f])'
    <3>1. PICK y : y = call[f]
      OBVIOUS
    <3>2. SaysCall(y)
      BY <1>0, <3>1 DEF Answered
    <3>3. SaysCall(y)'
      BY <1>0, <2>3, <3>2, StaysTrue DEF SaysCall, Grows
    <3> QED
      BY <2>1, <3>1, <3>3
  <2>5. Answered'
    BY <1>0, <2>1, <2>3, <2>4, StaysTrue DEF Answered
  <2>6. Snaps' /\ RecoveryIsReal'
    BY <1>0, <1>1, <2>3, ViewStays
  <2>7. Linked'
    <3>1. NextCall(flow.r)' = NextCall(flow.r) /\ flow' = flow
      BY <1>1 DEF NextCall, TaskId, Id, Call, view
    <3> QED
      BY <1>0, <2>1, <2>3, <3>1 DEF Linked, Grows
  <2> QED
    BY <1>2, <2>3, <2>5, <2>6, <2>7 DEF RecoveryInv
<1> QED
  BY <1>4, <1>5, <1>6, <1>7 DEF DaemonStep

-----------------------------------------------------------------------------
\* The application's steps do nothing at the daemon.
LEMMA SameWorld ==
    ASSUME RecoveryInv, OnceInv', UNCHANGED d, tasks <= tasks'
    PROVE  /\ World' /\ Grows
           /\ \A r : Real(r) => Real(r)'
           /\ \A s : Snap(s) => Snap(s)'
           /\ \A x : SaysCall(x) => SaysCall(x)'
<1>1. OnceInv /\ DaemonType /\ World /\ tasks' \in Nat
  BY DEF RecoveryInv, OnceInv, DaemonType
<1>2. World' /\ Grows
  BY <1>1, WorldWaits
<1>3. \A r : Real(r) => Real(r)'
  BY DEF Real
<1>4. \A s : Snap(s) => Snap(s)'
  BY DEF Snap
<1>5. \A x : SaysCall(x) => SaysCall(x)'
  BY <1>1, <1>2, <1>4, StaysTrue DEF SaysCall
<1> QED
  BY <1>2, <1>3, <1>4, <1>5

\* The saga makes its next call, or none.
LEMMA SagaRecovers ==
    ASSUME RecoveryInv, OnceInv', UNCHANGED <<d, late, switch, preference>>, tasks <= tasks',
           NEW x, SaysCall(x), Replaced("task", x),
           flow'.kind = "attempt" /\ x.phase # "none" => x.c = NextCall(flow'.r),
           Snap(snapshot'), flow' # NoFlow => Snap(flow'.snap) /\ Real(flow'.r),
           Real(recovery'), Real(disk'), unsaved' # NoSave => Real(unsaved')
    PROVE  RecoveryInv'
<1>0. /\ OnceInv /\ Answered /\ Snaps /\ Linked /\ RecoveryIsReal
      /\ "task" \in Flows /\ "switch" \in Flows
  BY DEF RecoveryInv, Flows
<1>1. World' /\ Grows /\ SaysCall(x)'
  BY SameWorld
<1>2. Answered' /\ \A g \in Flows : call'[g] = IF g = "task" THEN x ELSE call[g]
  BY <1>0, <1>1, Waiting, AnsweredStep
<1>3. Snaps'
  BY <1>0 DEF Snaps, Snap
<1>4. Linked'
  <2>1. call'["task"] = x /\ call'["switch"] = call["switch"]
    BY <1>0, <1>2
  <2>2. NextCall(flow.r)' = NextCall(flow'.r)
    OBVIOUS
  <2> QED
    BY <1>0, <2>1, <2>2 DEF Linked
<1>5. RecoveryIsReal'
  BY <1>0 DEF RecoveryIsReal, Real
<1> QED
  BY <1>1, <1>2, <1>3, <1>4, <1>5 DEF RecoveryInv

LEMMA SendFacts ==
    ASSUME NEW c, Says(c)
    PROVE  SaysCall(Send(c)) /\ Send(c).c = c
BY DEF SaysCall, Send, Snap

LEMMA OverFacts == SaysCall(NoCall) /\ NoCall.phase = "none"
BY DEF SaysCall, NoCall

LEMMA StartAttemptRecovers ==
    ASSUME RecoveryInv, OnceInv', tasks <= tasks', NEW r, StartAttempt(r),
           Says(NextCall(r)), Real(r)
    PROVE  RecoveryInv'
<1>1. PICK c : c = NextCall(r)
  OBVIOUS
<1>2. PICK x : x = Send(c)
  OBVIOUS
<1>3. SaysCall(x) /\ x.c = c
  BY <1>1, <1>2, SendFacts
<1>4. /\ UNCHANGED <<d, late, switch, preference, snapshot, disk>>
      /\ Replaced("task", x)
      /\ recovery' = r /\ unsaved' = r
      /\ flow' = [kind |-> "attempt", r |-> r, snap |-> NoSnapshot]
  BY <1>1, <1>2 DEF StartAttempt, ScheduleSave, Replaced
<1>5. flow'.r = r /\ flow'.snap = NoSnapshot
  BY <1>4
<1>6. Snap(NoSnapshot)
  BY DEF Snap
<1>7. Snap(snapshot) /\ Real(disk)
  BY DEF RecoveryInv, Snaps, RecoveryIsReal
<1> QED
  BY <1>1, <1>3, <1>4, <1>5, <1>6, <1>7, SagaRecovers

LEMMA FlowEndsRecovers ==
    ASSUME RecoveryInv, OnceInv', NEW r, FlowEnds(r), Real(r), Snap(snapshot')
    PROVE  RecoveryInv'
<1>1. PICK x : x = NoCall
  OBVIOUS
<1>2. SaysCall(x) /\ x.phase = "none"
  BY <1>1, OverFacts
<1>3. /\ UNCHANGED <<d, late, switch, preference, disk, tasks>>
      /\ Replaced("task", x)
      /\ recovery' = r /\ unsaved' = r /\ flow' = NoFlow
  BY <1>1 DEF FlowEnds, ScheduleSave, Replaced, counts
<1>4. Real(disk) /\ tasks <= tasks'
  BY <1>3 DEF RecoveryInv, RecoveryIsReal, OnceInv, DaemonType
<1> QED
  BY <1>2, <1>3, <1>4, SagaRecovers

\* A call of the cleanup: of no consequence here.
LEMMA CleanupSays ==
    ASSUME NEW r,
           NEW c, \/ c = Call("stop", r.agent, TaskId(r, "cleanup_stop"))
                  \/ c = Call("delete", r.agent, TaskId(r, "cleanup_delete"))
    PROVE  Says(c)
BY DEF Says, Call, TaskId, IdOf, Id

\* Creating and cleaning up.
LEMMA TaskRecovers ==
    ASSUME RecoveryInv,
           CreateNewTask \/ RetryNewTask \/ TaskStep \/ AbandonTask \/ ArmCleanup
             \/ AlreadyGone \/ CleanUp
    PROVE  RecoveryInv'
<1>0. /\ OnceInv /\ World /\ Answered /\ Snaps /\ Linked /\ RecoveryIsReal
      /\ DaemonType /\ RecordsInv /\ tasks \in Nat /\ "task" \in Flows
  BY DEF RecoveryInv, OnceInv, DaemonType, Flows
<1>1. OnceInv'
  BY <1>0, TaskKeeps
<1>2. Real(NoRecovery) /\ Snap(NoSnapshot) /\ Snap(snapshot) /\ Real(disk) /\ Real(recovery)
  BY <1>0 DEF Real, Snap, Snaps, RecoveryIsReal
<1>3. CASE CreateNewTask
  <2>1. tasks' = tasks + 1
    BY <1>3 DEF CreateNewTask
  <2>2. PICK r : /\ StartAttempt(r)
                 /\ \E stage \in {"Workspace", "Create"} :
                       r = [task |-> tasks', stage |-> stage, agent |-> 0]
    BY <1>3 DEF CreateNewTask
  <2>3. Real(r)
    BY <2>2 DEF Real, Stages
  <2>4. Says(NextCall(r))
    <3>1. \/ NextCall(r) = Call("workspace", 0, TaskId(r, "workspace"))
          \/ NextCall(r) = Call("create", 0, TaskId(r, "create"))
      BY <2>2 DEF NextCall
    <3> QED
      BY <3>1 DEF Says, Call, TaskId, IdOf, Id
  <2> QED
    BY <1>0, <1>1, <2>1, <2>2, <2>3, <2>4, StartAttemptRecovers
<1>4. CASE RetryNewTask
  <2>1. tasks' = tasks /\ StartAttempt(recovery) /\ recovery # NoRecovery
    BY <1>4 DEF RetryNewTask
  <2>2. PICK r : r = recovery
    OBVIOUS
  <2>3. Real(r) /\ Says(NextCall(r)) /\ StartAttempt(r)
    BY <1>0, <1>2, <2>1, <2>2, NextCallSays DEF RecordsInv
  <2> QED
    BY <1>0, <1>1, <2>1, <2>3, StartAttemptRecovers
<1>5. CASE AttemptGoesOn
  <2>1. /\ UNCHANGED <<d, late, recovery, snapshot, saved, switch, preference, tasks>>
        /\ flow.kind = "attempt" /\ flow # NoFlow
        /\ flow.r.stage # "Prompt" /\ call["task"].phase = "ok"
    BY <1>5 DEF AttemptGoesOn, counts, NoFlow
  <2>2. PICK g : g = flow.r
    OBVIOUS
  <2>3. /\ flow = [kind |-> flow.kind, r |-> g, snap |-> flow.snap]
        /\ g = [task |-> g.task, stage |-> g.stage, agent |-> g.agent]
        /\ g.task \in 1..tasks /\ g.stage \in {"Workspace", "Create", "Start"}
        /\ RecordOk(g, tasks) /\ g # NoRecovery /\ Real(g)
    BY <1>0, <2>1, <2>2 DEF RecordsInv, FlowOk, RecordOk, Stages, RecoveryIsReal
  <2>4. call["task"].c = NextCall(g) /\ NextCall(g).id \in d.done
    BY <1>0, <2>1, <2>2 DEF Linked, Answered, SaysCall
  <2>5. g.task \in Tasks
    BY <1>0, <2>3, TaskFlowsAssumption DEF DaemonType, Tasks
  <2>6. PICK a : a = (CHOOSE b \in d.made[g.task] : TRUE)
    OBVIOUS
  <2>7. PICK r : r = Advanced(g)
    OBVIOUS
  <2>8. Real(r) /\ RecordOk(r, tasks) /\ r # NoRecovery
    <3>1. CASE g.stage = "Workspace"
      <4>1. r = [task |-> g.task, stage |-> "Create", agent |-> g.agent]
        BY <2>3, <2>7, <3>1 DEF Advanced
      <4>2. Real(r)
        BY <2>3, <4>1 DEF Real, Stages, NoRecovery
      <4> QED
        BY <2>3, <4>1, <4>2 DEF RecordOk, Stages, NoRecovery
    <3>2. CASE g.stage = "Create"
      <4>1. r = [g EXCEPT !.stage = "Start", !.agent = a]
        BY <2>6, <2>7, <3>2 DEF Advanced
      <4>2. r = [task |-> g.task, stage |-> "Start", agent |-> a]
        BY <2>3, <4>1
      <4>3. NextCall(g).id = IdOf(g.task, "create")
        BY <3>2 DEF NextCall, Call, TaskId, IdOf
      <4>4. a \in d.made[g.task] /\ a # 0
        <5>1. d.made[g.task] # {} /\ d.made[g.task] \subseteq Agents
          BY <1>0, <2>4, <2>5, <4>3 DEF World
        <5> QED
          BY <2>6, <5>1 DEF Agents
      <4>5. Real(r)
        BY <4>2, <4>4 DEF Real, Stages
      <4> QED
        BY <2>3, <4>2, <4>5 DEF RecordOk, Stages, NoRecovery
    <3>3. CASE g.stage = "Start"
      <4>1. r = [task |-> g.task, stage |-> "Prompt", agent |-> g.agent]
        BY <2>3, <2>7, <3>3 DEF Advanced
      <4>2. NextCall(g).id = IdOf(g.task, "start")
        BY <3>3 DEF NextCall, Call, TaskId, IdOf
      <4>3. d.made[g.task] \subseteq d.started
        BY <1>0, <2>4, <2>5, <4>2 DEF World
      <4>4. g.agent # 0 /\ g.agent \in d.made[g.task]
        BY <2>3, <3>3 DEF Real
      <4>5. Real(r)
        BY <4>1, <4>3, <4>4 DEF Real, Stages
      <4> QED
        BY <2>3, <4>1, <4>5 DEF RecordOk, Stages, NoRecovery
    <3> QED
      BY <2>3, <3>1, <3>2, <3>3
  <2>9. PICK c : c = NextCall(r)
    OBVIOUS
  <2>10. Says(c)
    BY <2>8, <2>9, NextCallSays
  <2>11. PICK x : x = Send(c)
    OBVIOUS
  <2>12. SaysCall(x) /\ x.c = c /\ Replaced("task", x)
    BY <1>5, <2>2, <2>7, <2>9, <2>10, <2>11, SendFacts DEF AttemptGoesOn, Replaced
  <2>13. PICK s : s = call["task"].snap
    OBVIOUS
  <2>14. flow' = [kind |-> flow.kind, r |-> r, snap |-> s]
    BY <1>5, <2>2, <2>3, <2>7, <2>13 DEF AttemptGoesOn
  <2>15. Snap(s)
    BY <1>0, <2>1, <2>13 DEF Answered, SaysCall
  <2>16. flow'.r = r /\ flow'.snap = s
    BY <2>14
  <2>17. unsaved' # NoSave => Real(unsaved')
    BY <1>0, <2>1 DEF RecoveryIsReal, saved
  <2>18. Real(disk') /\ Real(recovery') /\ Snap(snapshot') /\ tasks <= tasks'
    BY <1>0, <1>2, <2>1 DEF saved
  <2> QED
    BY <1>1, <2>1, <2>8, <2>9, <2>12, <2>15, <2>16, <2>17, <2>18, SagaRecovers
<1>6. CASE AttemptCompletes \/ AttemptFails \/ CleanupCompletes \/ CleanupFails
  <2>1. PICK r : FlowEnds(r) /\ (r = NoRecovery \/ (flow # NoFlow /\ r = flow.r))
    BY <1>6 DEF AttemptCompletes, AttemptFails, CleanupCompletes, CleanupFails, NoFlow
  <2>2. Real(r)
    BY <1>0, <1>2, <2>1 DEF RecoveryIsReal
  <2>3. flow # NoFlow /\ snapshot' \in {snapshot, flow.snap, call["task"].snap}
        /\ call["task"].phase # "none"
    BY <1>6 DEF AttemptCompletes, AttemptFails, CleanupCompletes, CleanupFails,
                TakeSnapshot, NoFlow
  <2>4. Snap(snapshot) /\ Snap(flow.snap) /\ Snap(call["task"].snap)
    BY <1>0, <2>3 DEF Snaps, Answered, SaysCall
  <2>5. Snap(snapshot')
    BY <2>3, <2>4
  <2> QED
    BY <1>1, <2>1, <2>2, <2>5, FlowEndsRecovers
<1> DEFINE Same == UNCHANGED <<d, late, call, flow, switch, snapshot, preference, disk, tasks>>
<1>7. ASSUME Same, Real(recovery'), unsaved' # NoSave => Real(unsaved') PROVE RecoveryInv'
  <2>1. PICK x : x = call["task"]
    OBVIOUS
  <2>2. SaysCall(x) /\ Replaced("task", x)
    BY <1>0, <1>7, <2>1 DEF Answered, Replaced, OnceInv, CallsInv
  <2>3. flow'.kind = "attempt" /\ x.phase # "none" => x.c = NextCall(flow'.r)
    BY <1>0, <1>7, <2>1 DEF Linked
  <2>4. flow' # NoFlow => Snap(flow'.snap) /\ Real(flow'.r)
    BY <1>0, <1>7 DEF Snaps, RecoveryIsReal
  <2>5. Snap(snapshot') /\ Real(disk') /\ tasks <= tasks'
    BY <1>0, <1>2, <1>7
  <2> QED
    BY <1>1, <1>7, <2>2, <2>3, <2>4, <2>5, SagaRecovers
<1>8. CASE AbandonTask \/ AlreadyGone
  <2>1. Same /\ recovery' = NoRecovery /\ unsaved' = NoRecovery
    BY <1>8 DEF AbandonTask, AlreadyGone, GiveUp, ScheduleSave, counts
  <2> QED
    BY <1>2, <1>7, <2>1
<1>9. CASE ArmCleanup
  <2>1. Same /\ UNCHANGED <<recovery, unsaved>>
    BY <1>9 DEF ArmCleanup, counts, saved
  <2> QED
    BY <1>0, <1>2, <1>7, <2>1 DEF RecoveryIsReal
<1> HIDE DEF Same
<1>10. CASE CleanUp \/ CleanupStopped
  <2>1. /\ UNCHANGED <<d, late, recovery, snapshot, saved, switch, preference, tasks>>
    BY <1>10 DEF CleanUp, CleanupStopped, counts
  <2>2. PICK r, c, s :
           /\ Replaced("task", Send(c)) /\ Real(r) /\ Snap(s)
           /\ flow'.kind = "cleanup" /\ flow'.r = r /\ flow'.snap = s
           /\ \/ c = Call("stop", r.agent, TaskId(r, "cleanup_stop"))
              \/ c = Call("delete", r.agent, TaskId(r, "cleanup_delete"))
    <3>1. CASE CleanUp
      <4>1. flow' = [kind |-> "cleanup", r |-> recovery, snap |-> NoSnapshot]
        BY <3>1 DEF CleanUp
      <4>2. \E c : /\ Replaced("task", Send(c))
                   /\ \/ c = Call("stop", recovery.agent, TaskId(recovery, "cleanup_stop"))
                      \/ c = Call("delete", recovery.agent, TaskId(recovery, "cleanup_delete"))
        BY <3>1 DEF CleanUp, Replaced
      <4>3. flow'.kind = "cleanup" /\ flow'.r = recovery /\ flow'.snap = NoSnapshot
        BY <4>1
      <4> QED
        BY <1>2, <4>2, <4>3
    <3>2. CASE CleanupStopped
      <4>1. flow.kind = "cleanup" /\ flow # NoFlow /\ call["task"].phase = "ok"
        BY <3>2 DEF CleanupStopped, NoFlow
      <4>2. PICK g : g = flow.r
        OBVIOUS
      <4>3. flow = [kind |-> "cleanup", r |-> g, snap |-> flow.snap] /\ Real(g)
        BY <1>0, <4>1, <4>2 DEF RecordsInv, FlowOk, RecoveryIsReal
      <4>4. PICK s : s = call["task"].snap
        OBVIOUS
      <4>5. flow' = [kind |-> "cleanup", r |-> g, snap |-> s]
        BY <3>2, <4>3, <4>4 DEF CleanupStopped
      <4>6. Snap(s)
        BY <1>0, <4>1, <4>4 DEF Answered, SaysCall
      <4>7. \E c : /\ Replaced("task", Send(c))
                   /\ c = Call("delete", g.agent, TaskId(g, "cleanup_delete"))
        BY <3>2, <4>2 DEF CleanupStopped, Replaced
      <4>8. flow'.kind = "cleanup" /\ flow'.r = g /\ flow'.snap = s
        BY <4>5
      <4> QED
        BY <4>3, <4>6, <4>7, <4>8
    <3> QED
      BY <1>10, <3>1, <3>2
  <2>3. PICK x : x = Send(c)
    OBVIOUS
  <2>4. SaysCall(x) /\ Replaced("task", x)
    BY <2>2, <2>3, CleanupSays, SendFacts
  <2>5. unsaved' # NoSave => Real(unsaved')
    BY <1>0, <2>1 DEF RecoveryIsReal, saved
  <2>6. Real(disk') /\ Real(recovery') /\ Snap(snapshot') /\ tasks <= tasks'
    BY <1>0, <1>2, <2>1 DEF saved
  <2> QED
    BY <1>1, <2>1, <2>2, <2>4, <2>5, <2>6, SagaRecovers
<1> QED
  BY <1>3, <1>4, <1>5, <1>6, <1>8, <1>9, <1>10 DEF TaskStep

\* The mutation or the switch makes its next call, or none.
LEMMA OtherRecovers ==
    ASSUME RecoveryInv, OnceInv', UNCHANGED <<d, flow, recovery, saved, tasks>>,
           NEW f \in {"mutation", "switch"}, NEW x, SaysCall(x), Replaced(f, x), OnItsWay,
           f = "switch" /\ x.phase # "none" /\ x.c.method = "start" => d.updated,
           Snap(snapshot'), preference' => d.updated,
           switch' # NoFlow =>
             /\ switch' = [kind |-> switch'.kind, n |-> switch'.n, snap |-> switch'.snap]
             /\ Snap(switch'.snap)
    PROVE  RecoveryInv'
<1>0. /\ OnceInv /\ Answered /\ Snaps /\ Linked /\ RecoveryIsReal /\ tasks <= tasks'
      /\ "task" \in Flows /\ "switch" \in Flows /\ f \in Flows /\ f # "task"
  BY DEF RecoveryInv, OnceInv, DaemonType, Flows
<1>1. World' /\ Grows /\ SaysCall(x)'
  BY <1>0, SameWorld
<1>2. Answered' /\ \A g \in Flows : call'[g] = IF g = f THEN x ELSE call[g]
  BY <1>0, <1>1, AnsweredStep
<1>3. Snaps'
  BY <1>0 DEF Snaps, Snap
<1>4. Linked'
  <2>1. /\ call'["task"] = call["task"]
        /\ call'["switch"] = IF f = "switch" THEN x ELSE call["switch"]
    BY <1>0, <1>2
  <2>2. NextCall(flow.r)' = NextCall(flow.r)
    BY DEF NextCall, TaskId, Id, Call
  <2> QED
    BY <1>0, <2>1, <2>2 DEF Linked
<1>5. RecoveryIsReal'
  BY <1>0 DEF RecoveryIsReal, Real, saved
<1> QED
  BY <1>1, <1>2, <1>3, <1>4, <1>5 DEF RecoveryInv

LEMMA OtherFlowsRecover ==
    ASSUME RecoveryInv,
           (\E method \in {"start", "stop", "delete"} : RunMutation(method))
             \/ MutationAnswered \/ SwitchProvider \/ SwitchStep
    PROVE  RecoveryInv'
<1>0. /\ OnceInv /\ World /\ Answered /\ Snaps /\ Linked /\ RecoveryIsReal
      /\ CallsInv /\ "mutation" \in Flows /\ "switch" \in Flows
  BY DEF RecoveryInv, OnceInv, Flows
<1>1. OnceInv' /\ UNCHANGED <<d, flow, recovery, saved, tasks>>
  BY <1>0, OtherFlowsKeep DEF RunMutation, MutationAnswered, SwitchProvider, SwitchStep,
     SwitchGoesOn, SwitchCompletes, SwitchFails, SwitchEnds, counts
<1>2. /\ Snap(NoSnapshot) /\ Snap(snapshot) /\ (preference => d.updated)
      /\ switch # NoFlow =>
            /\ switch = [kind |-> switch.kind, n |-> switch.n, snap |-> switch.snap]
            /\ Snap(switch.snap)
  BY <1>0 DEF Snap, Snaps, RecoveryIsReal
<1>3. \A c : c.id.by # "task" /\ (c.id.what = <<"update", 0>> <=> c.method = "update")
               => Says(c)
  BY DEF Says, IdOf, Id
<1>4. ASSUME NEW method \in {"start", "stop", "delete"}, RunMutation(method)
      PROVE  RecoveryInv'
  <2>1. PICK c : c = Call(method, 1, Id("mutation", mutations', <<method, 0>>))
    OBVIOUS
  <2>2. Says(c)
    BY <1>3, <2>1 DEF Call, Id
  <2>3. PICK x : x = Send(c)
    OBVIOUS
  <2>4. /\ SaysCall(x) /\ Replaced("mutation", x) /\ OnItsWay
        /\ UNCHANGED <<snapshot, switch, preference>>
    BY <1>0, <1>4, <2>1, <2>2, <2>3, SendFacts DEF RunMutation, Replaced, OnItsWay
  <2> QED
    BY <1>1, <1>2, <2>4, OtherRecovers
<1>5. CASE MutationAnswered
  <2>1. PICK x : x = NoCall
    OBVIOUS
  <2>2. /\ SaysCall(x) /\ Replaced("mutation", x) /\ OnItsWay
        /\ UNCHANGED <<switch, preference>>
    BY <1>5, <2>1, OverFacts, Waiting DEF MutationAnswered, Replaced
  <2>3. Snap(snapshot')
    BY <1>0, <1>2, <1>5 DEF MutationAnswered, TakeSnapshot, Answered, SaysCall
  <2> QED
    BY <1>1, <1>2, <2>2, <2>3, OtherRecovers
<1>6. CASE SwitchProvider
  <2>1. CASE snapshot.updated
    <3>1. PICK x : x = call["switch"]
      OBVIOUS
    <3>2. /\ UNCHANGED <<call, late, snapshot, switch>> /\ preference' = TRUE /\ d.updated
      BY <1>2, <1>6, <2>1 DEF SwitchProvider, Snap
    <3>3. /\ SaysCall(x) /\ Replaced("switch", x) /\ OnItsWay
          /\ x.phase # "none" /\ x.c.method = "start" => d.updated
      BY <1>0, <3>1, <3>2, Waiting DEF Answered, Replaced, CallsInv, Linked
    <3> QED
      BY <1>1, <1>2, <3>2, <3>3, OtherRecovers
  <2>2. CASE ~snapshot.updated
    <3>1. PICK c : c = Call("stop", 1, Id("switch", mutations', <<"stop", 0>>))
      OBVIOUS
    <3>2. Says(c) /\ c.method = "stop"
      BY <1>3, <3>1 DEF Call, Id
    <3>3. PICK x : x = Send(c)
      OBVIOUS
    <3>4. /\ SaysCall(x) /\ x.c = c /\ Replaced("switch", x) /\ OnItsWay
          /\ UNCHANGED <<snapshot, preference>>
          /\ switch' = [kind |-> "switch", n |-> mutations', snap |-> NoSnapshot]
      BY <1>6, <2>2, <3>1, <3>2, <3>3, SendFacts, Waiting DEF SwitchProvider, SwitchCall, Replaced
    <3>5. /\ switch' = [kind |-> switch'.kind, n |-> switch'.n, snap |-> switch'.snap]
          /\ switch'.snap = NoSnapshot
      BY <3>4
    <3> QED
      BY <1>1, <1>2, <3>2, <3>4, <3>5, OtherRecovers
  <2> QED
    BY <2>1, <2>2
<1>7. CASE SwitchGoesOn
  <2>1. /\ switch # NoFlow /\ call["switch"].phase = "ok"
        /\ call["switch"].c.method \in {"stop", "update"}
        /\ UNCHANGED <<late, snapshot, preference>>
    BY <1>7 DEF SwitchGoesOn, NoFlow
  <2>2. PICK m : m = (IF call["switch"].c.method = "stop" THEN "update" ELSE "start")
    OBVIOUS
  <2>3. PICK c : c = Call(m, 1, Id("switch", switch.n, <<m, 0>>))
    OBVIOUS
  <2>4. Says(c) /\ c.method = m
    <3>1. m \in {"update", "start"}
      BY <2>2
    <3> QED
      BY <1>3, <2>3, <3>1 DEF Call, Id
  <2>5. c.method = "start" => d.updated
    <3> SUFFICES ASSUME c.method = "start" PROVE d.updated
      OBVIOUS
    <3>1. call["switch"].c.method = "update"
      BY <2>1, <2>2, <2>4
    <3>2. /\ call["switch"].c.id \in d.done
          /\ call["switch"].c.id.what = <<"update", 0>>
      BY <1>0, <2>1, <3>1 DEF Answered, SaysCall, Says
    <3> QED
      BY <1>0, <3>2 DEF World
  <2>6. PICK x : x = Send(c)
    OBVIOUS
  <2>7. SaysCall(x) /\ x.c = c /\ Replaced("switch", x) /\ OnItsWay
    BY <1>7, <2>1, <2>2, <2>3, <2>4, <2>6, SendFacts, Waiting
       DEF SwitchGoesOn, SwitchCall, Replaced
  <2>8. PICK s : s = call["switch"].snap
    OBVIOUS
  <2>9. Snap(s)
    BY <1>0, <2>1, <2>8 DEF Answered, SaysCall
  <2>10. switch' = [kind |-> switch.kind, n |-> switch.n, snap |-> s]
    BY <1>2, <1>7, <2>1, <2>8 DEF SwitchGoesOn
  <2>11. /\ switch' = [kind |-> switch'.kind, n |-> switch'.n, snap |-> switch'.snap]
         /\ switch'.snap = s
    BY <2>10
  <2> QED
    BY <1>1, <1>2, <2>1, <2>5, <2>7, <2>9, <2>11, OtherRecovers
<1>8. CASE SwitchCompletes \/ SwitchFails
  <2>1. PICK x : x = NoCall
    OBVIOUS
  <2>2. SaysCall(x) /\ x.phase = "none" /\ Replaced("switch", x) /\ OnItsWay /\ switch' = NoFlow
    BY <1>8, <2>1, OverFacts, Waiting
       DEF SwitchCompletes, SwitchFails, SwitchEnds, Replaced
  <2>3. switch # NoFlow /\ call["switch"].phase # "none"
    BY <1>8 DEF SwitchCompletes, SwitchFails, NoFlow
  <2>4. Snap(snapshot')
    <3>1. snapshot' \in {snapshot, switch.snap, call["switch"].snap}
      BY <1>8 DEF SwitchCompletes, SwitchFails, TakeSnapshot
    <3>2. Snap(switch.snap) /\ Snap(call["switch"].snap)
      BY <1>0, <1>2, <2>3 DEF Answered, SaysCall
    <3> QED
      BY <1>2, <3>1, <3>2
  <2>5. preference' => d.updated
    <3>1. call["switch"].c.method = "start" => d.updated
      BY <1>0, <2>3 DEF Linked
    <3>2. preference' => preference \/ call["switch"].c.method = "start"
      BY <1>8 DEF SwitchCompletes, SwitchFails, ProviderUpdated
    <3> QED
      BY <1>2, <3>1, <3>2
  <2> QED
    BY <1>1, <2>2, <2>4, <2>5, OtherRecovers
<1> QED
  BY <1>4, <1>5, <1>6, <1>7, <1>8 DEF SwitchStep

\* The session, the file and the crash.
LEMMA SessionRecovers ==
    ASSUME RecoveryInv, Disconnect \/ Reconnect \/ SessionSnapshot \/ Save \/ Crash
    PROVE  RecoveryInv'
<1>0. /\ OnceInv /\ World /\ Answered /\ Snaps /\ Linked /\ RecoveryIsReal
      /\ CallsInv /\ tasks \in Nat /\ "task" \in Flows /\ "switch" \in Flows
  BY DEF RecoveryInv, OnceInv, DaemonType, Flows
<1>1. OnceInv' /\ UNCHANGED <<d, tasks>>
  BY <1>0, SessionKeeps DEF Disconnect, Reconnect, SessionSnapshot, Save, Crash, counts
<1>2. World' /\ Grows
  BY <1>0, <1>1, SameWorld
<1>3. Real(NoRecovery) /\ Snap(NoSnapshot) /\ NoFlow.kind # "attempt"
  BY DEF Real, Snap, NoFlow
<1>4. CASE Disconnect \/ Crash
  <2>1. /\ Drop(Flows) /\ snapshot' = NoSnapshot /\ flow' = NoFlow /\ switch' = NoFlow
        /\ UNCHANGED preference
    BY <1>4 DEF Disconnect, Crash, ClearConnectionBoundState
  <2>2. Answered' /\ \A f \in Flows : call'[f].phase = "none"
    BY <1>0, <1>2, <2>1, DropAnswered
  <2>3. Snaps' /\ Linked'
    BY <1>0, <1>3, <2>1, <2>2 DEF Snaps, Linked, Snap
  <2>4. /\ recovery' \in {recovery, disk, NoRecovery} /\ disk' \in {disk, NoRecovery}
        /\ unsaved' \in {unsaved, NoSave}
    BY <1>4 DEF Disconnect, Crash, saved
  <2>5. /\ Real(recovery') /\ Real(disk') /\ (unsaved' # NoSave => Real(unsaved'))
        /\ (preference => d.updated)
    BY <1>0, <1>3, <2>4 DEF RecoveryIsReal
  <2>6. RecoveryIsReal'
    BY <1>1, <2>1, <2>5 DEF RecoveryIsReal, Real
  <2> QED
    BY <1>1, <1>2, <2>2, <2>3, <2>6 DEF RecoveryInv
<1>5. CASE Reconnect \/ Save \/ SessionSnapshot
  <2>1. /\ UNCHANGED <<call, late, flow, switch, preference>>
        /\ snapshot' \in {snapshot, Resources}
        /\ recovery' \in {recovery, Reconciled(Resources)}
        /\ disk' \in {disk, unsaved} /\ (disk' # disk => unsaved # NoSave)
        /\ unsaved' \in {unsaved, NoSave, recovery'}
    BY <1>5 DEF Reconnect, Save, SessionSnapshot, ScheduleSave, view, saved
  <2>2. Answered' /\ Linked'
    <3>1. ASSUME NEW f \in Flows PROVE SaysCall(call[f])'
      <4>1. PICK y : y = call[f]
        OBVIOUS
      <4>2. SaysCall(y)
        BY <1>0, <4>1 DEF Answered
      <4>3. SaysCall(y)'
        BY <1>0, <1>1, <4>2, SameWorld
      <4> QED
        BY <2>1, <4>1, <4>3
    <3>2. \A c : Says(c) => Says(c)'
      BY <1>0, <1>2, StaysTrue DEF OnceInv
    <3>3. NextCall(flow.r)' = NextCall(flow.r)
      BY <2>1 DEF NextCall, TaskId, Id, Call
    <3> QED
      BY <1>0, <1>1, <2>1, <3>1, <3>2, <3>3 DEF Answered, Linked
  <2>3. Snap(snapshot')
    <3>1. Snap(Resources)
      BY <1>0 DEF Snap, Resources, World
    <3> QED
      BY <1>0, <2>1, <3>1 DEF Snaps
  <2>4. Snaps'
    BY <1>0, <1>1, <2>1, <2>3 DEF Snaps, Snap
  <2>5. Real(Reconciled(Resources))
    <3>1. PICK r : r = Reconciled(Resources)
      OBVIOUS
    <3>2. CASE r \in {recovery, NoRecovery}
      BY <1>0, <1>3, <3>1, <3>2 DEF RecoveryIsReal
    <3>3. CASE r \notin {recovery, NoRecovery}
      <4>1. /\ r = [recovery EXCEPT !.stage = "Prompt"] /\ recovery # NoRecovery
            /\ recovery.agent # 0 /\ recovery.stage = "Start"
            /\ Exists(Resources, recovery.agent)
            /\ d.status[recovery.agent] = "running"
        BY <3>1, <3>3 DEF Reconciled, Resources
      <4>2. recovery = [task |-> recovery.task, stage |-> recovery.stage, agent |-> recovery.agent]
        BY <1>0, <4>1 DEF OnceInv, RecordsInv, RecordOk
      <4>3. r = [task |-> recovery.task, stage |-> "Prompt", agent |-> recovery.agent]
        BY <4>1, <4>2
      <4>4. recovery.agent \in d.started
        BY <1>0, <4>1 DEF World, Exists
      <4>5. recovery.agent \in d.made[recovery.task]
        BY <1>0, <4>1 DEF RecoveryIsReal, Real
      <4>6. Real(r)
        BY <4>1, <4>3, <4>4, <4>5 DEF Real, Stages
      <4> QED
        BY <3>1, <4>6
    <3> QED
      BY <3>1, <3>2, <3>3
  <2>6. /\ Real(recovery') /\ Real(disk') /\ (unsaved' # NoSave => Real(unsaved'))
        /\ (flow # NoFlow => Real(flow.r)) /\ (preference => d.updated)
    BY <1>0, <2>1, <2>5 DEF RecoveryIsReal
  <2>7. RecoveryIsReal'
    BY <1>1, <2>1, <2>6 DEF RecoveryIsReal, Real
  <2> QED
    BY <1>1, <1>2, <2>2, <2>4, <2>7 DEF RecoveryInv
<1> QED
  BY <1>4, <1>5

-----------------------------------------------------------------------------
LEMMA RecoveryAtFirst == Init => RecoveryInv
<1> SUFFICES ASSUME Init PROVE RecoveryInv
  OBVIOUS
<1>1. OnceInv
  BY OnceAtFirst
<1>2. World
  <2>1. /\ 1 \in Agents
        /\ d.status = [a \in Agents |-> IF a = 1 THEN "running" ELSE "none"]
        /\ d.done = {} /\ d.started = {1} /\ d.updated = FALSE
        /\ d.made = [n \in Tasks |-> {}]
    <3>1. MaxTasks * (MaxAttempts + 1) \in Nat
      BY TaskFlowsAssumption
    <3> QED
      BY <3>1 DEF Init, Agents
  <2>2. {n \in 1..tasks : IdOf(n, "create") \in d.done} = {}
    BY <2>1
  <2>3. Cardinality({n \in 1..tasks : IdOf(n, "create") \in d.done}) = 0
    BY <2>2, FS_EmptySet
  <2>4. \A a \in Agents : d.status[a] # "none" <=> a <= 1
    BY <2>1 DEF Agents
  <2>5. /\ DOMAIN d.status = Agents
        /\ \A n \in Tasks : d.made[n] = {} /\ IdOf(n, "create") \notin d.done
                          /\ IdOf(n, "start") \notin d.done
        /\ \A a \in Agents : d.status[a] = "running" => a \in d.started
        /\ ~ \E i \in d.done : i.what = <<"update", 0>>
    BY <2>1
  <2>6. \E k \in Agents :
           /\ k <= 1 + Cardinality({n \in 1..tasks : IdOf(n, "create") \in d.done})
           /\ \A a \in Agents : d.status[a] # "none" <=> a <= k
    BY <2>1, <2>3, <2>4
  <2> QED
    BY <2>1, <2>5, <2>6 DEF World
<1>3. Answered /\ Linked
  <2>1. late = {} /\ \A f \in Flows : call[f].phase = "none"
    BY DEF Init, NoCall
  <2>2. "task" \in Flows /\ "switch" \in Flows
    BY DEF Flows
  <2> QED
    BY <2>1, <2>2 DEF Answered, SaysCall, Linked
<1>4. Snaps
  BY DEF Init, Snaps, Snap, Resources
<1>5. RecoveryIsReal
  BY DEF Init, RecoveryIsReal, Real
<1> QED
  BY <1>1, <1>2, <1>3, <1>4, <1>5 DEF RecoveryInv

LEMMA RecoveryStays == RecoveryInv /\ [Next]_vars => RecoveryInv'
<1> SUFFICES ASSUME RecoveryInv, [Next]_vars PROVE RecoveryInv'
  OBVIOUS
<1>1. CASE UNCHANGED vars
  <2>1. UNCHANGED <<d, late, call, view, saved, tasks>>
    BY <1>1 DEF vars, counts
  <2>2. /\ OnceInv /\ Answered /\ Snaps /\ Linked /\ RecoveryIsReal
        /\ tasks <= tasks' /\ "task" \in Flows
    BY <2>1 DEF RecoveryInv, OnceInv, DaemonType, Flows
  <2>3. OnceInv'
    BY <1>1, <2>2, OnceStays
  <2>4. PICK x : x = call["task"]
    OBVIOUS
  <2>5. SaysCall(x) /\ Replaced("task", x)
    BY <2>1, <2>2, <2>4 DEF Answered, Replaced, OnceInv, CallsInv
  <2> QED
    BY <2>1, <2>2, <2>3, <2>4, <2>5, SagaRecovers
       DEF view, saved, Linked, Snaps, RecoveryIsReal
<1>2. CASE Next
  BY <1>2, DaemonRecovers, TaskRecovers, OtherFlowsRecover, SessionRecovers DEF Next
<1> QED
  BY <1>1, <1>2

\* A recovery record, in memory, in the file, in what will be saved and in the
\* running attempt, claims nothing the daemon has not done; neither does the
\* project's provider (tasks.rs, reconcile_new_task_recovery;
\* provider_switch.rs, ProviderSwitchFailure).
THEOREM RecoveriesAreReal ==
    ASSUME TaskFlowsAssumption PROVE Spec => []RecoveryIsReal
<1>1. Init => RecoveryInv
  BY RecoveryAtFirst
<1>2. RecoveryInv /\ [Next]_vars => RecoveryInv'
  BY RecoveryStays
<1>3. RecoveryInv => RecoveryIsReal
  BY DEF RecoveryInv
<1> QED
  BY <1>1, <1>2, <1>3, PTL DEF Spec
=============================================================================
