------------------------- MODULE ConversationProofs -------------------------
(***************************************************************************)
(* What TLAPS proves of MCConversation, whatever the agents, the prompts,  *)
(* the limits and the capacities are.  UiDelivery has proofs of its own;   *)
(* those of PromptQueue, Composer and Timeline are here.                   *)
(***************************************************************************)
EXTENDS MCConversation, WellFoundedInduction, SequenceTheorems, FiniteSetTheorems, TLAPS

UP == INSTANCE UiDeliveryProofs WITH held <- uHeld, channel <- uChannel

\* A step of the composition is a step of every component, or leaves it alone.
LEMMA StepOfEach ==
    ASSUME [ConversationNext]_allVars
    PROVE  /\ [Next]_vars
           /\ [Que!Next]_(Que!vars)
           /\ [Cmp!Next]_(Cmp!vars)
           /\ [Dlv!Next]_(Dlv!vars)
<1>1. UNCHANGED tV => UNCHANGED vars
  BY DEF tV, vars, pathVars, turnVars, listVars
<1>2. UNCHANGED qV => UNCHANGED Que!vars
  BY DEF qV, Que!vars, Que!viewVars, Que!daemonVars, Que!ghosts, Que!faultVars
<1>3. UNCHANGED cV => UNCHANGED Cmp!vars
  BY DEF cV, Cmp!vars
<1>4. UNCHANGED uV => UNCHANGED Dlv!vars
  BY DEF uV, Dlv!vars, Dlv!supVars, Dlv!clientVars, Dlv!pathVars, Dlv!uiVars
<1>5. UNCHANGED allVars => UNCHANGED <<qV, tV, cV, uV>>
  BY DEF allVars
<1> QED
  BY <1>1, <1>2, <1>3, <1>4, <1>5 DEF ConversationNext

-----------------------------------------------------------------------------
(* UiDelivery.                                                              *)

\* UiDeliveryProofs speaks of the definitions that it extends, MCConversation of
\* those that it instantiates: they are the same.
LEMMA SameDelivery ==
    /\ Dlv!DeliveryAssumption => UP!DeliveryAssumption
    /\ Dlv!Init => UP!Init
    /\ Dlv!Next => UP!Next
    /\ UNCHANGED Dlv!vars => UNCHANGED UP!vars
    /\ UP!LossIsReported /\ UP!SnapshotMeansSession
           => Dlv!LossIsReported /\ Dlv!SnapshotMeansSession
    /\ UP!SnapshotIsNotOutdated /\ UP!FinalStateIsReason
           => Dlv!SnapshotIsNotOutdated /\ Dlv!FinalStateIsReason
BY DEF
    Dlv!DeliveryAssumption, Dlv!supVars, Dlv!clientVars, Dlv!pathVars, Dlv!uiVars,
    Dlv!vars, Dlv!State, Dlv!Event, Dlv!Snap, Dlv!Health, Dlv!Error, Dlv!Nothing,
    Dlv!Init, Dlv!Newest, Dlv!Emit, Dlv!Put, Dlv!ForwarderParked, Dlv!Receive,
    Dlv!Forward, Dlv!Classes, Dlv!StateFor, Dlv!HealthFails, Dlv!HealthOk,
    Dlv!StartConnecting, Dlv!ConnectFails, Dlv!ConnectOk, Dlv!SnapshotArrives,
    Dlv!SendSnapshot, Dlv!SnapshotOk, Dlv!SnapshotFails, Dlv!DeliverSnapshot,
    Dlv!SessionEnds, Dlv!NoticeEnd, Dlv!Retry, Dlv!NextAttempt, Dlv!GiveUp,
    Dlv!Commit, Dlv!ApplyState, Dlv!ApplyTimelineEvent, Dlv!ApplySnapshot,
    Dlv!ApplyHealth, Dlv!ApplyError, Dlv!ApplyEvent, Dlv!RuntimeStep, Dlv!Next,
    Dlv!Drained, Dlv!Room, Dlv!LossIsReported, Dlv!SnapshotMeansSession,
    Dlv!SnapshotIsNotOutdated, Dlv!FinalStateIsReason, UP!SnapshotIsNotOutdated,
    UP!FinalStateIsReason, UP!DeliveryAssumption, UP!supVars, UP!clientVars, UP!pathVars, UP!uiVars,
    UP!vars, UP!State, UP!Event, UP!Snap, UP!Health, UP!Error, UP!Nothing, UP!Init,
    UP!Newest, UP!Emit, UP!Put, UP!ForwarderParked, UP!Receive, UP!Forward,
    UP!Classes, UP!StateFor, UP!HealthFails, UP!HealthOk, UP!StartConnecting,
    UP!ConnectFails, UP!ConnectOk, UP!SnapshotArrives, UP!SendSnapshot,
    UP!SnapshotOk, UP!SnapshotFails, UP!DeliverSnapshot, UP!SessionEnds,
    UP!NoticeEnd, UP!Retry, UP!NextAttempt, UP!GiveUp, UP!Commit, UP!ApplyState,
    UP!ApplyTimelineEvent, UP!ApplySnapshot, UP!ApplyHealth, UP!ApplyError,
    UP!ApplyEvent, UP!RuntimeStep, UP!Next, UP!Drained, UP!Room, UP!LossIsReported,
    UP!SnapshotMeansSession

\* What starts as UiDelivery does goes on as it does.
LEMMA DeliveryOfConversation == ConversationSpec => UP!Spec
<1>1. ConversationInit => UP!Init
  BY SameDelivery DEF ConversationInit
<1>2. [ConversationNext]_allVars => [UP!Next]_(UP!vars)
  BY StepOfEach, SameDelivery
<1> QED
  BY <1>1, <1>2, PTL DEF ConversationSpec, UP!Spec

\* Whatever the channels lose is told to the user, and a snapshot on its way
\* belongs to a session that can be called.
THEOREM ConversationIsHonest == ConversationSpec => []DeliveryIsHonest
<1>1. UP!DeliveryAssumption
  BY ConversationAssumption, SameDelivery DEF ConversationAssumption
<1>2. UP!Spec => [](UP!LossIsReported /\ UP!SnapshotMeansSession)
  BY <1>1, UP!LossIsTold, UP!SnapshotHasSession, PTL
<1>3. UP!LossIsReported /\ UP!SnapshotMeansSession => DeliveryIsHonest
  BY SameDelivery DEF DeliveryIsHonest
<1> QED
  BY <1>2, <1>3, DeliveryOfConversation, PTL

\* However small the channels are and whatever they lose, the views never show
\* the snapshot of an earlier session than their state, and in the end the
\* reason for which there is none.
THEOREM NothingOutdatedIsShown == ConversationSpec => []NothingOutdated
<1>1. UP!DeliveryAssumption
  BY ConversationAssumption, SameDelivery DEF ConversationAssumption
<1>2. UP!Spec => [](UP!SnapshotIsNotOutdated /\ UP!FinalStateIsReason)
  BY <1>1, UP!NoOlderSnapshot, UP!ReasonIsShown, PTL
<1>3. UP!SnapshotIsNotOutdated /\ UP!FinalStateIsReason => NothingOutdated
  BY SameDelivery DEF NothingOutdated
<1> QED
  BY <1>2, <1>3, DeliveryOfConversation, PTL

-----------------------------------------------------------------------------
(* Numbers.                                                                 *)

\* Every set of natural numbers has a least element: what induction rests on.
LEMMA Least ==
    ASSUME NEW T \in SUBSET Nat, T # {}
    PROVE  \E n \in T : \A m \in T : n <= m
<1>1. PICK R : R = OpToRel(<, Nat)
  OBVIOUS
<1>2. \A m, k \in Nat : m < k => <<m, k>> \in R
  BY <1>1 DEF OpToRel
<1>3. IsWellFoundedOn(R, Nat)
  BY <1>1, NatLessThanWellFounded
<1>4. PICK n \in T : \A m \in T : ~(<<m, n>> \in R)
  BY <1>3, WFMin
<1>5. n \in Nat /\ T \subseteq Nat
  OBVIOUS
<1>6. ASSUME NEW m \in T PROVE n <= m
  <2>1. m \in Nat /\ ~(m < n)
    BY <1>2, <1>4, <1>5
  <2> QED
    BY <2>1, <1>5
<1> QED
  BY <1>6

\* Induction over a set of numbers.
LEMMA Induction ==
    ASSUME NEW T \in SUBSET Nat, 0 \in T, \A n \in T : n + 1 \in T
    PROVE  T = Nat
<1> SUFFICES ASSUME Nat \ T # {} PROVE FALSE
  OBVIOUS
<1>1. PICK n \in Nat \ T : \A m \in Nat \ T : n <= m
  BY Least
<1>2. n # 0 /\ n - 1 \in Nat /\ ~(n <= n - 1)
  BY <1>1
<1>3. n - 1 \in T
  BY <1>1, <1>2
<1> QED
  BY <1>1, <1>2, <1>3

LEMMA MaxIs ==
    ASSUME NEW n \in Nat, NEW t \in SUBSET (1..n), t # {}
    PROVE  Max(t) \in t /\ \A x \in t : x <= Max(t)
<1>1. PICK T : T = {n - x : x \in t}
  OBVIOUS
<1>2. T \in SUBSET Nat /\ T # {}
  <2>1. ASSUME NEW x \in t PROVE n - x \in Nat
    <3>1. x \in 1..n
      OBVIOUS
    <3> QED
      BY <3>1
  <2> QED
    BY <1>1, <2>1
<1>3. PICK m \in T : \A k \in T : m <= k
  BY <1>2, Least
<1>4. PICK y \in t : m = n - y
  BY <1>1, <1>3
<1>5. ASSUME NEW x \in t PROVE y >= x
  <2>1. n - x \in T /\ x \in Nat /\ y \in Nat
    BY <1>1
  <2> QED
    BY <1>3, <1>4, <2>1
<1>6. \E z \in t : \A x \in t : z >= x
  BY <1>5
<1>7. \A z \in t, x \in t : z >= x => x <= z
  OBVIOUS
<1> QED
  BY <1>6, <1>7 DEF Max

-----------------------------------------------------------------------------
(* PromptQueue.  A log is the order in which the prompts were queued.       *)

\* Wherever they are in the log, p is before q.
Precedes(log, p, q) ==
    \A m, n \in DOMAIN log : log[m] = p /\ log[n] = q => m < n

Logged(log, s) == \A i \in DOMAIN s : \E n \in DOMAIN log : log[n] = s[i]

InLogOrder(log, s) ==
    \A i, j \in DOMAIN s :
        i < j /\ AgentOf[s[i]] = AgentOf[s[j]] => Precedes(log, s[i], s[j])

\* The queued prompts, the one that is being sent first.
Waiting(f, q) == IF f.kind = "queued" /\ f.prompt # none THEN <<f.prompt>> \o q ELSE q

\* u has prompts of s only, and those of each agent in the order they have in s.
Rearranges(place, s, u) ==
    /\ place \in [DOMAIN u -> DOMAIN s]
    /\ \A i \in DOMAIN u : u[i] = s[place[i]]
    /\ \A i, j \in DOMAIN u :
           i < j /\ AgentOf[u[i]] = AgentOf[u[j]] => place[i] < place[j]

\* What leaves the order within each agent alone may drop prompts, and may let
\* the prompts of different agents overtake each other.
LEMMA KeepsLogOrder ==
    ASSUME NEW log \in Seq(Prompts), NEW s \in Seq(Prompts), NEW u \in Seq(Prompts),
           Logged(log, s), InLogOrder(log, s),
           NEW place, Rearranges(place, s, u)
    PROVE  Logged(log, u) /\ InLogOrder(log, u)
<1> USE DEF Rearranges
<1>1. Logged(log, u)
  BY DEF Logged
<1>2. ASSUME NEW i \in DOMAIN u, NEW j \in DOMAIN u, i < j, AgentOf[u[i]] = AgentOf[u[j]]
      PROVE  Precedes(log, u[i], u[j])
  <2>1. place[i] \in DOMAIN s /\ place[j] \in DOMAIN s /\ place[i] < place[j]
    BY <1>2
  <2> QED
    BY <1>2, <2>1 DEF InLogOrder
<1> QED
  BY <1>1, <1>2 DEF InLogOrder

LEMMA LogsAtTheEnd ==
    ASSUME NEW log \in Seq(Prompts), NEW s \in Seq(Prompts), NEW p \in Prompts,
           Logged(log, s), InLogOrder(log, s), \A n \in DOMAIN log : log[n] # p
    PROVE  Logged(Append(log, p), Append(s, p)) /\ InLogOrder(Append(log, p), Append(s, p))
<1> PICK lp : lp = Append(log, p)
  OBVIOUS
<1> PICK sp : sp = Append(s, p)
  OBVIOUS
<1>1. lp = Append(log, p) /\ sp = Append(s, p)
  OBVIOUS
<1>2. /\ DOMAIN lp = 1..(Len(log) + 1) /\ DOMAIN sp = 1..(Len(s) + 1)
      /\ DOMAIN log = 1..Len(log) /\ DOMAIN s = 1..Len(s)
      /\ Len(log) \in Nat /\ Len(s) \in Nat
  BY <1>1
<1>3. /\ \A n \in DOMAIN log : lp[n] = log[n]
      /\ \A i \in DOMAIN s : sp[i] = s[i]
      /\ lp[Len(log) + 1] = p /\ sp[Len(s) + 1] = p
  BY <1>1
<1>4. \A i \in DOMAIN s : s[i] # p
  BY DEF Logged
<1>5. Logged(lp, sp)
  <2> SUFFICES ASSUME NEW i \in DOMAIN sp PROVE \E n \in DOMAIN lp : lp[n] = sp[i]
    BY DEF Logged
  <2>1. CASE i \in DOMAIN s
    <3>1. PICK n \in DOMAIN log : log[n] = s[i]
      BY <2>1 DEF Logged
    <3>2. n \in DOMAIN lp
      BY <1>2
    <3> QED
      BY <1>3, <2>1, <3>1, <3>2
  <2>2. CASE i = Len(s) + 1
    <3>1. Len(log) + 1 \in DOMAIN lp
      BY <1>2
    <3> QED
      BY <1>3, <2>2, <3>1
  <2> QED
    BY <1>2, <2>1, <2>2
<1>6. ASSUME NEW i \in DOMAIN sp, NEW j \in DOMAIN sp, i < j, AgentOf[sp[i]] = AgentOf[sp[j]]
      PROVE  Precedes(lp, sp[i], sp[j])
  <2> SUFFICES ASSUME NEW m \in DOMAIN lp, NEW n \in DOMAIN lp, lp[m] = sp[i], lp[n] = sp[j]
               PROVE  m < n
    BY DEF Precedes
  <2>1. i \in DOMAIN s /\ sp[i] = s[i]
    BY <1>2, <1>3, <1>6
  <2>2. m \in DOMAIN log /\ lp[m] = log[m]
    <3>1. m # Len(log) + 1
      BY <1>3, <1>4, <1>6, <2>1
    <3>2. m \in DOMAIN log
      BY <1>2, <3>1
    <3> QED
      BY <1>3, <3>2
  <2>3. CASE j \in DOMAIN s
    <3>1. sp[j] = s[j]
      BY <1>3, <2>3
    <3>2. n # Len(log) + 1
      BY <1>3, <1>4, <1>6, <2>3, <3>1
    <3>3. n \in DOMAIN log
      BY <1>2, <3>2
    <3>4. lp[n] = log[n]
      BY <1>3, <3>3
    <3>5. log[m] = s[i] /\ log[n] = s[j] /\ AgentOf[s[i]] = AgentOf[s[j]]
      BY <1>6, <2>1, <2>2, <3>1, <3>4
    <3>6. Precedes(log, s[i], s[j])
      BY <1>6, <2>1, <2>3, <3>5 DEF InLogOrder
    <3> QED
      BY <2>2, <3>3, <3>5, <3>6 DEF Precedes
  <2>4. CASE j = Len(s) + 1
    <3>1. sp[j] = p
      BY <1>3, <2>4
    <3>2. n = Len(log) + 1
      <4>1. n \notin DOMAIN log
        BY <1>3, <1>6, <3>1
      <4> QED
        BY <1>2, <4>1
    <3> QED
      BY <1>2, <2>2, <3>2
  <2> QED
    BY <1>2, <2>3, <2>4
<1>7. InLogOrder(lp, sp)
  BY <1>6 DEF InLogOrder
<1> QED
  BY <1>1, <1>5, <1>7

\* The prompts behind the one that is being sent.
LEMMA QueueIsLogged ==
    ASSUME NEW log \in Seq(Prompts), NEW q \in Seq(Prompts),
           NEW f, f.prompt \in Prompts \cup {none},
           Logged(log, Waiting(f, q)), InLogOrder(log, Waiting(f, q))
    PROVE  Logged(log, q) /\ InLogOrder(log, q)
<1>1. CASE Waiting(f, q) = q
  BY <1>1
<1>2. CASE Waiting(f, q) # q
  <2>1. f.prompt \in Prompts /\ Waiting(f, q) = <<f.prompt>> \o q
    BY <1>2 DEF Waiting
  <2> PICK p : p = f.prompt
    OBVIOUS
  <2> PICK s : s = <<p>> \o q
    OBVIOUS
  <2>2. s \in Seq(Prompts) /\ DOMAIN s = 1..(Len(q) + 1) /\ DOMAIN q = 1..Len(q)
        /\ \A i \in DOMAIN q : i + 1 \in DOMAIN s /\ s[i + 1] = q[i]
    BY <2>1
  <2> PICK place : place = [i \in DOMAIN q |-> i + 1]
    OBVIOUS
  <2>3. place \in [DOMAIN q -> DOMAIN s] /\ \A i \in DOMAIN q : place[i] = i + 1
    BY <2>2
  <2>4. \A i, j \in DOMAIN q : i < j => place[i] < place[j]
    BY <2>2, <2>3
  <2>5. Rearranges(place, s, q)
    BY <2>2, <2>3, <2>4 DEF Rearranges
  <2>6. Logged(log, s) /\ InLogOrder(log, s)
    BY <2>1
  <2> QED
    BY <2>2, <2>5, <2>6, KeepsLogOrder
<1> QED
  BY <1>1, <1>2

\* r is q, of length n, without the k-th element.
Without(r, T, q, k, n) ==
    /\ r \in Seq(T) /\ Len(r) = n - 1 /\ DOMAIN r = 1..(n - 1)
    /\ \A i \in 1..(n - 1) : i < k => r[i] = q[i]
    /\ \A i \in 1..(n - 1) : i >= k => r[i] = q[i + 1]

LEMMA RemoveAtIs ==
    ASSUME NEW T, NEW q \in Seq(T), NEW k \in 1..Len(q)
    PROVE  Without(Que!RemoveAt(q, k), T, q, k, Len(q))
<1> PICK n \in Nat : n = Len(q)
  OBVIOUS
<1>0. k \in 1..n
  OBVIOUS
<1> PICK r : r = Que!RemoveAt(q, k)
  OBVIOUS
<1>a. PICK a : a = SubSeq(q, 1, k - 1)
  OBVIOUS
<1>b. PICK b : b = SubSeq(q, k + 1, n)
  OBVIOUS
<1>1. r = a \o b
  BY <1>a, <1>b DEF Que!RemoveAt
<1>2. /\ a \in Seq(T) /\ Len(a) = k - 1
      /\ \A i \in 1..(k - 1) : a[i] = q[i]
  BY <1>0, <1>a
<1>3. /\ b \in Seq(T) /\ Len(b) = n - k
      /\ \A i \in 1..(n - k) : b[i] = q[i + k]
  BY <1>0, <1>b
<1>4. /\ r \in Seq(T) /\ Len(r) = Len(a) + Len(b)
      /\ \A i \in 1..(Len(a) + Len(b)) :
            r[i] = IF i <= Len(a) THEN a[i] ELSE b[i - Len(a)]
  <2>1. a \in Seq(T) /\ b \in Seq(T)
    BY <1>2, <1>3
  <2> QED
    BY <1>1, <2>1, ConcatProperties
<1>5. Len(a) + Len(b) = n - 1
  <2>1. Len(a) = k - 1 /\ Len(b) = n - k /\ k \in Int
    BY <1>0, <1>2, <1>3
  <2> QED
    BY <2>1
<1>6. ASSUME NEW i \in 1..(n - 1), i < k PROVE r[i] = q[i]
  <2>1. i \in 1..(k - 1) /\ i <= Len(a)
    BY <1>0, <1>2, <1>6
  <2> QED
    BY <1>2, <1>4, <1>5, <2>1
<1>7. ASSUME NEW i \in 1..(n - 1), i >= k PROVE r[i] = q[i + 1]
  <2> PICK j : j = i - (k - 1)
    OBVIOUS
  <2>1. j \in 1..(n - k) /\ j + k = i + 1 /\ ~(i <= k - 1)
    BY <1>0, <1>7
  <2>2. r[i] = b[j]
    BY <1>2, <1>4, <1>5, <2>1
  <2> QED
    BY <1>3, <2>1, <2>2
<1>8. r \in Seq(T) /\ Len(r) = n - 1 /\ DOMAIN r = 1..(n - 1)
  BY <1>4, <1>5
<1> QED
  BY <1>6, <1>7, <1>8 DEF Without

\* The first prompt of its agent may leave the queue.
LEMMA FirstIsSent ==
    ASSUME NEW log \in Seq(Prompts), NEW q \in Seq(Prompts),
           Logged(log, q), InLogOrder(log, q),
           NEW first \in DOMAIN q,
           \A i \in DOMAIN q : AgentOf[q[i]] = AgentOf[q[first]] => first <= i,
           NEW r, r = Que!RemoveAt(q, first)
    PROVE  /\ r \in Seq(Prompts)
           /\ Logged(log, <<q[first]>> \o r) /\ InLogOrder(log, <<q[first]>> \o r)
           /\ \A i \in DOMAIN q \ {first} : \E j \in DOMAIN r : r[j] = q[i]
<1> PICK n \in Nat : n = Len(q)
  OBVIOUS
<1>1. DOMAIN q = 1..n /\ first \in 1..n /\ q[first] \in Prompts
  OBVIOUS
<1>2. /\ r \in Seq(Prompts) /\ Len(r) = n - 1 /\ DOMAIN r = 1..(n - 1)
      /\ \A i \in 1..(n - 1) : i < first => r[i] = q[i]
      /\ \A i \in 1..(n - 1) : i >= first => r[i] = q[i + 1]
  <2>1. Without(r, Prompts, q, first, n)
    BY <1>1, RemoveAtIs
  <2> QED
    BY <2>1 DEF Without
<1>3. ASSUME NEW i \in DOMAIN q \ {first} PROVE \E j \in DOMAIN r : r[j] = q[i]
  <2>1. CASE i < first
    <3>1. i \in DOMAIN r /\ i \in 1..(n - 1)
      BY <1>1, <1>2, <2>1
    <3> QED
      BY <1>2, <2>1, <3>1
  <2>2. CASE i > first
    <3> PICK j : j = i - 1
      OBVIOUS
    <3>1. j \in DOMAIN r /\ j \in 1..(n - 1) /\ j >= first /\ j + 1 = i
      BY <1>1, <1>2, <2>2
    <3> QED
      BY <1>2, <3>1
  <2> QED
    BY <1>1, <2>1, <2>2
<1> PICK p \in Prompts : p = q[first]
  BY <1>1
<1>u. PICK u : u = <<p>> \o r
  OBVIOUS
<1>4. /\ u \in Seq(Prompts) /\ Len(u) = n /\ DOMAIN u = 1..n /\ u[1] = p
      /\ \A i \in 1..(n - 1) : u[i + 1] = r[i]
  <2>1. /\ u \in Seq(Prompts) /\ Len(u) = 1 + Len(r)
        /\ \A i \in 1..(1 + Len(r)) : u[i] = IF i <= 1 THEN p ELSE r[i - 1]
    <3>1. <<p>> \in Seq(Prompts) /\ Len(<<p>>) = 1 /\ <<p>>[1] = p
      OBVIOUS
    <3> QED
      BY <1>u, <1>2, <3>1, ConcatProperties
  <2>2. 1 + Len(r) = n /\ \A i \in 1..(n - 1) : /\ i + 1 \in 1..n /\ ~(i + 1 <= 1)
                                               /\ (i + 1) - 1 = i
    BY <1>2
  <2>3. 1 \in 1..n
    BY <1>1
  <2> QED
    BY <2>1, <2>2, <2>3
<1> PICK place : place = [i \in 1..n |-> IF i = 1 THEN first ELSE IF i <= first THEN i - 1 ELSE i]
  OBVIOUS
<1>5. ASSUME NEW i \in 1..n PROVE place[i] \in 1..n
  BY <1>1
<1>6. ASSUME NEW i \in 1..n PROVE u[i] = q[place[i]]
  <2>1. CASE i = 1
    BY <1>4, <2>1
  <2>2. CASE i # 1
    <3> PICK j : j = i - 1
      OBVIOUS
    <3>1. j \in 1..(n - 1) /\ j + 1 = i /\ (i <= first <=> j < first)
      BY <1>1, <2>2
    <3>2. u[i] = r[j]
      BY <1>4, <3>1
    <3>3. CASE j < first
      BY <1>2, <2>2, <3>1, <3>2, <3>3
    <3>4. CASE ~(j < first)
      <4>1. j >= first
        BY <1>1, <3>1, <3>4
      <4> QED
        BY <1>2, <2>2, <3>1, <3>2, <3>4, <4>1
    <3> QED
      BY <3>3, <3>4
  <2> QED
    BY <2>1, <2>2
<1>7. ASSUME NEW i \in 1..n, NEW j \in 1..n, i < j, AgentOf[u[i]] = AgentOf[u[j]]
      PROVE  place[i] < place[j]
  <2>1. j # 1 /\ place[j] # first
    BY <1>1, <1>7
  <2>2. CASE i = 1
    <3>1. place[i] = first /\ AgentOf[q[place[j]]] = AgentOf[q[first]]
      BY <1>4, <1>6, <1>7, <2>2
    <3>2. place[j] \in DOMAIN q
      BY <1>1, <1>5
    <3>3. first <= place[j] /\ place[j] \in 1..n
      BY <1>1, <3>1, <3>2
    <3> QED
      BY <1>1, <2>1, <3>1, <3>3
  <2>3. CASE i # 1
    BY <1>1, <1>7, <2>1, <2>3
  <2> QED
    BY <2>2, <2>3
<1>8. Rearranges(place, q, u)
  <2>1. place \in [DOMAIN u -> DOMAIN q]
    BY <1>1, <1>4, <1>5
  <2>2. \A i \in DOMAIN u : u[i] = q[place[i]]
    BY <1>4, <1>6
  <2>3. \A i, j \in DOMAIN u :
            i < j /\ AgentOf[u[i]] = AgentOf[u[j]] => place[i] < place[j]
    <3> SUFFICES ASSUME NEW i \in DOMAIN u, NEW j \in DOMAIN u,
                        i < j, AgentOf[u[i]] = AgentOf[u[j]]
                 PROVE  place[i] < place[j]
      OBVIOUS
    <3>1. i \in 1..n /\ j \in 1..n
      BY <1>4
    <3> QED
      BY <1>7, <3>1
  <2> QED
    BY <2>1, <2>2, <2>3, Zenon DEF Rearranges
<1>9. Logged(log, u) /\ InLogOrder(log, u)
  BY <1>4, <1>8, KeepsLogOrder
<1> QED
  BY <1>2, <1>3, <1>9, <1>u

\* What the variables of PromptQueue hold.
QueueTypes ==
    /\ draft \in SUBSET Prompts /\ queue \in Seq(Prompts) /\ order \in Seq(Prompts)
    /\ flight \in [prompt : Prompts \cup {none}, kind : Que!Kinds, id : Nat]
    /\ retry \in [prompt : Prompts \cup {none}, kind : Que!Kinds, id : Nat]
    /\ ids \in Nat /\ accepted \in SUBSET (1..ids) /\ ran \in [Prompts -> Nat]

\* A prompt was queued once, and what waits for its turn is in the log's order.
OrderInv ==
    /\ \A n \in DOMAIN order : order[n] \notin draft
    /\ Logged(order, Waiting(flight, queue))
    /\ InLogOrder(order, Waiting(flight, queue))

\* The request in flight is the remembered one, if any is remembered, under an
\* id that was generated; an id that the daemon knows is that of a prompt it has
\* executed; and what is not in the queue any more is still in the composer
\* while it is being sent.
SentInv ==
    /\ flight.prompt # none /\ retry.prompt # none => retry = flight
    /\ flight.prompt # none => flight.id \in 1..ids
    /\ flight.prompt # none /\ flight.id \in accepted => ran[flight.prompt] > 0
    /\ retry.prompt # none => retry.id \in 1..ids
    /\ retry.prompt # none /\ retry.id \in accepted => ran[retry.prompt] > 0
    /\ flight.prompt # none /\ flight.kind # "queued" => flight.prompt \in draft
    /\ flight.prompt # none /\ reply = "ok" => ran[flight.prompt] > 0

QueueInv == QueueTypes /\ OrderInv /\ SentInv

LEMMA NothingIsInFlight ==
    ASSUME QueueTypes, ~Que!InFlight
    PROVE  /\ flight.prompt = none
           /\ Waiting(flight, queue) = queue
BY DEF Que!InFlight, Waiting

LEMMA NoRequestWaits ==
    /\ \A q : Waiting(Que!NoRequest, q) = q
    /\ Que!NoRequest.prompt = none
    /\ Que!NoRequest \in [prompt : Prompts \cup {none}, kind : Que!Kinds, id : Nat]
    /\ Que!NoRetry.prompt = none
    /\ Que!NoRetry \in [prompt : Prompts \cup {none}, kind : Que!Kinds, id : Nat]
BY DEF Waiting, Que!NoRequest, Que!NoRetry, Que!Kinds

\* A request is sent under an id of its own, or as the same prompt before.
LEMMA SubmitIsSafe ==
    ASSUME Que!PromptsAssumption, QueueTypes, SentInv, NEW p \in Prompts, NEW kind \in Que!Kinds,
           Que!Submit(p, kind)
    PROVE  /\ flight' \in [prompt : Prompts \cup {none}, kind : Que!Kinds, id : Nat]
           /\ flight'.prompt = p /\ flight'.kind = kind /\ retry' = flight' /\ p # none
           /\ ids' \in Nat /\ ids <= ids' /\ flight'.id \in 1..ids'
           /\ reply' = "none"
           /\ flight'.id \in accepted => ran[p] > 0
<1>0. p # none
  BY DEF Que!PromptsAssumption
<1>1. PICK n : n = IF Que!SameSignature(p, kind) THEN retry.id ELSE ids + 1
  OBVIOUS
<1>2. /\ ids' = IF n > ids THEN n ELSE ids
      /\ flight' = [prompt |-> p, kind |-> kind, id |-> n]
      /\ retry' = flight' /\ reply' = "none"
  BY <1>1 DEF Que!Submit
<1>3. CASE Que!SameSignature(p, kind)
  <2>1. n = retry.id /\ retry.prompt = p
    BY <1>1, <1>3 DEF Que!SameSignature
  <2>2. ids \in Nat /\ n \in 1..ids /\ (n \in accepted => ran[p] > 0)
    BY <1>0, <2>1 DEF QueueTypes, SentInv
  <2> QED
    BY <1>0, <1>2, <2>2
<1>4. CASE ~Que!SameSignature(p, kind)
  <2>1. n = ids + 1 /\ ids \in Nat /\ accepted \in SUBSET (1..ids)
    BY <1>1, <1>4 DEF QueueTypes
  <2>2. n \notin accepted
    BY <2>1
  <2> QED
    BY <1>0, <1>2, <2>1, <2>2
<1> QED
  BY <1>3, <1>4

\* A prompt of the composer is sent: directly, or to steer the turn.
LEMMA SendKeeps ==
    ASSUME Que!PromptsAssumption, QueueInv, NEW p \in Prompts,
           Que!SendDirectly(p) \/ Que!Steer(p)
    PROVE  QueueInv' /\ \A any \in Prompts : Que!Kept(any) => Que!Kept(any)'
<1>1. PICK kind \in {"direct", "steer"} : Que!Submit(p, kind)
  BY DEF Que!SendDirectly, Que!Steer
<1>2. p \in draft /\ ~Que!InFlight
  BY DEF Que!SendDirectly, Que!Steer, Que!CanSend
<1>3. UNCHANGED <<draft, queue, order, cleared, accepted, ran>>
  BY DEF Que!SendDirectly, Que!Steer, Que!daemonVars, Que!ghosts
<1>4. QueueTypes /\ OrderInv /\ SentInv
  BY DEF QueueInv
<1>5. kind \in Que!Kinds /\ kind # "queued"
  BY <1>1 DEF Que!Kinds
<1>6. /\ flight' \in [prompt : Prompts \cup {none}, kind : Que!Kinds, id : Nat]
      /\ flight'.prompt = p /\ flight'.kind = kind /\ retry' = flight' /\ p # none
      /\ ids' \in Nat /\ ids <= ids' /\ flight'.id \in 1..ids'
      /\ reply' = "none"
      /\ flight'.id \in accepted => ran[p] > 0
  BY <1>1, <1>4, <1>5, SubmitIsSafe
<1>7. QueueTypes'
  <2>1. accepted \in SUBSET (1..ids')
    BY <1>4, <1>6 DEF QueueTypes
  <2> QED
    BY <1>3, <1>4, <1>6, <2>1 DEF QueueTypes
<1>8. OrderInv'
  <2>1. Waiting(flight', queue') = Waiting(flight, queue)
    BY <1>2, <1>3, <1>4, <1>5, <1>6, NothingIsInFlight DEF Waiting
  <2> QED
    BY <1>3, <1>4, <2>1 DEF OrderInv
<1>9. SentInv'
  BY <1>2, <1>3, <1>5, <1>6 DEF SentInv
<1>10. ASSUME NEW any \in Prompts, Que!Kept(any) PROVE Que!Kept(any)'
  <2>1. flight.prompt # any
    BY <1>2, <1>4, NothingIsInFlight DEF Que!PromptsAssumption
  <2> QED
    BY <1>3, <1>10, <2>1 DEF Que!Kept
<1> QED
  BY <1>7, <1>8, <1>9, <1>10 DEF QueueInv

LEMMA EnqueueKeeps ==
    ASSUME Que!PromptsAssumption, QueueInv, NEW p \in Prompts, Que!Enqueue(p)
    PROVE  QueueInv' /\ \A any \in Prompts : Que!Kept(any) => Que!Kept(any)'
<1>1. /\ p \in draft /\ ~Que!InFlight
      /\ queue' = Append(queue, p) /\ draft' = draft \ {p} /\ order' = Append(order, p)
      /\ UNCHANGED <<flight, retry, ids, reply, accepted, ran, cleared>>
  BY DEF Que!Enqueue, Que!CanSend, Que!daemonVars
<1>2. QueueTypes /\ OrderInv /\ SentInv
  BY DEF QueueInv
<1>3. queue \in Seq(Prompts) /\ order \in Seq(Prompts) /\ draft \in SUBSET Prompts
  BY <1>2 DEF QueueTypes
<1>4. QueueTypes'
  <2>1. queue' \in Seq(Prompts) /\ order' \in Seq(Prompts) /\ draft' \in SUBSET Prompts
    BY <1>1, <1>3
  <2> QED
    BY <1>1, <1>2, <2>1 DEF QueueTypes
<1>5. flight.prompt = none /\ Waiting(flight, queue) = queue /\ Waiting(flight', queue') = queue'
  BY <1>1, <1>2, NothingIsInFlight DEF Waiting
<1>6. OrderInv'
  <2>1. \A n \in DOMAIN order : order[n] \notin draft /\ order[n] # p
    BY <1>1, <1>2 DEF OrderInv
  <2>2. Logged(order', queue') /\ InLogOrder(order', queue')
    <3>1. Logged(order, queue) /\ InLogOrder(order, queue)
      BY <1>2, <1>5 DEF OrderInv
    <3> QED
      BY <1>1, <1>3, <2>1, <3>1, LogsAtTheEnd
  <2>3. \A n \in DOMAIN order' : order'[n] \notin draft'
    <3>1. order' = Append(order, p) /\ draft' = draft \ {p}
      BY <1>1
    <3>2. \A n \in DOMAIN order' : order'[n] = p \/ (n \in DOMAIN order /\ order'[n] = order[n])
      BY <1>3, <3>1
    <3> QED
      BY <2>1, <3>1, <3>2
  <2> QED
    BY <1>5, <2>2, <2>3 DEF OrderInv
<1>7. SentInv'
  BY <1>1, <1>2, <1>5 DEF SentInv
<1>8. ASSUME NEW any \in Prompts, Que!Kept(any) PROVE Que!Kept(any)'
  <2>1. \A q \in Prompts : q = p \/ q \in Que!ToSet(queue) => q \in Que!ToSet(queue')
    <3>1. /\ DOMAIN queue \subseteq DOMAIN queue'
          /\ \A i \in DOMAIN queue : queue'[i] = queue[i]
          /\ \E i \in DOMAIN queue' : queue'[i] = p
      <4>1. /\ DOMAIN queue = 1..Len(queue) /\ DOMAIN queue' = 1..(Len(queue) + 1)
            /\ Len(queue) \in Nat /\ queue'[Len(queue) + 1] = p
            /\ \A i \in DOMAIN queue : queue'[i] = queue[i]
        BY <1>1, <1>3
      <4> QED
        BY <4>1
    <3> QED
      BY <3>1 DEF Que!ToSet
  <2> QED
    BY <1>1, <1>8, <2>1 DEF Que!Kept
<1> QED
  BY <1>4, <1>6, <1>7, <1>8 DEF QueueInv

LEMMA ClearQueueKeeps ==
    ASSUME Que!PromptsAssumption, QueueInv, NEW a \in Agents, Que!ClearQueue(a)
    PROVE  QueueInv' /\ \A any \in Prompts : Que!Kept(any) => Que!Kept(any)'
<1>1. PICK kept : kept = {i \in DOMAIN queue : AgentOf[queue[i]] # a}
  OBVIOUS
<1>n. PICK n \in 0..Len(queue) : \E place \in [1..n -> kept] :
          /\ Range(place) = kept
          /\ \A i, j \in 1..n : i < j => place[i] < place[j]
          /\ queue' = [i \in 1..n |-> queue[place[i]]]
  BY <1>1 DEF Que!ClearQueue, Que!Range, Range
<1>2. PICK place \in [1..n -> kept] :
          /\ Range(place) = kept
          /\ \A i, j \in 1..n : i < j => place[i] < place[j]
          /\ queue' = [i \in 1..n |-> queue[place[i]]]
  BY <1>n
<1>3. /\ cleared' = cleared \cup {queue[i] : i \in DOMAIN queue \ kept}
      /\ UNCHANGED <<draft, flight, retry, ids, reply, order, accepted, ran>>
  BY <1>1 DEF Que!ClearQueue, Que!daemonVars
<1>4. QueueTypes /\ OrderInv /\ SentInv
  BY DEF QueueInv
<1>5. queue \in Seq(Prompts) /\ DOMAIN queue = 1..Len(queue) /\ Len(queue) \in Nat /\ n \in Nat
      /\ order \in Seq(Prompts) /\ kept \subseteq DOMAIN queue
  BY <1>1, <1>4 DEF QueueTypes
<1>6. \A i \in 1..n : place[i] \in kept /\ queue[place[i]] \in Prompts
  BY <1>5
<1>7. queue' \in Seq(Prompts) /\ DOMAIN queue' = 1..n
      /\ \A i \in 1..n : queue'[i] = queue[place[i]]
  <2>1. queue' \in [1..n -> Prompts]
    BY <1>2, <1>6
  <2> QED
    BY <1>2, <1>5, <2>1
<1>8. QueueTypes'
  BY <1>3, <1>4, <1>7 DEF QueueTypes
<1>9. OrderInv'
  <2>1. Rearranges(place, queue, queue')
    <3>1. place \in [DOMAIN queue' -> DOMAIN queue]
      BY <1>5, <1>7
    <3>2. \A i, j \in DOMAIN queue' : i < j => place[i] < place[j]
      BY <1>2, <1>7
    <3> QED
      BY <1>7, <3>1, <3>2 DEF Rearranges
  <2>2. flight \in [prompt : Prompts \cup {none}, kind : Que!Kinds, id : Nat]
    BY <1>4 DEF QueueTypes
  <2>3. CASE Waiting(flight, queue) = queue
    <3>1. Waiting(flight', queue') = queue'
      <4>1. ~(flight.kind = "queued" /\ flight.prompt # none)
        <5>1. SUFFICES ASSUME flight.prompt \in Prompts, <<flight.prompt>> \o queue = queue
                       PROVE  FALSE
          BY <2>2, <2>3 DEF Waiting
        <5>2. Len(<<flight.prompt>> \o queue) = 1 + Len(queue)
          BY <1>5, <5>1
        <5> QED
          BY <1>5, <5>1, <5>2
      <4> QED
        BY <1>3, <4>1 DEF Waiting
    <3>2. Logged(order, queue') /\ InLogOrder(order, queue')
      BY <1>4, <1>5, <1>7, <2>1, <2>3, KeepsLogOrder DEF OrderInv
    <3> QED
      BY <1>3, <1>4, <3>1, <3>2 DEF OrderInv
  <2>4. CASE Waiting(flight, queue) # queue
    <3>1. /\ flight.prompt \in Prompts
          /\ Waiting(flight, queue) = <<flight.prompt>> \o queue
          /\ Waiting(flight', queue') = <<flight.prompt>> \o queue'
      BY <1>3, <2>2, <2>4 DEF Waiting
    <3>2. PICK p \in Prompts : p = flight.prompt
      BY <3>1
    <3>3. PICK s : s = <<p>> \o queue
      OBVIOUS
    <3>4. PICK u : u = <<p>> \o queue'
      OBVIOUS
    <3>5. /\ s \in Seq(Prompts) /\ DOMAIN s = 1..(Len(queue) + 1)
          /\ s[1] = p /\ \A i \in DOMAIN queue : s[i + 1] = queue[i]
      BY <1>5, <3>3
    <3>6. /\ u \in Seq(Prompts) /\ DOMAIN u = 1..(n + 1)
          /\ u[1] = p /\ \A i \in 1..n : u[i + 1] = queue'[i]
      <4>1. Len(queue') = n
        BY <1>5, <1>7
      <4> QED
        BY <1>7, <3>4, <4>1
    <3>7. PICK first : first = [i \in 1..(n + 1) |-> IF i = 1 THEN 1 ELSE place[i - 1] + 1]
      OBVIOUS
    <3>8. /\ first[1] = 1
          /\ \A i \in 1..n : first[i + 1] = place[i] + 1
      <4>1. 1 \in 1..(n + 1) /\ \A i \in 1..n : i + 1 \in 1..(n + 1) /\ i + 1 # 1 /\ (i + 1) - 1 = i
        BY <1>5
      <4> QED
        BY <3>7, <4>1
    <3>9. \A i \in 1..n : place[i] \in 1..Len(queue)
      BY <1>5
    <3>10. Rearranges(first, s, u)
      <4>1. ASSUME NEW i \in DOMAIN u
            PROVE  first[i] \in DOMAIN s /\ u[i] = s[first[i]]
        <5>1. CASE i = 1
          BY <1>5, <3>5, <3>6, <3>8, <5>1
        <5>2. CASE i # 1
          <6>1. PICK j \in 1..n : i = j + 1
            <7>1. i \in 1..(n + 1) /\ i - 1 \in 1..n /\ i = (i - 1) + 1
              BY <1>5, <3>6, <5>2
            <7> QED
              BY <7>1
          <6>2. first[i] = place[j] + 1 /\ u[i] = queue[place[j]] /\ place[j] \in DOMAIN queue
            BY <1>5, <1>7, <3>6, <3>8, <6>1
          <6>3. s[place[j] + 1] = queue[place[j]] /\ place[j] + 1 \in DOMAIN s
            BY <1>5, <3>5, <6>2
          <6> QED
            BY <6>2, <6>3
        <5> QED
          BY <5>1, <5>2
      <4>2. ASSUME NEW i \in DOMAIN u, NEW j \in DOMAIN u, i < j
            PROVE  first[i] < first[j]
        <5>1. PICK jj \in 1..n : j = jj + 1
          <6>1. j \in 1..(n + 1) /\ j - 1 \in 1..n /\ j = (j - 1) + 1
            BY <1>5, <3>6, <4>2
          <6> QED
            BY <6>1
        <5>2. first[j] = place[jj] + 1 /\ place[jj] \in Nat /\ place[jj] >= 1
          <6>1. first[jj + 1] = place[jj] + 1 /\ place[jj] \in 1..Len(queue)
            BY <3>8, <3>9
          <6> QED
            BY <1>5, <5>1, <6>1
        <5>3. CASE i = 1
          BY <3>8, <5>2, <5>3
        <5>4. CASE i # 1
          <6>1. PICK ii \in 1..n : i = ii + 1
            <7>1. i \in 1..(n + 1) /\ i - 1 \in 1..n /\ i = (i - 1) + 1
              BY <1>5, <3>6, <5>4
            <7> QED
              BY <7>1
          <6>2. first[i] = place[ii] + 1 /\ place[ii] \in Nat
            <7>1. first[ii + 1] = place[ii] + 1 /\ place[ii] \in 1..Len(queue)
              BY <3>8, <3>9
            <7> QED
              BY <1>5, <6>1, <7>1
          <6>3. place[ii] < place[jj]
            BY <1>2, <4>2, <5>1, <6>1
          <6> QED
            BY <5>2, <6>2, <6>3
        <5> QED
          BY <5>3, <5>4
      <4>3. DOMAIN first = DOMAIN u
        BY <3>6, <3>7
      <4>4. first \in [DOMAIN u -> DOMAIN s]
        BY <3>6, <3>7, <4>1, <4>3
      <4> QED
        BY <4>1, <4>2, <4>4 DEF Rearranges
    <3>11. Logged(order, s) /\ InLogOrder(order, s)
      BY <1>4, <3>1, <3>2, <3>3 DEF OrderInv
    <3>12. Logged(order, u) /\ InLogOrder(order, u)
      BY <1>5, <3>5, <3>6, <3>10, <3>11, KeepsLogOrder
    <3> QED
      BY <1>3, <1>4, <3>1, <3>2, <3>4, <3>12 DEF OrderInv
  <2> QED
    BY <2>3, <2>4
<1>10. SentInv'
  BY <1>3, <1>4 DEF SentInv
<1>11. ASSUME NEW any \in Prompts, Que!Kept(any) PROVE Que!Kept(any)'
  <2>1. ASSUME NEW i \in DOMAIN queue, queue[i] = any PROVE Que!Kept(any)'
    <3>1. CASE i \in kept
      <4>1. PICK j \in 1..n : place[j] = i
        BY <1>2, <3>1 DEF Range
      <4>2. any \in Que!ToSet(queue')
        BY <1>7, <2>1, <4>1 DEF Que!ToSet
      <4> QED
        BY <4>2 DEF Que!Kept
    <3>2. CASE i \notin kept
      BY <1>3, <2>1, <3>2 DEF Que!Kept
    <3> QED
      BY <3>1, <3>2
  <2>2. CASE any \notin Que!ToSet(queue)
    BY <1>3, <1>11, <2>2 DEF Que!Kept
  <2> QED
    BY <2>1, <2>2 DEF Que!ToSet
<1> QED
  BY <1>8, <1>9, <1>10, <1>11 DEF QueueInv

\* What is behind the request stays in order when the request is settled.
LEMMA SettledQueueIsLogged ==
    ASSUME QueueTypes, OrderInv
    PROVE  Logged(order, queue) /\ InLogOrder(order, queue)
<1>1. order \in Seq(Prompts) /\ queue \in Seq(Prompts) /\ flight.prompt \in Prompts \cup {none}
  BY DEF QueueTypes
<1>2. Logged(order, Waiting(flight, queue)) /\ InLogOrder(order, Waiting(flight, queue))
  BY DEF OrderInv
<1> QED
  BY <1>1, <1>2, QueueIsLogged

LEMMA AcceptedKeeps ==
    ASSUME Que!PromptsAssumption, QueueInv, Que!Accepted
    PROVE  QueueInv' /\ \A any \in Prompts : Que!Kept(any) => Que!Kept(any)'
<1>1. /\ flight.prompt # none /\ reply = "ok"
      /\ draft' = draft \ {flight.prompt}
      /\ retry' = Que!NoRetry /\ flight' = Que!NoRequest
      /\ UNCHANGED <<queue, order, cleared, ids, accepted, ran>>
  BY DEF Que!Accepted, Que!InFlight, Que!Settle, Que!daemonVars, Que!ghosts
<1>2. QueueTypes /\ OrderInv /\ SentInv
  BY DEF QueueInv
<1>3. QueueTypes'
  <2>1. draft' \in SUBSET Prompts
    BY <1>1, <1>2 DEF QueueTypes
  <2> QED
    BY <1>1, <1>2, <2>1, NoRequestWaits DEF QueueTypes
<1>4. OrderInv'
  <2>1. Logged(order, queue) /\ InLogOrder(order, queue)
    BY <1>2, SettledQueueIsLogged
  <2>2. Waiting(flight', queue') = queue
    BY <1>1, NoRequestWaits
  <2>3. \A n \in DOMAIN order : order[n] \notin draft'
    BY <1>1, <1>2 DEF OrderInv
  <2> QED
    BY <1>1, <2>1, <2>2, <2>3 DEF OrderInv
<1>5. SentInv'
  BY <1>1, NoRequestWaits DEF SentInv
<1>6. ASSUME NEW any \in Prompts, Que!Kept(any) PROVE Que!Kept(any)'
  <2>1. CASE any = flight.prompt
    BY <1>1, <1>2, <2>1 DEF SentInv, Que!Kept
  <2>2. CASE any # flight.prompt
    BY <1>1, <1>6, <2>2 DEF Que!Kept
  <2> QED
    BY <2>1, <2>2
<1> QED
  BY <1>3, <1>4, <1>5, <1>6 DEF QueueInv

\* An error or a timeout: the prompt is where it was before.
LEMMA FailKeeps ==
    ASSUME Que!PromptsAssumption, QueueInv, Que!Fail
    PROVE  QueueInv' /\ \A any \in Prompts : Que!Kept(any) => Que!Kept(any)'
<1>1. /\ flight.prompt # none
      /\ queue' = IF flight.kind = "queued" THEN <<flight.prompt>> \o queue ELSE queue
      /\ flight' = Que!NoRequest
      /\ UNCHANGED <<draft, retry, ids, order, cleared, accepted, ran>>
  BY DEF Que!Fail, Que!InFlight, Que!Requeue, Que!Settle, Que!daemonVars, Que!ghosts
<1>2. QueueTypes /\ OrderInv /\ SentInv
  BY DEF QueueInv
<1>3. queue' = Waiting(flight, queue)
  BY <1>1 DEF Waiting
<1>4. QueueTypes'
  <2>1. queue \in Seq(Prompts) /\ flight.prompt \in Prompts
    BY <1>1, <1>2 DEF QueueTypes
  <2>2. queue' \in Seq(Prompts)
    BY <1>1, <2>1
  <2> QED
    BY <1>1, <1>2, <2>2, NoRequestWaits DEF QueueTypes
<1>5. OrderInv'
  <2>1. Waiting(flight', queue') = Waiting(flight, queue)
    BY <1>1, <1>3, NoRequestWaits
  <2> QED
    BY <1>1, <1>2, <2>1 DEF OrderInv
<1>6. SentInv'
  <2>1. retry.prompt # none => retry.id \in 1..ids /\ (retry.id \in accepted => ran[retry.prompt] > 0)
    BY <1>2 DEF SentInv
  <2> QED
    BY <1>1, <2>1, NoRequestWaits DEF SentInv
<1>7. ASSUME NEW any \in Prompts, Que!Kept(any) PROVE Que!Kept(any)'
  <2>1. queue \in Seq(Prompts) /\ flight.prompt \in Prompts
    BY <1>1, <1>2 DEF QueueTypes
  <2>2. CASE flight.kind = "queued"
    <3>1. queue' = <<flight.prompt>> \o queue
      BY <1>1, <2>2
    <3>2. /\ DOMAIN queue' = 1..(Len(queue) + 1) /\ Len(queue) \in Nat /\ DOMAIN queue = 1..Len(queue)
          /\ queue'[1] = flight.prompt /\ \A i \in DOMAIN queue : queue'[i + 1] = queue[i]
      BY <2>1, <3>1
    <3>3. any = flight.prompt \/ any \in Que!ToSet(queue) => any \in Que!ToSet(queue')
      <4>1. 1 \in DOMAIN queue' /\ \A i \in DOMAIN queue : i + 1 \in DOMAIN queue'
        BY <3>2
      <4> QED
        BY <3>2, <4>1 DEF Que!ToSet
    <3> QED
      BY <1>1, <1>7, <3>3 DEF Que!Kept
  <2>3. CASE flight.kind # "queued"
    <3>1. queue' = queue /\ flight.prompt \in draft
      BY <1>1, <1>2, <2>3 DEF SentInv
    <3> QED
      BY <1>1, <1>7, <3>1 DEF Que!Kept
  <2> QED
    BY <2>2, <2>3
<1> QED
  BY <1>4, <1>5, <1>6, <1>7 DEF QueueInv

\* A completed turn sends the first prompt of its agent.
LEMMA ApplyEventKeeps ==
    ASSUME Que!PromptsAssumption, QueueInv, NEW a \in Agents, Que!ApplyEvent(a)
    PROVE  QueueInv' /\ \A any \in Prompts : Que!Kept(any) => Que!Kept(any)'
<1>1. UNCHANGED <<draft, order, cleared, accepted, ran>>
  BY DEF Que!ApplyEvent, Que!daemonVars, Que!ghosts
<1>2. QueueTypes /\ OrderInv /\ SentInv
  BY DEF QueueInv
<1>3. CASE UNCHANGED <<queue, flight, retry, ids, reply>>
  <2>1. QueueInv'
    BY <1>1, <1>2, <1>3 DEF QueueInv, QueueTypes, OrderInv, SentInv
  <2>2. \A any \in Prompts : Que!Kept(any) => Que!Kept(any)'
    BY <1>1, <1>3 DEF Que!Kept
  <2> QED
    BY <2>1, <2>2
<1>f. CASE Que!ForgetSteer(a) /\ UNCHANGED <<queue, flight, ids, reply>>
  <2>1. /\ retry' = retry \/ retry' = Que!NoRetry
        /\ Que!NoRetry.prompt = none
        /\ Que!NoRetry \in [prompt : Prompts \cup {none}, kind : Que!Kinds, id : Nat]
    BY <1>f, NoRequestWaits DEF Que!ForgetSteer
  <2>2. QueueTypes'
    BY <1>1, <1>2, <1>f, <2>1 DEF QueueTypes
  <2>3. OrderInv'
    BY <1>1, <1>2, <1>f DEF OrderInv
  <2>4. SentInv'
    <3>1. CASE retry' = retry
      BY <1>1, <1>2, <1>f, <3>1 DEF SentInv
    <3>2. CASE retry' = Que!NoRetry
      BY <1>1, <1>2, <1>f, <2>1, <3>2 DEF SentInv
    <3> QED
      BY <2>1, <3>1, <3>2
  <2>5. \A any \in Prompts : Que!Kept(any) => Que!Kept(any)'
    BY <1>1, <1>f DEF Que!Kept
  <2> QED
    BY <2>2, <2>3, <2>4, <2>5 DEF QueueInv
<1>4. CASE ~(Que!ForgetSteer(a) /\ UNCHANGED <<queue, flight, ids, reply>>)
          /\ ~UNCHANGED <<queue, flight, retry, ids, reply>>
  <2>1. PICK mine : mine = {i \in DOMAIN queue : AgentOf[queue[i]] = a}
    OBVIOUS
  <2>2. PICK first : first = CHOOSE i \in mine : \A j \in mine : i <= j
    OBVIOUS
  <2>3. /\ ~Que!InFlight /\ mine # {}
        /\ queue' = Que!RemoveAt(queue, first)
        /\ Que!Submit(queue[first], "queued")
    BY <1>4, <2>1, <2>2 DEF Que!ApplyEvent, Que!StartNext
  <2>4. queue \in Seq(Prompts) /\ order \in Seq(Prompts)
    BY <1>2 DEF QueueTypes
  <2>5. first \in mine /\ \A j \in mine : first <= j
    <3>1. mine \in SUBSET Nat
      BY <2>1, <2>4
    <3>2. \E i \in mine : \A j \in mine : i <= j
      BY <2>3, <3>1, Least
    <3> QED
      BY <2>2, <3>2
  <2>6. /\ first \in DOMAIN queue /\ queue[first] \in Prompts
        /\ \A i \in DOMAIN queue : AgentOf[queue[i]] = AgentOf[queue[first]] => first <= i
    BY <2>1, <2>4, <2>5
  <2>7. flight.prompt = none /\ Waiting(flight, queue) = queue
    BY <1>2, <2>3, NothingIsInFlight
  <2>8. /\ queue' \in Seq(Prompts)
        /\ Logged(order, <<queue[first]>> \o queue')
        /\ InLogOrder(order, <<queue[first]>> \o queue')
        /\ \A i \in DOMAIN queue \ {first} : \E j \in DOMAIN queue' : queue'[j] = queue[i]
    <3>1. Logged(order, queue) /\ InLogOrder(order, queue)
      BY <1>2, <2>7 DEF OrderInv
    <3> QED
      BY <2>3, <2>4, <2>6, <3>1, FirstIsSent
  <2>9. PICK p \in Prompts : p = queue[first]
    BY <2>6
  <2>10. /\ flight' \in [prompt : Prompts \cup {none}, kind : Que!Kinds, id : Nat]
         /\ flight'.prompt = p /\ flight'.kind = "queued" /\ retry' = flight' /\ p # none
         /\ ids' \in Nat /\ ids <= ids' /\ flight'.id \in 1..ids'
         /\ reply' = "none"
         /\ flight'.id \in accepted => ran[p] > 0
    <3>1. "queued" \in Que!Kinds /\ Que!Submit(p, "queued")
      BY <2>3, <2>9 DEF Que!Kinds
    <3> QED
      BY <1>2, <3>1, SubmitIsSafe
  <2>11. QueueTypes'
    <3>1. accepted \in SUBSET (1..ids')
      BY <1>2, <2>10 DEF QueueTypes
    <3> QED
      BY <1>1, <1>2, <2>8, <2>10, <3>1 DEF QueueTypes
  <2>12. OrderInv'
    <3>1. Waiting(flight', queue') = <<p>> \o queue'
      BY <2>10 DEF Waiting
    <3> QED
      BY <1>1, <1>2, <2>8, <2>9, <3>1 DEF OrderInv
  <2>13. SentInv'
    BY <1>1, <2>10 DEF SentInv
  <2>14. ASSUME NEW any \in Prompts, Que!Kept(any) PROVE Que!Kept(any)'
    <3>1. CASE any = p
      BY <2>10, <3>1 DEF Que!Kept
    <3>2. CASE any # p
      <4>1. any \in Que!ToSet(queue) => any \in Que!ToSet(queue')
        BY <2>8, <2>9, <3>2 DEF Que!ToSet
      <4>2. any # none
        BY DEF Que!PromptsAssumption
      <4> QED
        BY <1>1, <2>7, <2>14, <4>1, <4>2 DEF Que!Kept
    <3> QED
      BY <3>1, <3>2
  <2> QED
    BY <2>11, <2>12, <2>13, <2>14 DEF QueueInv
<1> QED
  BY <1>3, <1>f, <1>4

\* What leaves the prompts, the request and what was executed alone.
LEMMA OthersKeep ==
    ASSUME QueueInv,
           UNCHANGED <<draft, queue, flight, retry, ids, order, accepted, ran, cleared, reply>>
    PROVE  QueueInv' /\ \A any \in Prompts : Que!Kept(any) => Que!Kept(any)'
<1>1. QueueInv'
  BY DEF QueueInv, QueueTypes, OrderInv, SentInv
<1>2. \A any \in Prompts : Que!Kept(any) => Que!Kept(any)'
  BY DEF Que!Kept
<1> QED
  BY <1>1, <1>2

\* The daemon executes what it has not executed before, and says so.
LEMMA ReceiveKeeps ==
    ASSUME Que!PromptsAssumption, QueueInv, Que!Receive
    PROVE  QueueInv' /\ \A any \in Prompts : Que!Kept(any) => Que!Kept(any)'
<1>1. flight.prompt # none /\ UNCHANGED <<draft, queue, flight, retry, ids, order, cleared>>
  BY DEF Que!Receive, Que!InFlight, Que!viewVars, Que!ghosts
<1>2. QueueTypes /\ OrderInv /\ SentInv
  BY DEF QueueInv
<1>3. OrderInv'
  BY <1>1, <1>2 DEF OrderInv
<1>4. CASE flight.id \in accepted
  <2>1. UNCHANGED <<accepted, ran>>
    BY <1>4 DEF Que!Receive
  <2>2. QueueTypes'
    BY <1>1, <1>2, <2>1 DEF QueueTypes
  <2>3. ran[flight.prompt] > 0
    BY <1>1, <1>2, <1>4 DEF SentInv
  <2>4. SentInv'
    BY <1>1, <1>2, <2>1, <2>3 DEF SentInv
  <2>5. \A any \in Prompts : Que!Kept(any) => Que!Kept(any)'
    BY <1>1, <2>1 DEF Que!Kept
  <2> QED
    BY <1>3, <2>2, <2>4, <2>5 DEF QueueInv
<1>5. CASE flight.id \notin accepted /\ running[AgentOf[flight.prompt]] # (flight.kind = "steer")
  <2>1. UNCHANGED <<accepted, ran>> /\ reply' = "error"
    BY <1>5 DEF Que!Receive
  <2>2. QueueTypes'
    BY <1>1, <1>2, <2>1 DEF QueueTypes
  <2>3. SentInv'
    BY <1>1, <1>2, <2>1 DEF SentInv
  <2>4. \A any \in Prompts : Que!Kept(any) => Que!Kept(any)'
    BY <1>1, <2>1 DEF Que!Kept
  <2> QED
    BY <1>3, <2>2, <2>3, <2>4 DEF QueueInv
<1>6. CASE flight.id \notin accepted /\ ~(running[AgentOf[flight.prompt]] # (flight.kind = "steer"))
  <2>1. /\ accepted' = accepted \cup {flight.id}
        /\ ran' = [ran EXCEPT ![flight.prompt] = @ + 1]
    BY <1>6 DEF Que!Receive
  <2>2. /\ flight.prompt \in Prompts /\ flight.id \in 1..ids
        /\ retry.prompt # none => retry = flight
    BY <1>1, <1>2 DEF QueueTypes, SentInv
  <2>3. /\ ran \in [Prompts -> Nat] /\ ran' \in [Prompts -> Nat] /\ ran'[flight.prompt] > 0
        /\ \A p \in Prompts : ran[p] > 0 => ran'[p] > 0
    <3>1. ran \in [Prompts -> Nat]
      BY <1>2 DEF QueueTypes
    <3>2. \A p \in Prompts : ran'[p] = IF p = flight.prompt THEN ran[p] + 1 ELSE ran[p]
      BY <2>1, <2>2, <3>1
    <3>3. \A p \in Prompts : ran[p] \in Nat /\ ran'[p] \in Nat
      BY <3>1, <3>2
    <3> QED
      BY <2>1, <2>2, <3>1, <3>2, <3>3
  <2>4. QueueTypes'
    <3>1. accepted' \in SUBSET (1..ids)
      BY <1>2, <2>1, <2>2 DEF QueueTypes
    <3> QED
      BY <1>1, <1>2, <2>3, <3>1 DEF QueueTypes
  <2>5. SentInv'
    BY <1>1, <1>2, <2>2, <2>3 DEF SentInv
  <2>6. \A any \in Prompts : Que!Kept(any) => Que!Kept(any)'
    BY <1>1, <2>3 DEF Que!Kept
  <2> QED
    BY <1>3, <2>4, <2>5, <2>6 DEF QueueInv
<1> QED
  BY <1>4, <1>5, <1>6

\* A disconnection forgets the request: what only the request held is gone.
LEMMA DisconnectLoses ==
    ASSUME Que!PromptsAssumption, QueueInv, Que!Disconnect
    PROVE  /\ QueueInv' /\ online /\ ~online'
           /\ \A any \in Prompts :
                 Que!Kept(any) =>
                     Que!Kept(any)' \/ (flight.prompt = any /\ flight.kind = "queued")
<1>1. /\ flight' = Que!NoRequest /\ reply' = "none" /\ online /\ ~online'
      /\ UNCHANGED <<draft, queue, retry, ids, order, cleared, accepted, ran>>
  BY DEF Que!Disconnect, Que!Settle, Que!daemonVars, Que!ghosts
<1>2. QueueTypes /\ OrderInv /\ SentInv
  BY DEF QueueInv
<1>3. QueueTypes'
  BY <1>1, <1>2, NoRequestWaits DEF QueueTypes
<1>4. OrderInv'
  <2>1. Logged(order, queue) /\ InLogOrder(order, queue)
    BY <1>2, SettledQueueIsLogged
  <2>2. Waiting(flight', queue') = queue
    BY <1>1, NoRequestWaits
  <2> QED
    BY <1>1, <1>2, <2>1, <2>2 DEF OrderInv
<1>5. SentInv'
  <2>1. retry.prompt # none => retry.id \in 1..ids /\ (retry.id \in accepted => ran[retry.prompt] > 0)
    BY <1>2 DEF SentInv
  <2> QED
    BY <1>1, <2>1, NoRequestWaits DEF SentInv
<1>6. ASSUME NEW any \in Prompts, Que!Kept(any), ~(flight.prompt = any /\ flight.kind = "queued")
      PROVE  Que!Kept(any)'
  <2>1. flight.prompt = any => any \in draft
    BY <1>2, <1>6 DEF SentInv, Que!PromptsAssumption
  <2> QED
    BY <1>1, <1>6, <2>1 DEF Que!Kept
<1> QED
  BY <1>1, <1>3, <1>4, <1>5, <1>6 DEF QueueInv

LEMMA QueueStep ==
    ASSUME Que!PromptsAssumption, QueueInv, [Que!Next]_(Que!vars)
    PROVE  /\ QueueInv'
           /\ \A any \in Prompts :
                 Que!Kept(any) =>
                     \/ Que!Kept(any)'
                     \/ online /\ ~online' /\ flight.prompt = any /\ flight.kind = "queued"
<1>1. ASSUME NEW p \in Prompts, Que!SendDirectly(p) \/ Que!Steer(p)
      PROVE  QueueInv' /\ \A any \in Prompts : Que!Kept(any) => Que!Kept(any)'
  BY <1>1, SendKeeps
<1>2. ASSUME NEW p \in Prompts, Que!Enqueue(p)
      PROVE  QueueInv' /\ \A any \in Prompts : Que!Kept(any) => Que!Kept(any)'
  BY <1>2, EnqueueKeeps
<1>3. ASSUME NEW a \in Agents, Que!ClearQueue(a)
      PROVE  QueueInv' /\ \A any \in Prompts : Que!Kept(any) => Que!Kept(any)'
  BY <1>3, ClearQueueKeeps
<1>4. ASSUME Que!Accepted
      PROVE  QueueInv' /\ \A any \in Prompts : Que!Kept(any) => Que!Kept(any)'
  BY <1>4, AcceptedKeeps
<1>5. ASSUME Que!Rejected \/ Que!TimesOut
      PROVE  QueueInv' /\ \A any \in Prompts : Que!Kept(any) => Que!Kept(any)'
  BY <1>5, FailKeeps DEF Que!Rejected, Que!TimesOut
<1>6. ASSUME NEW a \in Agents, Que!ApplyEvent(a)
      PROVE  QueueInv' /\ \A any \in Prompts : Que!Kept(any) => Que!Kept(any)'
  BY <1>6, ApplyEventKeeps
<1>7. ASSUME NEW a \in Agents, Que!CompleteTurn(a)
      PROVE  QueueInv' /\ \A any \in Prompts : Que!Kept(any) => Que!Kept(any)'
  <2>1. UNCHANGED <<draft, queue, flight, retry, ids, order, accepted, ran, cleared, reply>>
    BY <1>7 DEF Que!CompleteTurn, Que!viewVars, Que!ghosts
  <2> QED
    BY <2>1, OthersKeep
<1>8. ASSUME Que!Reconnect
      PROVE  QueueInv' /\ \A any \in Prompts : Que!Kept(any) => Que!Kept(any)'
  <2>1. UNCHANGED <<draft, queue, flight, retry, ids, order, accepted, ran, cleared, reply>>
    BY <1>8 DEF Que!Reconnect, Que!daemonVars, Que!ghosts
  <2> QED
    BY <2>1, OthersKeep
<1>9. ASSUME Que!Receive
      PROVE  QueueInv' /\ \A any \in Prompts : Que!Kept(any) => Que!Kept(any)'
  BY <1>9, ReceiveKeeps
<1>10. CASE UNCHANGED Que!vars
  <2>1. UNCHANGED <<draft, queue, flight, retry, ids, order, accepted, ran, cleared, reply>>
    BY <1>10 DEF Que!vars, Que!viewVars, Que!daemonVars, Que!ghosts
  <2> QED
    BY <2>1, OthersKeep
<1>11. CASE Que!Disconnect
  BY <1>11, DisconnectLoses
<1> QED
  BY <1>1, <1>2, <1>3, <1>4, <1>5, <1>6, <1>7, <1>8, <1>9, <1>10, <1>11
  DEF Que!Next, Que!UserStep, Que!SystemStep

LEMMA QueueInit ==
    ASSUME Que!PromptsAssumption, Que!Init
    PROVE  QueueInv
<1>1. /\ draft = Prompts /\ queue = <<>> /\ order = <<>> /\ ids = 0 /\ accepted = {}
      /\ flight = Que!NoRequest /\ retry = Que!NoRetry /\ ran = [p \in Prompts |-> 0]
  BY DEF Que!Init
<1>2. QueueTypes
  BY <1>1, NoRequestWaits DEF QueueTypes
<1>3. OrderInv
  <2>1. Waiting(flight, queue) = <<>>
    BY <1>1, NoRequestWaits
  <2> QED
    BY <1>1, <2>1 DEF OrderInv, Logged, InLogOrder
<1>4. SentInv
  BY <1>1, NoRequestWaits DEF SentInv
<1> QED
  BY <1>2, <1>3, <1>4 DEF QueueInv

\* Que!QueueKeepsOrder of any sequence of prompts.
Ranked(log, s) ==
    \A i, j \in DOMAIN s :
        i < j /\ AgentOf[s[i]] = AgentOf[s[j]]
            => (CHOOSE n \in DOMAIN log : log[n] = s[i])
                   < (CHOOSE n \in DOMAIN log : log[n] = s[j])

LEMMA OrderIsKept ==
    ASSUME QueueInv
    PROVE  Que!QueueKeepsOrder
<1>1. PICK w : w = Waiting(flight, queue)
  OBVIOUS
<1>2. w = IF flight.kind = "queued" /\ Que!InFlight THEN <<flight.prompt>> \o queue ELSE queue
  BY <1>1 DEF Waiting, Que!InFlight
<1>3. Logged(order, w) /\ InLogOrder(order, w)
  BY <1>1 DEF QueueInv, OrderInv
<1>4. ASSUME NEW i \in DOMAIN w, NEW j \in DOMAIN w, i < j, AgentOf[w[i]] = AgentOf[w[j]]
      PROVE  (CHOOSE n \in DOMAIN order : order[n] = w[i])
                 < (CHOOSE n \in DOMAIN order : order[n] = w[j])
  <2>1. PICK m : m = CHOOSE n \in DOMAIN order : order[n] = w[i]
    OBVIOUS
  <2>2. PICK k : k = CHOOSE n \in DOMAIN order : order[n] = w[j]
    OBVIOUS
  <2>3. m \in DOMAIN order /\ order[m] = w[i] /\ k \in DOMAIN order /\ order[k] = w[j]
    BY <1>3, <2>1, <2>2 DEF Logged
  <2>4. m < k
    BY <1>3, <1>4, <2>3 DEF InLogOrder, Precedes
  <2> QED
    BY <2>1, <2>2, <2>4
<1>5. Ranked(order, w)
  BY <1>4 DEF Ranked
<1>6. Ranked(order, IF flight.kind = "queued" /\ Que!InFlight
                    THEN <<flight.prompt>> \o queue
                    ELSE queue)
  BY <1>2, <1>5
<1> QED
  BY <1>6, Zenon DEF Ranked, Que!QueueKeepsOrder

\* The messages of an agent leave the queue in the order in which they were
\* queued, also after one failed and went back (queue_prompt,
\* start_next_queued_prompt, submit_prompt_request).
THEOREM OrderIsQueued == ConversationSpec => []QueueKeepsOrder
<1>1. ConversationInit => QueueInv
  BY ConversationAssumption, QueueInit DEF ConversationInit
<1>2. QueueInv /\ [ConversationNext]_allVars => QueueInv'
  BY ConversationAssumption, QueueStep, StepOfEach
<1>3. QueueInv => QueueKeepsOrder
  BY OrderIsKept DEF QueueKeepsOrder
<1> QED
  BY <1>1, <1>2, <1>3, PTL DEF ConversationSpec

\* No answer, error, timeout or turn and nothing that the user does loses a
\* prompt; a disconnection does, and only the queued prompt being sent.
THEOREM NothingElseLoses == ConversationSpec => OnlyDisconnectLoses
<1>1. ConversationInit => QueueInv
  BY ConversationAssumption, QueueInit DEF ConversationInit
<1>2. QueueInv /\ [ConversationNext]_allVars => QueueInv'
  BY ConversationAssumption, QueueStep, StepOfEach
<1>3. QueueInv /\ [ConversationNext]_allVars =>
          [\A p \in Prompts : Que!Kept(p) /\ ~Que!Kept(p)' =>
              /\ online /\ ~online'
              /\ flight.prompt = p /\ flight.kind = "queued"]_(Que!vars)
  <2> SUFFICES ASSUME QueueInv, [ConversationNext]_allVars,
                      NEW p \in Prompts, Que!Kept(p), ~Que!Kept(p)'
               PROVE  /\ online /\ ~online'
                      /\ flight.prompt = p /\ flight.kind = "queued"
    OBVIOUS
  <2> QED
    BY ConversationAssumption, QueueStep, StepOfEach
<1> QED
  BY <1>1, <1>2, <1>3, PTL DEF ConversationSpec, OnlyDisconnectLoses, Que!OnlyDisconnectLoses

-----------------------------------------------------------------------------
(* Composer.                                                                *)

Texts == [agent : Agents \cup {none}, n : Nat]

ComposerTypes ==
    /\ cSelected \in Agents /\ owner \in Agents
    /\ text \in Texts /\ drafts \in [Agents -> Texts] /\ typed \in Nat
    /\ adding \in [kind : {"none", "files", "snapshot"}, agent : Agents \cup {none}, slots : Nat]
    /\ IsFiniteSet(files)

\* The slots of a chooser or a snapshot that is under way are still free.
SlotsInv ==
    /\ Cardinality(files) + adding.slots <= MaxAttachments
    /\ adding.kind = "snapshot" => adding.slots = 1

\* What the field and the drafts hold was typed for their agent; the attachments
\* are those of the agent of the field, unless the next frame shows another one
\* and drops them.
OwnInv ==
    /\ text # Cmp!Empty => text.agent = owner
    /\ \A a \in Agents : drafts[a] # Cmp!Empty => drafts[a].agent = a
    /\ owner = cSelected => \A f \in files : f.agent = cSelected

ComposerInv == ComposerTypes /\ SlotsInv /\ OwnInv

\* What TextSurvives demands of a step.
TextStays ==
    \A a \in Agents :
        Cmp!Written(a)' # Cmp!Written(a) /\ Cmp!Written(a) # Cmp!Empty =>
            \/ typed' # typed /\ owner = a
            \/ clearFor = a
            \/ clearFor' = a

LEMMA NothingIsTyped ==
    /\ Cmp!Empty \in Texts /\ Cmp!Empty.agent = none
    /\ Cmp!NotAdding \in [kind : {"none", "files", "snapshot"}, agent : Agents \cup {none},
                          slots : Nat]
    /\ Cmp!NotAdding.kind = "none" /\ Cmp!NotAdding.slots = 0
BY DEF Cmp!Empty, Cmp!NotAdding, Texts

\* Composer counts with the Cardinality that it extends.
LEMMA SameCount == \A S : Cmp!Cardinality(S) = Cardinality(S)
BY DEF Cmp!Cardinality, Cardinality

LEMMA AddFits ==
    ASSUME IsFiniteSet(files), NEW a, NEW n \in Nat, Cmp!Add(a, n)
    PROVE  /\ IsFiniteSet(files')
           /\ Cardinality(files') <= Cardinality(files) + n
           /\ \A f \in files' : f \in files \/ f.agent = a
<1>1. PICK new : new = {[agent |-> a, n |-> added + m] : m \in 1..n}
  OBVIOUS
<1>2. files' = files \cup new
  BY <1>1 DEF Cmp!Add
<1>3. IsFiniteSet(1..n) /\ Cardinality(1..n) = n
  BY FS_Interval
<1>4. PICK g : g = [m \in 1..n |-> [agent |-> a, n |-> added + m]]
  OBVIOUS
<1>5. g \in Surjection(1..n, new)
  BY <1>1, <1>4 DEF Surjection
<1>6. IsFiniteSet(new) /\ Cardinality(new) <= n
  BY <1>3, <1>5, FS_Surjection DEF ExistsSurjection
<1>7. /\ IsFiniteSet(files \cup new)
      /\ Cardinality(files \cup new)
             = Cardinality(files) + Cardinality(new) - Cardinality(files \cap new)
  BY <1>6, FS_Union
<1>8. Cardinality(files) \in Nat /\ Cardinality(new) \in Nat /\ Cardinality(files \cap new) \in Nat
  <2>1. IsFiniteSet(files \cap new)
    BY FS_Subset
  <2> QED
    BY <1>6, <2>1, FS_CardinalityType
<1>9. Cardinality(files \cup new) <= Cardinality(files) + n
  BY <1>6, <1>7, <1>8
<1>10. \A f \in new : f.agent = a
  BY <1>1
<1> QED
  BY <1>2, <1>7, <1>9, <1>10

\* The user types, goes elsewhere, or is taken elsewhere.
LEMMA UserKeeps ==
    ASSUME Cmp!ComposerAssumption, ComposerInv,
           Cmp!Type \/ \E a \in Agents : Cmp!Select(a) \/ Cmp!Reselect(a)
    PROVE  ComposerInv' /\ TextStays
<1>1. ComposerTypes /\ SlotsInv /\ OwnInv
  BY DEF ComposerInv
<1>2. CASE Cmp!Type
  <2>1. /\ owner = cSelected /\ typed' = typed + 1
        /\ text' = [agent |-> owner, n |-> typed']
        /\ UNCHANGED <<cSelected, owner, drafts, files, adding>>
    BY <1>2 DEF Cmp!Type, Cmp!Drawn
  <2>2. ComposerTypes'
    <3>1. typed' \in Nat /\ owner \in Agents
      BY <1>1, <2>1 DEF ComposerTypes
    <3>2. text' \in Texts
      BY <2>1, <3>1 DEF Texts
    <3> QED
      BY <1>1, <2>1, <3>1, <3>2 DEF ComposerTypes
  <2>3. SlotsInv' /\ OwnInv'
    BY <1>1, <2>1 DEF SlotsInv, OwnInv
  <2>4. TextStays
    <3>1. typed' # typed
      BY <1>1, <2>1 DEF ComposerTypes
    <3> QED
      BY <2>1, <3>1 DEF TextStays, Cmp!Written
  <2> QED
    BY <2>2, <2>3, <2>4 DEF ComposerInv
<1>3. ASSUME NEW a \in Agents, Cmp!Select(a) \/ Cmp!Reselect(a)
      PROVE  ComposerInv' /\ TextStays
  <2>1. /\ owner = cSelected /\ cSelected' = a /\ a # cSelected
        /\ UNCHANGED <<owner, text, drafts, files, adding, typed>>
    BY <1>3 DEF Cmp!Select, Cmp!Reselect, Cmp!Drawn
  <2>2. ComposerTypes' /\ SlotsInv' /\ OwnInv'
    BY <1>1, <2>1 DEF ComposerTypes, SlotsInv, OwnInv
  <2>3. TextStays
    BY <2>1 DEF TextStays, Cmp!Written
  <2> QED
    BY <2>2, <2>3 DEF ComposerInv
<1> QED
  BY <1>2, <1>3

\* A chooser opens, or an attachment is pasted or removed.
LEMMA AttachmentsKeep ==
    ASSUME Cmp!ComposerAssumption, ComposerInv,
           \/ Cmp!ChooseFiles \/ Cmp!TakeSnapshot \/ Cmp!PasteImage
           \/ \E f \in files : Cmp!RemoveAttachment(f)
    PROVE  ComposerInv' /\ TextStays
<1>1. ComposerTypes /\ SlotsInv /\ OwnInv
  BY DEF ComposerInv
<1>2. UNCHANGED <<cSelected, owner, text, drafts, typed>>
  BY DEF Cmp!ChooseFiles, Cmp!TakeSnapshot, Cmp!PasteImage, Cmp!RemoveAttachment
<1>3. TextStays
  BY <1>2 DEF TextStays, Cmp!Written
<1>4. Cardinality(files) \in Nat /\ MaxAttachments \in Nat /\ adding.slots \in Nat
  BY <1>1, FS_CardinalityType DEF ComposerTypes, Cmp!ComposerAssumption
<1>5. CASE Cmp!ChooseFiles \/ Cmp!TakeSnapshot
  <2>1. /\ Cardinality(files) < MaxAttachments /\ UNCHANGED files
        /\ \/ adding' = [kind |-> "files", agent |-> cSelected,
                         slots |-> MaxAttachments - Cardinality(files)]
           \/ adding' = [kind |-> "snapshot", agent |-> cSelected, slots |-> 1]
    BY <1>5, SameCount DEF Cmp!ChooseFiles, Cmp!TakeSnapshot
  <2>2. /\ adding' \in [kind : {"none", "files", "snapshot"}, agent : Agents \cup {none}, slots : Nat]
        /\ Cardinality(files) + adding'.slots <= MaxAttachments
    <3>1. MaxAttachments - Cardinality(files) \in Nat /\ cSelected \in Agents
      BY <1>1, <1>4, <2>1 DEF ComposerTypes
    <3> QED
      BY <1>4, <2>1, <3>1
  <2>3. ComposerTypes' /\ SlotsInv' /\ OwnInv'
    BY <1>1, <1>2, <2>1, <2>2 DEF ComposerTypes, SlotsInv, OwnInv
  <2> QED
    BY <1>3, <2>3 DEF ComposerInv
<1>6. CASE Cmp!PasteImage
  <2>1. /\ owner = cSelected /\ adding = Cmp!NotAdding /\ UNCHANGED adding
        /\ Cardinality(files) < MaxAttachments /\ Cmp!Add(cSelected, 1)
    BY <1>6, SameCount DEF Cmp!PasteImage, Cmp!Drawn, Cmp!Adding
  <2>2. /\ IsFiniteSet(files') /\ Cardinality(files') <= Cardinality(files) + 1
        /\ \A f \in files' : f \in files \/ f.agent = cSelected
    BY <1>1, <2>1, AddFits DEF ComposerTypes
  <2>3. Cardinality(files') \in Nat
    BY <2>2, FS_CardinalityType
  <2>4. SlotsInv'
    BY <1>4, <2>1, <2>2, <2>3, NothingIsTyped DEF SlotsInv
  <2>5. ComposerTypes' /\ OwnInv'
    BY <1>1, <1>2, <2>1, <2>2 DEF ComposerTypes, OwnInv
  <2> QED
    BY <1>3, <2>4, <2>5 DEF ComposerInv
<1>7. ASSUME NEW f \in files, Cmp!RemoveAttachment(f) PROVE ComposerInv' /\ TextStays
  <2>1. files' = files \ {f} /\ UNCHANGED adding
    BY <1>7 DEF Cmp!RemoveAttachment
  <2>2. IsFiniteSet(files') /\ Cardinality(files') <= Cardinality(files)
    BY <1>1, <2>1, FS_Subset DEF ComposerTypes
  <2>3. Cardinality(files') \in Nat
    BY <2>2, FS_CardinalityType
  <2>4. SlotsInv'
    BY <1>1, <1>4, <2>1, <2>2, <2>3 DEF SlotsInv
  <2>5. ComposerTypes' /\ OwnInv'
    BY <1>1, <1>2, <2>1, <2>2 DEF ComposerTypes, OwnInv
  <2> QED
    BY <1>3, <2>4, <2>5 DEF ComposerInv
<1> QED
  BY <1>5, <1>6, <1>7

LEMMA EmptyFits ==
    ASSUME Cmp!ComposerAssumption, ComposerInv, files' = {}
    PROVE  /\ IsFiniteSet(files')
           /\ Cardinality(files') + adding.slots <= MaxAttachments
           /\ adding.kind = "snapshot" => adding.slots = 1
<1>1. Cardinality({}) = 0 /\ IsFiniteSet({})
  BY FS_EmptySet
<1>2. Cardinality(files) \in Nat /\ adding.slots \in Nat /\ MaxAttachments \in Nat
      /\ Cardinality(files) + adding.slots <= MaxAttachments
  BY FS_CardinalityType DEF ComposerInv, ComposerTypes, SlotsInv, Cmp!ComposerAssumption
<1>3. adding.kind = "snapshot" => adding.slots = 1
  BY DEF ComposerInv, SlotsInv
<1> QED
  BY <1>1, <1>2, <1>3

\* A prompt was accepted or queued: the text and the attachments are gone, and
\* the field when a frame of its agent is drawn.
LEMMA ClearingKeeps ==
    ASSUME Cmp!ComposerAssumption, ComposerInv, NEW a, Cmp!ClearSubmitted(a),
           UNCHANGED <<cSelected, owner, adding, typed>>
    PROVE  ComposerInv' /\ TextStays
<1>1. ComposerTypes /\ SlotsInv /\ OwnInv
  BY DEF ComposerInv
<1>2. /\ drafts' = [drafts EXCEPT ![a] = Cmp!Empty] /\ clearFor' = a /\ files' = {}
      /\ UNCHANGED text
  BY DEF Cmp!ClearSubmitted
<1>3. /\ drafts' \in [Agents -> Texts]
      /\ \A b \in Agents : drafts'[b] = IF b = a THEN Cmp!Empty ELSE drafts[b]
  BY <1>1, <1>2, NothingIsTyped DEF ComposerTypes
<1>4. ComposerTypes'
  BY <1>1, <1>2, <1>3, EmptyFits DEF ComposerTypes
<1>5. SlotsInv'
  BY <1>2, EmptyFits DEF SlotsInv
<1>6. OwnInv'
  BY <1>1, <1>2, <1>3 DEF OwnInv
<1>7. TextStays
  BY <1>2, <1>3 DEF TextStays, Cmp!Written
<1> QED
  BY <1>4, <1>5, <1>6, <1>7 DEF ComposerInv

LEMMA PromptKeeps ==
    ASSUME Cmp!ComposerAssumption, ComposerInv,
           \/ Cmp!SendPrompt \/ Cmp!QueuePrompt \/ Cmp!PromptAccepted \/ Cmp!PromptFails
           \/ \E a \in Agents : Cmp!SubmitQueued(a)
    PROVE  ComposerInv' /\ TextStays
<1>1. UNCHANGED <<cSelected, owner, adding, typed>>
  BY DEF Cmp!SendPrompt, Cmp!QueuePrompt, Cmp!PromptAccepted, Cmp!PromptFails, Cmp!SubmitQueued
<1>2. CASE \E a : Cmp!ClearSubmitted(a)
  BY <1>1, <1>2, ClearingKeeps
<1>3. CASE ~\E a : Cmp!ClearSubmitted(a)
  <2>1. UNCHANGED <<text, drafts, files>>
    BY <1>3 DEF Cmp!SendPrompt, Cmp!QueuePrompt, Cmp!PromptAccepted, Cmp!PromptFails,
                Cmp!SubmitQueued
  <2>2. ComposerInv'
    BY <1>1, <2>1 DEF ComposerInv, ComposerTypes, SlotsInv, OwnInv
  <2>3. TextStays
    BY <1>1, <2>1 DEF TextStays, Cmp!Written
  <2> QED
    BY <2>2, <2>3
<1> QED
  BY <1>2, <1>3

\* The chooser and the snapshot bring no more than the slots they were given.
LEMMA AddedKeeps ==
    ASSUME Cmp!ComposerAssumption, ComposerInv, Cmp!FilesChosen \/ Cmp!SnapshotTaken
    PROVE  ComposerInv' /\ TextStays
<1>1. ComposerTypes /\ SlotsInv /\ OwnInv
  BY DEF ComposerInv
<1>2. /\ adding' = Cmp!NotAdding
      /\ UNCHANGED <<cSelected, owner, text, drafts, typed>>
  BY DEF Cmp!FilesChosen, Cmp!SnapshotTaken
<1>3. TextStays
  BY <1>2 DEF TextStays, Cmp!Written
<1>4. Cardinality(files) \in Nat /\ MaxAttachments \in Nat /\ adding.slots \in Nat
      /\ Cardinality(files) + adding.slots <= MaxAttachments
  BY <1>1, FS_CardinalityType DEF ComposerTypes, SlotsInv, Cmp!ComposerAssumption
<1>5. CASE files' = files
  BY <1>1, <1>2, <1>3, <1>4, <1>5, NothingIsTyped
  DEF ComposerInv, ComposerTypes, SlotsInv, OwnInv
<1>6. CASE files' # files
  <2>1. PICK n \in Nat : n <= adding.slots /\ Cmp!Add(cSelected, n)
    <3>1. CASE Cmp!FilesChosen
      <4>1. \E n \in 0..adding.slots : Cmp!Add(cSelected, n)
        BY <1>6, <3>1 DEF Cmp!FilesChosen
      <4> QED
        BY <1>4, <4>1
    <3>2. CASE Cmp!SnapshotTaken
      <4>1. adding.kind = "snapshot" /\ Cmp!Add(cSelected, 1)
        BY <1>6, <3>2 DEF Cmp!SnapshotTaken
      <4>2. adding.slots >= 1
        BY <1>1, <4>1 DEF SlotsInv
      <4> QED
        BY <4>1, <4>2
    <3> QED
      BY <3>1, <3>2
  <2>2. /\ IsFiniteSet(files') /\ Cardinality(files') <= Cardinality(files) + n
        /\ \A f \in files' : f \in files \/ f.agent = cSelected
    BY <1>1, <2>1, AddFits DEF ComposerTypes
  <2>3. Cardinality(files') \in Nat
    BY <2>2, FS_CardinalityType
  <2>4. SlotsInv'
    BY <1>2, <1>4, <2>1, <2>2, <2>3, NothingIsTyped DEF SlotsInv
  <2>5. ComposerTypes' /\ OwnInv'
    BY <1>1, <1>2, <2>2, NothingIsTyped DEF ComposerTypes, OwnInv
  <2> QED
    BY <1>3, <2>4, <2>5 DEF ComposerInv
<1> QED
  BY <1>5, <1>6

\* A frame is drawn: the field shows the selected agent.
LEMMA DrawKeeps ==
    ASSUME Cmp!ComposerAssumption, ComposerInv, Cmp!Draw
    PROVE  ComposerInv' /\ TextStays
<1>1. ComposerTypes /\ SlotsInv /\ OwnInv
  BY DEF ComposerInv
<1>2. /\ owner' = cSelected /\ UNCHANGED <<cSelected, adding, typed>>
      /\ cSelected \in Agents /\ owner \in Agents /\ drafts \in [Agents -> Texts]
      /\ text \in Texts
  BY <1>1 DEF Cmp!Draw, ComposerTypes
<1>3. CASE owner # cSelected
  <2>1. files' = {}
    BY <1>3 DEF Cmp!Draw
  <2>2. CASE clearFor = cSelected
    <3>1. /\ text' = Cmp!Empty
          /\ drafts' = [drafts EXCEPT ![owner] = text, ![cSelected] = Cmp!Empty]
      BY <1>3, <2>2 DEF Cmp!Draw
    <3>2. /\ drafts' \in [Agents -> Texts]
          /\ drafts'[cSelected] = Cmp!Empty /\ drafts'[owner] = text
          /\ \A a \in Agents : a # owner /\ a # cSelected => drafts'[a] = drafts[a]
      BY <1>2, <1>3, <3>1, NothingIsTyped
    <3>3. ComposerTypes' /\ SlotsInv'
      BY <1>1, <1>2, <2>1, <3>1, <3>2, EmptyFits, NothingIsTyped DEF ComposerTypes, SlotsInv
    <3>4. OwnInv'
      BY <1>1, <1>2, <2>1, <3>1, <3>2 DEF OwnInv
    <3>5. TextStays
      BY <1>2, <1>3, <2>2, <3>2 DEF TextStays, Cmp!Written
    <3> QED
      BY <3>3, <3>4, <3>5 DEF ComposerInv
  <2>3. CASE clearFor # cSelected
    <3>1. text' = drafts[cSelected] /\ drafts' = [drafts EXCEPT ![owner] = text]
      BY <1>3, <2>3 DEF Cmp!Draw, Cmp!SwapDraft
    <3>2. /\ drafts' \in [Agents -> Texts] /\ text' \in Texts
          /\ drafts'[owner] = text
          /\ \A a \in Agents : a # owner => drafts'[a] = drafts[a]
      BY <1>2, <3>1
    <3>3. ComposerTypes' /\ SlotsInv'
      BY <1>1, <1>2, <2>1, <3>2, EmptyFits DEF ComposerTypes, SlotsInv
    <3>4. OwnInv'
      BY <1>1, <1>2, <2>1, <3>1, <3>2 DEF OwnInv
    <3>5. TextStays
      BY <1>2, <1>3, <3>1, <3>2 DEF TextStays, Cmp!Written
    <3> QED
      BY <3>3, <3>4, <3>5 DEF ComposerInv
  <2> QED
    BY <2>2, <2>3
<1>4. CASE owner = cSelected
  <2>1. /\ clearFor = cSelected /\ UNCHANGED files
        /\ text' = Cmp!Empty /\ drafts' = [drafts EXCEPT ![cSelected] = Cmp!Empty]
    BY <1>4 DEF Cmp!Draw, Cmp!Drawn
  <2>2. /\ drafts' \in [Agents -> Texts] /\ drafts'[cSelected] = Cmp!Empty
        /\ \A a \in Agents : a # cSelected => drafts'[a] = drafts[a]
    BY <1>2, <2>1, NothingIsTyped
  <2>3. ComposerTypes' /\ SlotsInv'
    BY <1>1, <1>2, <2>1, <2>2, NothingIsTyped DEF ComposerTypes, SlotsInv
  <2>4. OwnInv'
    BY <1>1, <1>2, <1>4, <2>1, <2>2 DEF OwnInv
  <2>5. TextStays
    BY <1>2, <1>4, <2>1, <2>2 DEF TextStays, Cmp!Written
  <2> QED
    BY <2>3, <2>4, <2>5 DEF ComposerInv
<1> QED
  BY <1>3, <1>4

LEMMA ComposerStep ==
    ASSUME Cmp!ComposerAssumption, ComposerInv, [Cmp!Next]_(Cmp!vars)
    PROVE  ComposerInv' /\ TextStays
<1>1. CASE UNCHANGED Cmp!vars
  <2>1. UNCHANGED <<cSelected, owner, text, drafts, files, clearFor, adding, typed>>
    BY <1>1 DEF Cmp!vars
  <2>2. ComposerInv'
    BY <2>1 DEF ComposerInv, ComposerTypes, SlotsInv, OwnInv
  <2>3. TextStays
    BY <2>1 DEF TextStays, Cmp!Written
  <2> QED
    BY <2>2, <2>3
<1>2. CASE Cmp!Type \/ \E a \in Agents : Cmp!Select(a) \/ Cmp!Reselect(a)
  BY <1>2, UserKeeps
<1>3. CASE \/ Cmp!ChooseFiles \/ Cmp!TakeSnapshot \/ Cmp!PasteImage
           \/ \E f \in files : Cmp!RemoveAttachment(f)
  BY <1>3, AttachmentsKeep
<1>4. CASE \/ Cmp!SendPrompt \/ Cmp!QueuePrompt \/ Cmp!PromptAccepted \/ Cmp!PromptFails
           \/ \E a \in Agents : Cmp!SubmitQueued(a)
  BY <1>4, PromptKeeps
<1>5. CASE Cmp!FilesChosen \/ Cmp!SnapshotTaken
  BY <1>5, AddedKeeps
<1>6. CASE Cmp!Draw
  BY <1>6, DrawKeeps
<1> QED
  BY <1>1, <1>2, <1>3, <1>4, <1>5, <1>6 DEF Cmp!Next

LEMMA ComposerInit ==
    ASSUME Cmp!ComposerAssumption, Cmp!Init
    PROVE  ComposerInv
<1>1. /\ cSelected \in Agents /\ owner = cSelected /\ text = Cmp!Empty /\ files = {}
      /\ drafts = [a \in Agents |-> Cmp!Empty] /\ adding = Cmp!NotAdding /\ typed = 0
  BY DEF Cmp!Init
<1>2. IsFiniteSet({}) /\ Cardinality({}) = 0 /\ MaxAttachments \in Nat
  BY FS_EmptySet DEF Cmp!ComposerAssumption
<1>3. ComposerTypes
  BY <1>1, <1>2, NothingIsTyped DEF ComposerTypes
<1>4. SlotsInv /\ OwnInv
  BY <1>1, <1>2, NothingIsTyped DEF SlotsInv, OwnInv
<1> QED
  BY <1>3, <1>4 DEF ComposerInv

\* Nothing that the user prepared for one agent is sent to another, and no
\* sequence of choosing, pasting and capturing goes beyond the limit
\* (sync_prompt_editors, choose_prompt_attachments, capture_app_snapshot).
THEOREM ComposerHoldsItsOwn == ConversationSpec => []HoldsItsOwn
<1>1. ConversationInit => ComposerInv
  BY ConversationAssumption, ComposerInit DEF ConversationInit
<1>2. ComposerInv /\ [ConversationNext]_allVars => ComposerInv'
  BY ConversationAssumption, ComposerStep, StepOfEach
<1>3. ComposerInv => HoldsItsOwn
  <2> SUFFICES ASSUME ComposerInv PROVE HoldsItsOwn
    OBVIOUS
  <2>1. Cmp!HoldsItsOwn
    BY DEF ComposerInv, OwnInv, Cmp!HoldsItsOwn, Cmp!Drawn
  <2>2. Cmp!AttachmentsFit
    <3>1. Cardinality(files) \in Nat /\ adding.slots \in Nat /\ MaxAttachments \in Nat
          /\ Cardinality(files) + adding.slots <= MaxAttachments
      BY ConversationAssumption, FS_CardinalityType
      DEF ComposerInv, ComposerTypes, SlotsInv, ConversationAssumption, Cmp!ComposerAssumption
    <3> QED
      BY <3>1, SameCount DEF Cmp!AttachmentsFit
  <2> QED
    BY <2>1, <2>2 DEF HoldsItsOwn
<1> QED
  BY <1>1, <1>2, <1>3, PTL DEF ConversationSpec

\* What was written for an agent stays until the user writes something else or
\* one of the agent's own prompts is accepted or queued, which clears the field
\* as it is then (sync_prompt_editors, clear_submitted_composer).
THEOREM WrittenStays == ConversationSpec => TextSurvives
<1>1. ConversationInit => ComposerInv
  BY ConversationAssumption, ComposerInit DEF ConversationInit
<1>2. ComposerInv /\ [ConversationNext]_allVars => ComposerInv'
  BY ConversationAssumption, ComposerStep, StepOfEach
<1>3. ComposerInv /\ [ConversationNext]_allVars => [TextStays]_(Cmp!vars)
  BY ConversationAssumption, ComposerStep, StepOfEach
<1> QED
  BY <1>1, <1>2, <1>3, PTL DEF ConversationSpec, TextSurvives, Cmp!TextSurvives, TextStays

-----------------------------------------------------------------------------
(* Timeline.  A batch is folded into the view, one event after the other.   *)

\* What FoldLeft computes with, from sets of indices to what they fold to.
Folds(g, v, s, n) ==
    g = [t \in SUBSET (1..n) |->
            IF t = {} THEN v ELSE ApplyTimeline(g[t \ {Max(t)}], s[Max(t)])]

FoldTo(v, s, n) == (CHOOSE g : Folds(g, v, s, n))[1..n]

LEMMA FoldIs ==
    ASSUME NEW v, NEW S, NEW s \in Seq(S)
    PROVE  FoldLeft(ApplyTimeline, v, s) = FoldTo(v, s, Len(s))
<1>1. DOMAIN s = 1..Len(s)
  OBVIOUS
<1> QED
  BY <1>1 DEF FoldTo, FoldLeft, MapThenFoldSet, Folds

LEMMA FoldsExist ==
    ASSUME NEW v, NEW s
    PROVE  \A n \in Nat : \E g : Folds(g, v, s, n)
<1>1. PICK T : T = {n \in Nat : \E g : Folds(g, v, s, n)}
  OBVIOUS
<1>2. 0 \in T
  <2>1. PICK g : g = [t \in SUBSET (1..0) |-> v]
    OBVIOUS
  <2>2. \A t \in SUBSET (1..0) : t = {}
    OBVIOUS
  <2>3. Folds(g, v, s, 0)
    BY <2>1, <2>2 DEF Folds
  <2> QED
    BY <1>1, <2>3
<1>3. ASSUME NEW n \in T PROVE n + 1 \in T
  <2>1. n \in Nat
    BY <1>1
  <2>2. PICK g : Folds(g, v, s, n)
    BY <1>1
  <2>3. PICK h : h = [t \in SUBSET (1..(n + 1)) |->
                        IF n + 1 \in t THEN ApplyTimeline(g[t \ {n + 1}], s[n + 1]) ELSE g[t]]
    OBVIOUS
  <2>4. \A t \in SUBSET (1..n) : h[t] = g[t]
    <3> SUFFICES ASSUME NEW t \in SUBSET (1..n) PROVE h[t] = g[t]
      OBVIOUS
    <3>1. t \in SUBSET (1..(n + 1)) /\ n + 1 \notin t
      BY <2>1
    <3> QED
      BY <2>3, <3>1
  <2>5. ASSUME NEW t \in SUBSET (1..(n + 1))
        PROVE  h[t] = IF t = {} THEN v ELSE ApplyTimeline(h[t \ {Max(t)}], s[Max(t)])
    <3>1. CASE n + 1 \in t
      <4>1. Max(t) = n + 1
        <5>1. n + 1 \in Nat /\ t # {}
          BY <2>1, <3>1
        <5>2. Max(t) \in t /\ n + 1 <= Max(t)
          BY <3>1, <5>1, MaxIs
        <5>3. Max(t) \in 1..(n + 1)
          BY <5>2
        <5> QED
          BY <2>1, <5>2, <5>3
      <4>2. t \ {n + 1} \in SUBSET (1..n)
        BY <2>1
      <4> QED
        BY <2>3, <2>4, <3>1, <4>1, <4>2
    <3>2. CASE n + 1 \notin t
      <4>1. t \in SUBSET (1..n)
        BY <2>1, <3>2
      <4>2. h[t] = g[t] /\ h[t \ {Max(t)}] = g[t \ {Max(t)}]
        BY <2>4, <4>1
      <4> QED
        BY <2>2, <4>1, <4>2 DEF Folds
    <3> QED
      BY <3>1, <3>2
  <2>6. Folds(h, v, s, n + 1)
    <3>1. h = [t \in SUBSET (1..(n + 1)) |-> h[t]]
      BY <2>3
    <3> QED
      BY <2>5, <3>1 DEF Folds
  <2> QED
    BY <1>1, <2>1, <2>6
<1>4. T = Nat
  BY <1>1, <1>2, <1>3, Induction
<1> QED
  BY <1>1, <1>4

LEMMA FoldsAgree ==
    ASSUME NEW v, NEW s, NEW n \in Nat, NEW m \in Nat, n <= m, NEW g, NEW h,
           Folds(g, v, s, n), Folds(h, v, s, m)
    PROVE  \A t \in SUBSET (1..n) : g[t] = h[t]
<1>1. PICK T : T = {k \in Nat : k <= n => \A t \in SUBSET (1..k) : g[t] = h[t]}
  OBVIOUS
<1>2. \A t \in SUBSET (1..n) : t \in SUBSET (1..m)
  OBVIOUS
<1>3. \A t \in SUBSET (1..n) :
         /\ g[t] = IF t = {} THEN v ELSE ApplyTimeline(g[t \ {Max(t)}], s[Max(t)])
         /\ h[t] = IF t = {} THEN v ELSE ApplyTimeline(h[t \ {Max(t)}], s[Max(t)])
  BY <1>2 DEF Folds
<1>4. 0 \in T
  <2>1. \A t \in SUBSET (1..0) : t = {} /\ t \in SUBSET (1..n)
    OBVIOUS
  <2> QED
    BY <1>1, <1>3, <2>1
<1>5. ASSUME NEW k \in T PROVE k + 1 \in T
  <2>1. k \in Nat
    BY <1>1
  <2> SUFFICES ASSUME k + 1 <= n, NEW t \in SUBSET (1..(k + 1)) PROVE g[t] = h[t]
    BY <1>1, <2>1
  <2>2. \A u \in SUBSET (1..k) : g[u] = h[u]
    BY <1>1, <2>1
  <2>3. t \in SUBSET (1..n)
    BY <2>1
  <2>4. ASSUME t # {} PROVE t \ {Max(t)} \in SUBSET (1..k)
    <3>1. k + 1 \in Nat
      BY <2>1
    <3>2. Max(t) \in t /\ \A x \in t : x <= Max(t)
      BY <2>4, <3>1, MaxIs
    <3>3. ASSUME NEW x \in t \ {Max(t)} PROVE x \in 1..k
      <4>1. PICK z : z = Max(t)
        OBVIOUS
      <4>2. x \in 1..(k + 1) /\ z \in 1..(k + 1) /\ x <= z /\ x # z
        BY <3>2, <4>1
      <4> QED
        BY <2>1, <4>2
    <3> QED
      BY <3>3
  <2> QED
    BY <1>3, <2>2, <2>3, <2>4
<1>6. T = Nat
  BY <1>1, <1>4, <1>5, Induction
<1> QED
  BY <1>1, <1>6

LEMMA FoldSteps ==
    ASSUME NEW v, NEW s
    PROVE  /\ FoldTo(v, s, 0) = v
           /\ \A n \in Nat : FoldTo(v, s, n + 1) = ApplyTimeline(FoldTo(v, s, n), s[n + 1])
<1>1. \A n \in Nat : Folds(CHOOSE g : Folds(g, v, s, n), v, s, n)
  BY FoldsExist
<1>2. FoldTo(v, s, 0) = v
  <2>1. PICK g : g = (CHOOSE h : Folds(h, v, s, 0)) /\ Folds(g, v, s, 0)
    BY <1>1
  <2>2. 1..0 = {} /\ 1..0 \in SUBSET (1..0)
    OBVIOUS
  <2>3. g[1..0] = v
    BY <2>1, <2>2 DEF Folds
  <2> QED
    BY <2>1, <2>3 DEF FoldTo
<1>3. ASSUME NEW n \in Nat PROVE FoldTo(v, s, n + 1) = ApplyTimeline(FoldTo(v, s, n), s[n + 1])
  <2>1. PICK g : g = (CHOOSE h : Folds(h, v, s, n)) /\ Folds(g, v, s, n)
    BY <1>1
  <2>2. PICK h : h = (CHOOSE j : Folds(j, v, s, n + 1)) /\ Folds(h, v, s, n + 1)
    BY <1>1
  <2>3. g[1..n] = h[1..n]
    <3>1. Folds(g, v, s, n) /\ Folds(h, v, s, n + 1)
      BY <2>1, <2>2
    <3>2. n + 1 \in Nat /\ n <= n + 1 /\ 1..n \in SUBSET (1..n)
      OBVIOUS
    <3>3. \A t \in SUBSET (1..n) : g[t] = h[t]
      BY <3>1, <3>2, FoldsAgree
    <3> QED
      BY <3>2, <3>3
  <2>4. Max(1..(n + 1)) = n + 1
    <3>1. PICK t : t = 1..(n + 1)
      OBVIOUS
    <3>2. n + 1 \in t /\ t \in SUBSET (1..(n + 1))
      BY <3>1
    <3>3. n + 1 \in Nat /\ t # {}
      BY <3>2
    <3>4. Max(t) \in t /\ n + 1 <= Max(t)
      BY <3>2, <3>3, MaxIs
    <3>5. Max(t) \in 1..(n + 1)
      BY <3>2, <3>4
    <3> QED
      BY <3>1, <3>4, <3>5
  <2>5. (1..(n + 1)) \ {n + 1} = 1..n
    OBVIOUS
  <2>6. h[1..(n + 1)] = ApplyTimeline(h[1..n], s[n + 1])
    <3>1. Folds(h, v, s, n + 1)
      BY <2>2
    <3>2. 1..(n + 1) \in SUBSET (1..(n + 1)) /\ 1..(n + 1) # {}
      OBVIOUS
    <3> QED
      BY <2>4, <2>5, <3>1, <3>2 DEF Folds
  <2> QED
    BY <2>1, <2>2, <2>3, <2>6 DEF FoldTo
<1> QED
  BY <1>2, <1>3

\* What the variables of a view hold.
TurnSet == [key : Keys, prompted : BOOLEAN, text : Seq(Nat),
            step : {"none", "running"} \cup Final, status : {"running"} \cup Final]
Places == [turn : Nat, row : Nat]

ViewTypes(v) ==
    /\ v = [timeline |-> v.timeline, byTurn |-> v.byTurn, byAgent |-> v.byAgent,
            advanced |-> v.advanced, dirty |-> v.dirty]
    /\ v.timeline \in Seq(TurnSet)
    /\ DOMAIN v.byTurn \in SUBSET Keys /\ IsFiniteSet(DOMAIN v.byTurn)
    /\ v.byTurn \in [DOMAIN v.byTurn -> Places]
    /\ v.byAgent \in [Agents -> Seq(Nat)]
    /\ v.advanced \in [Keys -> Nat]
    /\ v.dirty \in SUBSET Keys

\* Every turn is found under its key, at its place among its agent's turns ...
TurnAt(v, j) ==
    /\ v.timeline[j].key \in DOMAIN v.byTurn
    /\ v.byTurn[v.timeline[j].key].turn = j

KeyAt(v, k) ==
    /\ v.byTurn[k].turn \in DOMAIN v.timeline
    /\ v.timeline[v.byTurn[k].turn].key = k
    /\ v.byTurn[k].row \in DOMAIN v.byAgent[k[1]]
    /\ v.byAgent[k[1]][v.byTurn[k].row] = v.byTurn[k].turn

\* ... and every one of an agent's turns is one of that agent.
RowAt(v, a, i) ==
    /\ v.byAgent[a][i] \in DOMAIN v.timeline
    /\ v.timeline[v.byAgent[a][i]].key[1] = a
    /\ v.byTurn[v.timeline[v.byAgent[a][i]].key].row = i

Exact(v) ==
    /\ \A j \in DOMAIN v.timeline : TurnAt(v, j)
    /\ \A k \in DOMAIN v.byTurn : KeyAt(v, k)
    /\ \A a \in Agents : \A i \in DOMAIN v.byAgent[a] : RowAt(v, a, i)
    /\ \A a \in Agents :
          Len(v.byAgent[a]) = Cardinality({k \in DOMAIN v.byTurn : k[1] = a})

\* A turn that is over has advanced the queue once.
IsOver(v, k) == k \in DOMAIN v.byTurn /\ v.timeline[v.byTurn[k].turn].status # "running"

Once(v) == \A k \in Keys : v.advanced[k] = IF IsOver(v, k) THEN 1 ELSE 0

\* From u to v, turns are added, and only dirty ones change.
Grows(u, v) ==
    /\ \A j \in DOMAIN u.timeline :
          /\ j \in DOMAIN v.timeline
          /\ v.timeline[j] # u.timeline[j] => v.timeline[j].key \in v.dirty
    /\ \A a \in Agents : \A i \in DOMAIN u.byAgent[a] :
          i \in DOMAIN v.byAgent[a] /\ v.byAgent[a][i] = u.byAgent[a][i]

\* v with a new turn for key.
Added(v, w, key) ==
    /\ w = [timeline |-> w.timeline, byTurn |-> w.byTurn, byAgent |-> w.byAgent,
            advanced |-> v.advanced, dirty |-> v.dirty]
    /\ w.timeline = Append(v.timeline, NewTurn(key))
    /\ DOMAIN w.byTurn = DOMAIN v.byTurn \cup {key}
    /\ w.byTurn \in [DOMAIN w.byTurn -> Places]
    /\ \A k \in DOMAIN v.byTurn : w.byTurn[k] = v.byTurn[k]
    /\ w.byTurn[key].turn = Len(v.timeline) + 1
    /\ w.byTurn[key].row = Len(v.byAgent[key[1]]) + 1
    /\ w.byAgent \in [Agents -> Seq(Nat)]
    /\ w.byAgent[key[1]] = Append(v.byAgent[key[1]], Len(v.timeline) + 1)
    /\ \A a \in Agents : a # key[1] => w.byAgent[a] = v.byAgent[a]

LEMMA WithTurnAdds ==
    ASSUME NEW v, ViewTypes(v), NEW key \in Keys, key \notin DOMAIN v.byTurn
    PROVE  Added(v, WithTurn(v, key), key)
<1>1. key[1] \in Agents
  BY DEF Keys
<1>2. PICK place : place = [turn |-> Len(v.timeline) + 1, row |-> Len(v.byAgent[key[1]]) + 1]
  OBVIOUS
<1>3. PICK w : w = WithTurn(v, key)
  OBVIOUS
<1>4. w = [v EXCEPT !.timeline = Append(@, NewTurn(key)),
                    !.byTurn = [k \in DOMAIN @ \cup {key} |->
                                   IF k = key THEN place ELSE v.byTurn[k]],
                    !.byAgent[key[1]] = Append(@, place.turn)]
  BY <1>2, <1>3 DEF WithTurn
<1>5. w = [timeline |-> Append(v.timeline, NewTurn(key)),
           byTurn |-> [k \in DOMAIN v.byTurn \cup {key} |->
                          IF k = key THEN place ELSE v.byTurn[k]],
           byAgent |-> [v.byAgent EXCEPT ![key[1]] = Append(@, place.turn)],
           advanced |-> v.advanced, dirty |-> v.dirty]
  BY <1>4 DEF ViewTypes
<1>6. Len(v.timeline) \in Nat /\ v.byAgent[key[1]] \in Seq(Nat) /\ Len(v.byAgent[key[1]]) \in Nat
  BY <1>1 DEF ViewTypes
<1>7. place \in Places /\ place.turn = Len(v.timeline) + 1
      /\ place.row = Len(v.byAgent[key[1]]) + 1
  BY <1>2, <1>6 DEF Places
<1>8. PICK f : f = [k \in DOMAIN v.byTurn \cup {key} |->
                       IF k = key THEN place ELSE v.byTurn[k]]
  OBVIOUS
<1>9. /\ DOMAIN f = DOMAIN v.byTurn \cup {key} /\ f[key] = place
      /\ \A k \in DOMAIN v.byTurn : f[k] = v.byTurn[k]
      /\ f \in [DOMAIN f -> Places]
  <2>1. v.byTurn \in [DOMAIN v.byTurn -> Places]
    BY DEF ViewTypes
  <2> QED
    BY <1>7, <1>8, <2>1
<1>10. PICK g : g = [v.byAgent EXCEPT ![key[1]] = Append(@, place.turn)]
  OBVIOUS
<1>11. /\ g \in [Agents -> Seq(Nat)]
       /\ g[key[1]] = Append(v.byAgent[key[1]], Len(v.timeline) + 1)
       /\ \A a \in Agents : a # key[1] => g[a] = v.byAgent[a]
  <2>1. v.byAgent \in [Agents -> Seq(Nat)]
    BY DEF ViewTypes
  <2>2. Append(v.byAgent[key[1]], place.turn) \in Seq(Nat)
    BY <1>6, <1>7
  <2> QED
    BY <1>1, <1>7, <1>10, <2>1, <2>2
<1>12. w = [timeline |-> Append(v.timeline, NewTurn(key)), byTurn |-> f, byAgent |-> g,
            advanced |-> v.advanced, dirty |-> v.dirty]
  BY <1>5, <1>8, <1>10
<1>13. Added(v, w, key)
  BY <1>7, <1>9, <1>11, <1>12 DEF Added
<1> QED
  BY <1>3, <1>13

LEMMA NewTurnIs ==
    ASSUME NEW key \in Keys
    PROVE  /\ NewTurn(key) \in TurnSet
           /\ NewTurn(key).key = key /\ NewTurn(key).status = "running"
           /\ NewTurn(key).text = <<>> /\ NewTurn(key).prompted = FALSE
BY DEF NewTurn, TurnSet

LEMMA AddedTypes ==
    ASSUME NEW v, NEW w, NEW key \in Keys, ViewTypes(v), Added(v, w, key)
    PROVE  ViewTypes(w)
<1>1. w.timeline \in Seq(TurnSet)
  <2>1. v.timeline \in Seq(TurnSet) /\ w.timeline = Append(v.timeline, NewTurn(key))
    BY DEF ViewTypes, Added
  <2>2. PICK t : t = NewTurn(key) /\ t \in TurnSet
    BY NewTurnIs
  <2> QED
    BY <2>1, <2>2
<1>2. DOMAIN w.byTurn \in SUBSET Keys /\ IsFiniteSet(DOMAIN w.byTurn)
  <2>1. /\ DOMAIN w.byTurn = DOMAIN v.byTurn \cup {key}
        /\ DOMAIN v.byTurn \in SUBSET Keys /\ IsFiniteSet(DOMAIN v.byTurn)
    BY DEF ViewTypes, Added
  <2>2. IsFiniteSet(DOMAIN v.byTurn \cup {key})
    BY <2>1, FS_AddElement
  <2> QED
    BY <2>1, <2>2
<1>3. w.advanced = v.advanced /\ w.dirty = v.dirty
  BY DEF Added
<1>4. w = [timeline |-> w.timeline, byTurn |-> w.byTurn, byAgent |-> w.byAgent,
           advanced |-> w.advanced, dirty |-> w.dirty]
  BY <1>3 DEF Added
<1>5. w.byTurn \in [DOMAIN w.byTurn -> Places] /\ w.byAgent \in [Agents -> Seq(Nat)]
  BY DEF Added
<1> QED
  BY <1>1, <1>2, <1>3, <1>4, <1>5 DEF ViewTypes

\* What Added does to the sequences, which had n and m elements.
AddedParts(v, w, key, n, m) ==
    /\ n \in Nat /\ m \in Nat /\ key[1] \in Agents
    /\ DOMAIN v.timeline = 1..n /\ DOMAIN w.timeline = 1..(n + 1)
    /\ w.timeline[n + 1] = NewTurn(key)
    /\ \A j \in 1..n : w.timeline[j] = v.timeline[j]
    /\ DOMAIN v.byAgent[key[1]] = 1..m /\ DOMAIN w.byAgent[key[1]] = 1..(m + 1)
    /\ Len(v.byAgent[key[1]]) = m /\ Len(w.byAgent[key[1]]) = m + 1
    /\ w.byAgent[key[1]][m + 1] = n + 1
    /\ \A i \in 1..m : w.byAgent[key[1]][i] = v.byAgent[key[1]][i]
    /\ w.byTurn[key].turn = n + 1 /\ w.byTurn[key].row = m + 1

LEMMA AddedElements ==
    ASSUME NEW v, NEW w, NEW key \in Keys, ViewTypes(v), Added(v, w, key)
    PROVE  \E n, m : AddedParts(v, w, key, n, m)
<1>a. PICK n : n = Len(v.timeline)
  OBVIOUS
<1>b. PICK m : m = Len(v.byAgent[key[1]])
  OBVIOUS
<1>1. v.timeline \in Seq(TurnSet) /\ w.timeline = Append(v.timeline, NewTurn(key))
  BY DEF ViewTypes, Added
<1>2. key[1] \in Agents
  BY DEF Keys
<1>3. PICK s : s = v.byAgent[key[1]]
  OBVIOUS
<1>4. s \in Seq(Nat) /\ w.byAgent[key[1]] = Append(s, n + 1) /\ m = Len(s)
  BY <1>2, <1>3, <1>a, <1>b DEF ViewTypes, Added
<1>5. /\ n \in Nat /\ DOMAIN v.timeline = 1..n /\ DOMAIN w.timeline = 1..(n + 1)
      /\ w.timeline[n + 1] = NewTurn(key)
      /\ \A j \in 1..n : w.timeline[j] = v.timeline[j]
  BY <1>1, <1>a
<1>6. PICK u : u = Append(s, n + 1)
  OBVIOUS
<1>7. /\ m \in Nat /\ DOMAIN s = 1..m /\ DOMAIN u = 1..(m + 1) /\ Len(u) = m + 1
      /\ u[m + 1] = n + 1
      /\ \A i \in 1..m : u[i] = s[i]
  BY <1>4, <1>5, <1>6
<1>8. w.byTurn[key].turn = n + 1 /\ w.byTurn[key].row = m + 1
  BY <1>a, <1>b DEF Added
<1>9. AddedParts(v, w, key, n, m)
  BY <1>2, <1>3, <1>4, <1>5, <1>6, <1>7, <1>8 DEF AddedParts
<1> QED
  BY <1>9

\* A new turn has an index of its own.
LEMMA AddedIsExact ==
    ASSUME NEW v, NEW w, NEW key \in Keys, key \notin DOMAIN v.byTurn,
           ViewTypes(v), Exact(v), Added(v, w, key)
    PROVE  Exact(w)
<1>1. PICK n, m : AddedParts(v, w, key, n, m)
  BY AddedElements
<1>3. /\ n \in Nat /\ m \in Nat /\ key[1] \in Agents
      /\ DOMAIN v.timeline = 1..n /\ DOMAIN w.timeline = 1..(n + 1)
      /\ w.timeline[n + 1] = NewTurn(key)
      /\ \A j \in 1..n : w.timeline[j] = v.timeline[j]
      /\ DOMAIN v.byAgent[key[1]] = 1..m /\ DOMAIN w.byAgent[key[1]] = 1..(m + 1)
      /\ Len(v.byAgent[key[1]]) = m /\ Len(w.byAgent[key[1]]) = m + 1
      /\ w.byAgent[key[1]][m + 1] = n + 1
      /\ \A i \in 1..m : w.byAgent[key[1]][i] = v.byAgent[key[1]][i]
      /\ w.byTurn[key].turn = n + 1 /\ w.byTurn[key].row = m + 1
  BY <1>1 DEF AddedParts
<1>4. /\ DOMAIN w.byTurn = DOMAIN v.byTurn \cup {key}
      /\ \A k \in DOMAIN v.byTurn : w.byTurn[k] = v.byTurn[k] /\ k # key
      /\ \A a \in Agents : a # key[1] => w.byAgent[a] = v.byAgent[a]
  BY DEF Added
<1>5. n + 1 \in 1..(n + 1) /\ m + 1 \in 1..(m + 1) /\ 1..n \subseteq 1..(n + 1)
      /\ 1..m \subseteq 1..(m + 1)
  BY <1>3
<1>6. NewTurn(key).key = key
  BY NewTurnIs
<1>7. ASSUME NEW j \in DOMAIN w.timeline PROVE TurnAt(w, j)
  <2>1. CASE j \in 1..n
    <3>1. TurnAt(v, j)
      BY <1>3, <2>1 DEF Exact
    <3> QED
      BY <1>3, <1>4, <2>1, <3>1 DEF TurnAt
  <2>2. CASE j = n + 1
    BY <1>3, <1>4, <1>6, <2>2 DEF TurnAt
  <2> QED
    BY <1>3, <2>1, <2>2
<1>8. ASSUME NEW k \in DOMAIN w.byTurn PROVE KeyAt(w, k)
  <2>1. CASE k = key
    BY <1>3, <1>5, <1>6, <2>1 DEF KeyAt
  <2>2. CASE k \in DOMAIN v.byTurn
    <3>1. KeyAt(v, k) /\ w.byTurn[k] = v.byTurn[k]
      BY <1>4, <2>2 DEF Exact
    <3>2. /\ w.byTurn[k].turn \in DOMAIN w.timeline
          /\ w.timeline[w.byTurn[k].turn].key = k
      BY <1>3, <1>5, <3>1 DEF KeyAt
    <3>3. CASE k[1] = key[1]
      BY <1>3, <1>5, <3>1, <3>2, <3>3 DEF KeyAt
    <3>4. CASE k[1] # key[1]
      <4>1. k[1] \in Agents
        BY <2>2 DEF ViewTypes, Keys
      <4>2. w.byAgent[k[1]] = v.byAgent[k[1]]
        BY <1>4, <3>4, <4>1
      <4> QED
        BY <3>1, <3>2, <4>2 DEF KeyAt
    <3> QED
      BY <3>3, <3>4
  <2> QED
    BY <1>4, <2>1, <2>2
<1>9. ASSUME NEW a \in Agents, NEW i \in DOMAIN w.byAgent[a] PROVE RowAt(w, a, i)
  <2>1. CASE a = key[1] /\ i = m + 1
    <3>1. w.byAgent[a][i] = n + 1 /\ w.timeline[n + 1].key = key
      BY <1>3, <1>6, <2>1
    <3> QED
      BY <1>3, <1>5, <2>1, <3>1 DEF RowAt
  <2>2. CASE ~(a = key[1] /\ i = m + 1)
    <3>1. i \in DOMAIN v.byAgent[a] /\ w.byAgent[a][i] = v.byAgent[a][i]
      <4>1. CASE a = key[1]
        <5>1. i \in 1..m
          BY <1>3, <2>2, <4>1
        <5> QED
          BY <1>3, <4>1, <5>1
      <4>2. CASE a # key[1]
        BY <1>4, <4>2
      <4> QED
        BY <4>1, <4>2
    <3>2. RowAt(v, a, i)
      BY <3>1 DEF Exact
    <3>3. PICK j : j = v.byAgent[a][i]
      OBVIOUS
    <3>4. /\ j \in 1..n /\ v.timeline[j].key[1] = a /\ v.byTurn[v.timeline[j].key].row = i
          /\ w.timeline[j] = v.timeline[j]
      BY <1>3, <3>2, <3>3 DEF RowAt
    <3>5. TurnAt(v, j)
      BY <1>3, <3>4 DEF Exact
    <3>6. w.byTurn[v.timeline[j].key] = v.byTurn[v.timeline[j].key]
      BY <1>4, <3>5 DEF TurnAt
    <3> QED
      BY <1>3, <1>5, <3>1, <3>3, <3>4, <3>6 DEF RowAt
  <2> QED
    BY <2>1, <2>2
<1>10. ASSUME NEW a \in Agents
       PROVE  Len(w.byAgent[a]) = Cardinality({k \in DOMAIN w.byTurn : k[1] = a})
  <2>1. PICK S : S = {k \in DOMAIN v.byTurn : k[1] = a}
    OBVIOUS
  <2>2. PICK T : T = {k \in DOMAIN w.byTurn : k[1] = a}
    OBVIOUS
  <2>3. IsFiniteSet(S) /\ Len(v.byAgent[a]) = Cardinality(S)
    <3>1. IsFiniteSet(DOMAIN v.byTurn) /\ S \in SUBSET (DOMAIN v.byTurn)
      BY <2>1 DEF ViewTypes
    <3> QED
      BY <2>1, <3>1, FS_Subset DEF Exact
  <2>4. CASE a = key[1]
    <3>1. T = S \cup {key} /\ key \notin S
      BY <1>4, <2>1, <2>2, <2>4
    <3>2. Cardinality(T) = Cardinality(S) + 1
      BY <2>3, <3>1, FS_AddElement
    <3> QED
      BY <1>3, <2>2, <2>3, <2>4, <3>2
  <2>5. CASE a # key[1]
    <3>1. T = S
      BY <1>4, <2>1, <2>2, <2>5
    <3> QED
      BY <1>4, <2>2, <2>3, <2>5, <3>1
  <2> QED
    BY <2>4, <2>5
<1> QED
  BY <1>7, <1>8, <1>9, <1>10 DEF Exact

LEMMA AddedIsOnce ==
    ASSUME NEW v, NEW w, NEW key \in Keys, key \notin DOMAIN v.byTurn,
           ViewTypes(v), Exact(v), Once(v), Added(v, w, key)
    PROVE  Once(w)
<1>1. PICK n, m : AddedParts(v, w, key, n, m)
  BY AddedElements
<1>2. /\ n \in Nat /\ DOMAIN v.timeline = 1..n
      /\ w.timeline[n + 1] = NewTurn(key) /\ w.byTurn[key].turn = n + 1
      /\ \A j \in 1..n : w.timeline[j] = v.timeline[j]
  BY <1>1 DEF AddedParts
<1>3. /\ DOMAIN w.byTurn = DOMAIN v.byTurn \cup {key} /\ w.advanced = v.advanced
      /\ \A k \in DOMAIN v.byTurn : w.byTurn[k] = v.byTurn[k]
  BY DEF Added
<1>4. ASSUME NEW k \in Keys PROVE IsOver(w, k) <=> IsOver(v, k)
  <2>1. CASE k \in DOMAIN v.byTurn
    <3>1. KeyAt(v, k)
      BY <2>1 DEF Exact
    <3>2. v.byTurn[k].turn \in 1..n
      BY <1>2, <3>1 DEF KeyAt
    <3>3. w.timeline[w.byTurn[k].turn] = v.timeline[v.byTurn[k].turn]
      BY <1>2, <1>3, <2>1, <3>2
    <3> QED
      BY <1>3, <2>1, <3>3 DEF IsOver
  <2>2. CASE k = key
    <3>1. PICK t : t = NewTurn(key) /\ t.status = "running"
      BY NewTurnIs
    <3>2. w.timeline[w.byTurn[k].turn].status = "running"
      BY <1>2, <2>2, <3>1
    <3>3. k \notin DOMAIN v.byTurn
      BY <2>2
    <3> QED
      BY <3>2, <3>3 DEF IsOver
  <2>3. CASE k \notin DOMAIN v.byTurn /\ k # key
    BY <1>3, <2>3 DEF IsOver
  <2> QED
    BY <2>1, <2>2, <2>3
<1> QED
  BY <1>3, <1>4 DEF Once

LEMMA AddedGrows ==
    ASSUME NEW o, NEW v, NEW w, NEW key \in Keys, ViewTypes(v), Added(v, w, key), Grows(o, v)
    PROVE  Grows(o, w)
<1>1. PICK n, m : AddedParts(v, w, key, n, m)
  BY AddedElements
<1>2. /\ n \in Nat /\ m \in Nat
      /\ DOMAIN v.timeline = 1..n /\ DOMAIN w.timeline = 1..(n + 1)
      /\ \A j \in 1..n : w.timeline[j] = v.timeline[j]
      /\ DOMAIN v.byAgent[key[1]] = 1..m /\ DOMAIN w.byAgent[key[1]] = 1..(m + 1)
      /\ \A i \in 1..m : w.byAgent[key[1]][i] = v.byAgent[key[1]][i]
  BY <1>1 DEF AddedParts
<1>6. 1..n \subseteq 1..(n + 1) /\ 1..m \subseteq 1..(m + 1)
  BY <1>2
<1>3. w.dirty = v.dirty /\ \A a \in Agents : a # key[1] => w.byAgent[a] = v.byAgent[a]
  BY DEF Added
<1>4. ASSUME NEW j \in DOMAIN o.timeline
      PROVE  /\ j \in DOMAIN w.timeline
             /\ w.timeline[j] # o.timeline[j] => w.timeline[j].key \in w.dirty
  <2>1. /\ j \in 1..n
        /\ v.timeline[j] # o.timeline[j] => v.timeline[j].key \in v.dirty
    BY <1>2 DEF Grows
  <2> QED
    BY <1>2, <1>3, <1>6, <2>1
<1>5. ASSUME NEW a \in Agents, NEW i \in DOMAIN o.byAgent[a]
      PROVE  i \in DOMAIN w.byAgent[a] /\ w.byAgent[a][i] = o.byAgent[a][i]
  <2>1. i \in DOMAIN v.byAgent[a] /\ v.byAgent[a][i] = o.byAgent[a][i]
    BY DEF Grows
  <2>2. CASE a = key[1]
    BY <1>2, <1>6, <2>1, <2>2
  <2>3. CASE a # key[1]
    BY <1>3, <2>1, <2>3
  <2> QED
    BY <2>2, <2>3
<1> QED
  BY <1>4, <1>5 DEF Grows

-----------------------------------------------------------------------------
TurnEvents == [kind : Kinds, key : Keys, n : Nat]

\* A completed or failed turn advances the queue if it was running.
Ends(w, event) ==
    event.kind \in Final /\ w.timeline[w.byTurn[event.key].turn].status = "running"

\* u is w after an event of a turn that w has.
Applies(w, u, event) ==
    /\ u = [timeline |-> u.timeline, byTurn |-> w.byTurn, byAgent |-> w.byAgent,
            advanced |-> u.advanced, dirty |-> w.dirty \cup {event.key}]
    /\ u.timeline = [w.timeline EXCEPT ![w.byTurn[event.key].turn] = Changed(@, event)]
    /\ u.advanced = [w.advanced EXCEPT ![event.key] = IF Ends(w, event) THEN @ + 1 ELSE @]

LEMMA ApplyIs ==
    ASSUME NEW v, ViewTypes(v), Exact(v), NEW event \in TurnEvents
    PROVE  \E w : /\ IF event.key \in DOMAIN v.byTurn THEN w = v ELSE Added(v, w, event.key)
                  /\ ViewTypes(w) /\ Exact(w) /\ event.key \in DOMAIN w.byTurn
                  /\ Applies(w, ApplyTimeline(v, event), event)
<1>1. PICK w : w = WithTurn(v, event.key)
  OBVIOUS
<1>2. event.key \in Keys
  BY DEF TurnEvents
<1>3. IF event.key \in DOMAIN v.byTurn THEN w = v ELSE Added(v, w, event.key)
  <2>1. CASE event.key \in DOMAIN v.byTurn
    BY <1>1, <2>1 DEF WithTurn
  <2>2. CASE event.key \notin DOMAIN v.byTurn
    BY <1>1, <1>2, <2>2, WithTurnAdds
  <2> QED
    BY <2>1, <2>2
<1>4. ViewTypes(w) /\ Exact(w) /\ event.key \in DOMAIN w.byTurn
  <2>1. CASE event.key \in DOMAIN v.byTurn
    BY <1>3, <2>1
  <2>2. CASE event.key \notin DOMAIN v.byTurn
    <3>1. Added(v, w, event.key)
      BY <1>3, <2>2
    <3>2. event.key \in DOMAIN w.byTurn
      BY <3>1 DEF Added
    <3> QED
      BY <1>2, <2>2, <3>1, <3>2, AddedTypes, AddedIsExact
  <2> QED
    BY <2>1, <2>2
<1>5. Advances(v, event) <=> Ends(w, event)
  <2>1. CASE event.key \in DOMAIN v.byTurn
    BY <1>3, <2>1 DEF Advances, Ends
  <2>2. CASE event.key \notin DOMAIN v.byTurn
    <3>1. Added(v, w, event.key)
      BY <1>3, <2>2
    <3>2. PICK n, m : AddedParts(v, w, event.key, n, m)
      BY <1>2, <3>1, AddedElements
    <3>3. w.timeline[w.byTurn[event.key].turn] = NewTurn(event.key)
      BY <3>2 DEF AddedParts
    <3>4. w.timeline[w.byTurn[event.key].turn].status = "running"
      BY <1>2, <3>3, NewTurnIs
    <3> QED
      BY <2>2, <3>4 DEF Advances, Ends
  <2> QED
    BY <2>1, <2>2
<1>6. PICK u : u = ApplyTimeline(v, event)
  OBVIOUS
<1>7. u = [w EXCEPT !.timeline[w.byTurn[event.key].turn] = Changed(@, event),
                    !.advanced[event.key] = IF Advances(v, event) THEN @ + 1 ELSE @,
                    !.dirty = @ \cup {event.key}]
  BY <1>1, <1>6 DEF ApplyTimeline
<1>8. w = [timeline |-> w.timeline, byTurn |-> w.byTurn, byAgent |-> w.byAgent,
           advanced |-> w.advanced, dirty |-> w.dirty]
  BY <1>4 DEF ViewTypes
<1>9. u = [timeline |-> [w.timeline EXCEPT ![w.byTurn[event.key].turn] = Changed(@, event)],
           byTurn |-> w.byTurn, byAgent |-> w.byAgent,
           advanced |-> [w.advanced EXCEPT ![event.key] =
                            IF Advances(v, event) THEN @ + 1 ELSE @],
           dirty |-> w.dirty \cup {event.key}]
  BY <1>7, <1>8
<1>10. Applies(w, u, event)
  <2>1. /\ u.timeline = [w.timeline EXCEPT ![w.byTurn[event.key].turn] = Changed(@, event)]
        /\ u.advanced = [w.advanced EXCEPT ![event.key] =
                            IF Advances(v, event) THEN @ + 1 ELSE @]
    BY <1>9
  <2>2. u.advanced = [w.advanced EXCEPT ![event.key] = IF Ends(w, event) THEN @ + 1 ELSE @]
    BY <1>5, <2>1
  <2>3. u = [timeline |-> u.timeline, byTurn |-> w.byTurn, byAgent |-> w.byAgent,
             advanced |-> u.advanced, dirty |-> w.dirty \cup {event.key}]
    BY <1>9
  <2> QED
    BY <2>1, <2>2, <2>3 DEF Applies
<1> QED
  BY <1>3, <1>4, <1>6, <1>10

LEMMA ChangedIs ==
    ASSUME NEW t \in TurnSet, NEW event \in TurnEvents
    PROVE  /\ Changed(t, event) \in TurnSet
           /\ Changed(t, event).key = t.key
           /\ Changed(t, event).status = IF event.kind \in Final THEN event.kind ELSE t.status
           /\ Changed(t, event).text = IF event.kind = "delta" THEN Append(t.text, event.n)
                                                               ELSE t.text
           /\ Changed(t, event).prompted =
                  IF event.kind = "started" /\ t.status = "running" THEN TRUE ELSE t.prompted
<1>1. event.kind \in {"started", "delta", "completed", "failed"} /\ event.n \in Nat
  BY DEF TurnEvents, Kinds
<1>2. t = [key |-> t.key, prompted |-> t.prompted, text |-> t.text, step |-> t.step,
           status |-> t.status]
      /\ t.text \in Seq(Nat) /\ t.prompted \in BOOLEAN
  BY DEF TurnSet
<1>3. CASE event.kind = "started"
  <2>1. Changed(t, event) = Started(t)
    BY <1>3 DEF Changed, Final
  <2>2. CASE t.status = "running"
    <3>1. Started(t) = [key |-> t.key, prompted |-> TRUE, text |-> t.text, step |-> t.step,
                        status |-> t.status]
      BY <1>2, <2>2 DEF Started
    <3>2. PICK u : u = Changed(t, event)
      OBVIOUS
    <3>3. u = [key |-> t.key, prompted |-> TRUE, text |-> t.text, step |-> t.step,
               status |-> t.status]
      BY <2>1, <3>1, <3>2
    <3>4. u \in TurnSet
      BY <3>3 DEF TurnSet
    <3> QED
      BY <1>3, <2>2, <3>2, <3>3, <3>4 DEF Final
  <2>3. CASE t.status # "running"
    <3>1. Started(t) = t
      BY <2>3 DEF Started
    <3> QED
      BY <1>2, <1>3, <2>1, <2>3, <3>1 DEF Final
  <2> QED
    BY <2>2, <2>3
<1>4. CASE event.kind = "delta"
  <2>1. Changed(t, event) = [key |-> t.key, prompted |-> t.prompted,
                             text |-> Append(t.text, event.n), step |-> "running",
                             status |-> t.status]
    BY <1>2, <1>4 DEF Changed, Final
  <2>2. Append(t.text, event.n) \in Seq(Nat)
    BY <1>1, <1>2
  <2> QED
    BY <1>4, <2>1, <2>2 DEF TurnSet, Final
<1>5. CASE event.kind \in Final
  <2>1. Changed(t, event) = [key |-> t.key, prompted |-> t.prompted, text |-> t.text,
                             step |-> IF t.step = "running" THEN event.kind ELSE t.step,
                             status |-> event.kind]
    BY <1>2, <1>5 DEF Changed, Completed, Final
  <2>2. PICK u : u = Changed(t, event)
    OBVIOUS
  <2>3. u = [key |-> t.key, prompted |-> t.prompted, text |-> t.text,
             step |-> IF t.step = "running" THEN event.kind ELSE t.step,
             status |-> event.kind]
    BY <2>1, <2>2
  <2>4. u \in TurnSet
    BY <1>5, <2>3 DEF TurnSet
  <2>5. event.kind # "delta" /\ event.kind # "started"
    BY <1>5 DEF Final
  <2>6. u.key = t.key /\ u.status = event.kind /\ u.text = t.text /\ u.prompted = t.prompted
    BY <2>3
  <2> QED
    BY <1>5, <2>2, <2>4, <2>5, <2>6
<1> QED
  BY <1>1, <1>3, <1>4, <1>5 DEF Final

\* What Applies does to the turns: the one at place t becomes c.
AppliedParts(w, u, event, t, c) ==
    /\ t = w.byTurn[event.key].turn /\ t \in DOMAIN w.timeline
    /\ w.timeline[t] \in TurnSet /\ w.timeline[t].key = event.key
    /\ c = Changed(w.timeline[t], event)
    /\ c \in TurnSet /\ c.key = event.key
    /\ c.status = IF event.kind \in Final THEN event.kind ELSE w.timeline[t].status
    /\ DOMAIN u.timeline = DOMAIN w.timeline /\ u.timeline[t] = c
    /\ \A j \in DOMAIN w.timeline : j # t => u.timeline[j] = w.timeline[j]
    /\ u.byTurn = w.byTurn /\ u.byAgent = w.byAgent /\ u.dirty = w.dirty \cup {event.key}

LEMMA AppliedElements ==
    ASSUME NEW w, NEW u, NEW event \in TurnEvents, ViewTypes(w), Exact(w),
           event.key \in DOMAIN w.byTurn, Applies(w, u, event)
    PROVE  (\E t, c : AppliedParts(w, u, event, t, c)) /\ u.timeline \in Seq(TurnSet)
<1>1. PICK t : t = w.byTurn[event.key].turn
  OBVIOUS
<1>2. PICK s \in Seq(TurnSet) : s = w.timeline
  BY DEF ViewTypes
<1>3. KeyAt(w, event.key)
  BY DEF Exact
<1>4. t \in DOMAIN s /\ s[t] \in TurnSet /\ s[t].key = event.key
  BY <1>1, <1>2, <1>3 DEF KeyAt
<1>5. PICK c : c = Changed(s[t], event)
  OBVIOUS
<1>6. /\ c \in TurnSet /\ c.key = event.key
      /\ c.status = IF event.kind \in Final THEN event.kind ELSE s[t].status
  BY <1>4, <1>5, ChangedIs
<1>7. u.timeline = [s EXCEPT ![t] = c]
  BY <1>1, <1>2, <1>5 DEF Applies
<1>8. /\ u.timeline \in Seq(TurnSet) /\ DOMAIN u.timeline = DOMAIN s /\ u.timeline[t] = c
      /\ \A j \in DOMAIN s : j # t => u.timeline[j] = s[j]
  BY <1>4, <1>6, <1>7
<1>9. u.byTurn = w.byTurn /\ u.byAgent = w.byAgent /\ u.dirty = w.dirty \cup {event.key}
  BY DEF Applies
<1>10. AppliedParts(w, u, event, t, c)
  BY <1>1, <1>2, <1>4, <1>5, <1>6, <1>8, <1>9 DEF AppliedParts
<1> QED
  BY <1>8, <1>10

LEMMA AppliedTypes ==
    ASSUME NEW w, NEW u, NEW event \in TurnEvents, ViewTypes(w), Exact(w),
           event.key \in DOMAIN w.byTurn, Applies(w, u, event)
    PROVE  ViewTypes(u)
<1>1. u.timeline \in Seq(TurnSet)
  BY AppliedElements
<1>2. event.key \in Keys
  BY DEF TurnEvents
<1>3. u.advanced \in [Keys -> Nat]
  <2>1. w.advanced \in [Keys -> Nat]
    BY DEF ViewTypes
  <2>2. u.advanced = [w.advanced EXCEPT ![event.key] =
                         IF Ends(w, event) THEN w.advanced[event.key] + 1
                         ELSE w.advanced[event.key]]
    BY DEF Applies
  <2>3. (IF Ends(w, event) THEN w.advanced[event.key] + 1 ELSE w.advanced[event.key]) \in Nat
    BY <1>2, <2>1
  <2> QED
    BY <1>2, <2>1, <2>2, <2>3
<1>4. /\ u.byTurn = w.byTurn /\ u.byAgent = w.byAgent /\ u.dirty = w.dirty \cup {event.key}
      /\ u = [timeline |-> u.timeline, byTurn |-> w.byTurn, byAgent |-> w.byAgent,
              advanced |-> u.advanced, dirty |-> w.dirty \cup {event.key}]
  BY DEF Applies
<1>5. u = [timeline |-> u.timeline, byTurn |-> u.byTurn, byAgent |-> u.byAgent,
           advanced |-> u.advanced, dirty |-> u.dirty]
  BY <1>4
<1> QED
  BY <1>1, <1>2, <1>3, <1>4, <1>5 DEF ViewTypes

LEMMA AppliedIsExact ==
    ASSUME NEW w, NEW u, NEW event \in TurnEvents, ViewTypes(w), Exact(w),
           event.key \in DOMAIN w.byTurn, Applies(w, u, event)
    PROVE  Exact(u)
<1>1. PICK t, c : AppliedParts(w, u, event, t, c)
  BY AppliedElements
<1>2. /\ DOMAIN u.timeline = DOMAIN w.timeline
      /\ u.byTurn = w.byTurn /\ u.byAgent = w.byAgent
      /\ \A j \in DOMAIN w.timeline : u.timeline[j].key = w.timeline[j].key
  BY <1>1 DEF AppliedParts
<1>3. ASSUME NEW j \in DOMAIN u.timeline PROVE TurnAt(u, j)
  <2>1. TurnAt(w, j)
    BY <1>2 DEF Exact
  <2> QED
    BY <1>2, <2>1 DEF TurnAt
<1>4. ASSUME NEW k \in DOMAIN u.byTurn PROVE KeyAt(u, k)
  <2>1. KeyAt(w, k)
    BY <1>2 DEF Exact
  <2> QED
    BY <1>2, <2>1 DEF KeyAt
<1>5. ASSUME NEW a \in Agents, NEW i \in DOMAIN u.byAgent[a] PROVE RowAt(u, a, i)
  <2>1. RowAt(w, a, i)
    BY <1>2 DEF Exact
  <2> QED
    BY <1>2, <2>1 DEF RowAt
<1>6. \A a \in Agents :
          Len(u.byAgent[a]) = Cardinality({k \in DOMAIN u.byTurn : k[1] = a})
  BY <1>2 DEF Exact
<1> QED
  BY <1>3, <1>4, <1>5, <1>6 DEF Exact

LEMMA AppliedIsOnce ==
    ASSUME NEW w, NEW u, NEW event \in TurnEvents, ViewTypes(w), Exact(w), Once(w),
           event.key \in DOMAIN w.byTurn, Applies(w, u, event)
    PROVE  Once(u)
<1>1. PICK t, c : AppliedParts(w, u, event, t, c)
  BY AppliedElements
<1>2. event.key \in Keys
  BY DEF TurnEvents
<1>3. /\ w.advanced \in [Keys -> Nat]
      /\ u.advanced = [w.advanced EXCEPT ![event.key] = IF Ends(w, event) THEN @ + 1 ELSE @]
  BY DEF ViewTypes, Applies
<1>4. ASSUME NEW k \in Keys PROVE u.advanced[k] = IF IsOver(u, k) THEN 1 ELSE 0
  <2>1. w.advanced[k] = IF IsOver(w, k) THEN 1 ELSE 0
    BY DEF Once
  <2>2. CASE k = event.key
    <3>1. IsOver(w, k) <=> w.timeline[t].status # "running"
      BY <1>1, <2>2 DEF IsOver, AppliedParts
    <3>2. IsOver(u, k) <=> c.status # "running"
      BY <1>1, <2>2 DEF IsOver, AppliedParts
    <3>3. c.status = IF event.kind \in Final THEN event.kind ELSE w.timeline[t].status
      BY <1>1 DEF AppliedParts
    <3>4. Ends(w, event) <=> event.kind \in Final /\ w.timeline[t].status = "running"
      BY <1>1 DEF Ends, AppliedParts
    <3>5. u.advanced[k] = IF Ends(w, event) THEN w.advanced[k] + 1 ELSE w.advanced[k]
      BY <1>2, <1>3, <2>2
    <3>6. IsOver(u, k) <=> IsOver(w, k) \/ Ends(w, event)
      BY <3>1, <3>2, <3>3, <3>4 DEF Final
    <3>7. ~(IsOver(w, k) /\ Ends(w, event))
      BY <3>1, <3>4
    <3> QED
      BY <2>1, <3>5, <3>6, <3>7
  <2>3. CASE k # event.key
    <3>1. u.advanced[k] = w.advanced[k]
      BY <1>2, <1>3, <2>3
    <3>2. IsOver(u, k) <=> IsOver(w, k)
      <4>1. CASE k \in DOMAIN w.byTurn
        <5>1. KeyAt(w, k) /\ KeyAt(w, event.key)
          BY <4>1 DEF Exact
        <5>2. w.byTurn[k].turn # t /\ w.byTurn[k].turn \in DOMAIN w.timeline
          BY <1>1, <2>3, <5>1 DEF KeyAt, AppliedParts
        <5>3. u.timeline[u.byTurn[k].turn] = w.timeline[w.byTurn[k].turn] /\ u.byTurn = w.byTurn
          BY <1>1, <5>2 DEF AppliedParts
        <5> QED
          BY <5>3 DEF IsOver
      <4>2. CASE k \notin DOMAIN w.byTurn
        BY <1>1, <4>2 DEF IsOver, AppliedParts
      <4> QED
        BY <4>1, <4>2
    <3> QED
      BY <2>1, <3>1, <3>2
  <2> QED
    BY <2>2, <2>3
<1> QED
  BY <1>4 DEF Once

LEMMA AppliedGrows ==
    ASSUME NEW o, NEW w, NEW u, NEW event \in TurnEvents, ViewTypes(w), Exact(w),
           event.key \in DOMAIN w.byTurn, Applies(w, u, event), Grows(o, w)
    PROVE  Grows(o, u)
<1>1. PICK t, c : AppliedParts(w, u, event, t, c)
  BY AppliedElements
<1>2. ASSUME NEW j \in DOMAIN o.timeline
      PROVE  /\ j \in DOMAIN u.timeline
             /\ u.timeline[j] # o.timeline[j] => u.timeline[j].key \in u.dirty
  <2>1. /\ j \in DOMAIN w.timeline
        /\ w.timeline[j] # o.timeline[j] => w.timeline[j].key \in w.dirty
    BY DEF Grows
  <2>2. CASE j = t
    BY <1>1, <2>1, <2>2 DEF AppliedParts
  <2>3. CASE j # t
    BY <1>1, <2>1, <2>3 DEF AppliedParts
  <2> QED
    BY <2>2, <2>3
<1>3. ASSUME NEW a \in Agents, NEW i \in DOMAIN o.byAgent[a]
      PROVE  i \in DOMAIN u.byAgent[a] /\ u.byAgent[a][i] = o.byAgent[a][i]
  BY <1>1 DEF Grows, AppliedParts
<1> QED
  BY <1>2, <1>3 DEF Grows

\* What a view keeps from one event of a batch to the next.
Follows(o, v) == ViewTypes(v) /\ Exact(v) /\ Once(v) /\ Grows(o, v)

LEMMA ApplyFollows ==
    ASSUME NEW o, NEW v, Follows(o, v), NEW event \in TurnEvents
    PROVE  Follows(o, ApplyTimeline(v, event))
<1>1. ViewTypes(v) /\ Exact(v) /\ Once(v) /\ Grows(o, v) /\ event.key \in Keys
  BY DEF Follows, TurnEvents
<1>2. PICK w : /\ IF event.key \in DOMAIN v.byTurn THEN w = v ELSE Added(v, w, event.key)
               /\ ViewTypes(w) /\ Exact(w) /\ event.key \in DOMAIN w.byTurn
               /\ Applies(w, ApplyTimeline(v, event), event)
  BY <1>1, ApplyIs
<1>3. Once(w) /\ Grows(o, w)
  <2>1. CASE event.key \in DOMAIN v.byTurn
    BY <1>1, <1>2, <2>1
  <2>2. CASE event.key \notin DOMAIN v.byTurn
    BY <1>1, <1>2, <2>2, AddedIsOnce, AddedGrows
  <2> QED
    BY <2>1, <2>2
<1>4. PICK u : u = ApplyTimeline(v, event)
  OBVIOUS
<1>5. ViewTypes(u) /\ Exact(u) /\ Once(u) /\ Grows(o, u)
  BY <1>2, <1>3, <1>4, AppliedTypes, AppliedIsExact, AppliedIsOnce, AppliedGrows
<1> QED
  BY <1>4, <1>5 DEF Follows

-----------------------------------------------------------------------------
(* What the turns show of the first m events of a log.                      *)

\* One more event of the turn.
LEMMA ChangedShows ==
    ASSUME NEW log, NEW m \in Nat, NEW I \in SUBSET (1..m), NEW c \in TurnSet,
           NEW event \in TurnEvents, event = log[m + 1], event.n = m + 1,
           TurnShows(c, log, I)
    PROVE  TurnShows(Changed(c, event), log, I \cup {m + 1})
<1>1. PICK u : u = Changed(c, event)
  OBVIOUS
<1>2. /\ u \in TurnSet
      /\ u.status = IF event.kind \in Final THEN event.kind ELSE c.status
      /\ u.text = IF event.kind = "delta" THEN Append(c.text, event.n) ELSE c.text
      /\ u.prompted = IF event.kind = "started" /\ c.status = "running" THEN TRUE
                      ELSE c.prompted
  BY <1>1, ChangedIs
<1>3. PICK n : n = m + 1
  OBVIOUS
<1>4. n \in Nat /\ n \notin I /\ \A i \in I : i \in Nat /\ i < n
  BY <1>3
<1>5. log[n] = event /\ event.n = n
  BY <1>3
<1>6. PICK J : J = I \cup {n}
  OBVIOUS
<1>7. PICK E : E = EndsIn(log, I)
  OBVIOUS
<1>8. PICK F : F = EndsIn(log, J)
  OBVIOUS
<1>9. F = IF event.kind \in Final THEN E \cup {n} ELSE E
  BY <1>5, <1>6, <1>7, <1>8 DEF EndsIn
<1>10. E \in SUBSET I /\ E \in SUBSET (1..m)
  BY <1>7 DEF EndsIn
<1>11. event.kind \in {"started", "delta", "completed", "failed"}
  BY DEF TurnEvents, Kinds
<1>12. /\ ToSet(c.text) = {i \in I : IsDelta(log[i])}
       /\ \A p, q \in DOMAIN c.text : p < q => c.text[p] < c.text[q]
       /\ c.status = IF E = {} THEN "running" ELSE log[Max(E)].kind
       /\ c.prompted <=> \E i \in I : log[i].kind = "started" /\ \A e \in E : i < e
  BY <1>7 DEF TurnShows
<1>13. c.text \in Seq(Nat)
  BY DEF TurnSet
<1>14. ToSet(u.text) = {i \in J : IsDelta(log[i])}
       /\ \A p, q \in DOMAIN u.text : p < q => u.text[p] < u.text[q]
  <2>1. CASE event.kind = "delta"
    <3>1. PICK s \in Seq(Nat) : s = c.text
      BY <1>13
    <3>2. PICK r : r = u.text
      OBVIOUS
    <3>3. r = Append(s, n)
      BY <1>2, <1>5, <2>1, <3>1, <3>2
    <3>4. PICK l \in Nat : l = Len(s)
      BY <3>1
    <3>5. /\ DOMAIN s = 1..l /\ DOMAIN r = 1..(l + 1) /\ r[l + 1] = n
          /\ \A p \in 1..l : r[p] = s[p]
      BY <1>4, <3>3, <3>4
    <3>6. \A p \in 1..l : s[p] \in I
      <4>1. \A p \in DOMAIN s : s[p] \in ToSet(s)
        BY DEF ToSet
      <4> QED
        BY <1>12, <3>1, <3>5, <4>1
    <3>7. ToSet(r) = ToSet(s) \cup {n}
      <4>1. ToSet(r) = {r[p] : p \in 1..(l + 1)} /\ ToSet(s) = {s[p] : p \in 1..l}
        BY <3>5 DEF ToSet
      <4>2. 1..(l + 1) = (1..l) \cup {l + 1}
        BY <3>4
      <4> QED
        BY <3>5, <4>1, <4>2
    <3>8. {i \in J : IsDelta(log[i])} = {i \in I : IsDelta(log[i])} \cup {n}
      BY <1>5, <1>6, <2>1 DEF IsDelta
    <3>9. ToSet(u.text) = {i \in J : IsDelta(log[i])}
      BY <1>12, <3>1, <3>2, <3>7, <3>8
    <3>10. ASSUME NEW p \in DOMAIN r, NEW q \in DOMAIN r, p < q PROVE r[p] < r[q]
      <4>1. p \in 1..l
        BY <3>4, <3>5, <3>10
      <4>2. CASE q \in 1..l
        <5>1. s[p] < s[q]
          BY <1>12, <3>1, <3>5, <3>10, <4>1, <4>2
        <5> QED
          BY <3>5, <4>1, <4>2, <5>1
      <4>3. CASE q = l + 1
        <5>1. s[p] \in I
          BY <3>6, <4>1
        <5>2. r[p] = s[p] /\ r[q] = n
          BY <3>5, <4>1, <4>3
        <5>3. s[p] < n
          BY <1>4, <5>1
        <5> QED
          BY <5>2, <5>3
      <4> QED
        BY <3>4, <3>5, <4>2, <4>3
    <3> QED
      BY <3>2, <3>9, <3>10
  <2>2. CASE event.kind # "delta"
    <3>1. {i \in J : IsDelta(log[i])} = {i \in I : IsDelta(log[i])} /\ u.text = c.text
      BY <1>2, <1>5, <1>6, <2>2 DEF IsDelta
    <3> QED
      BY <1>12, <3>1
  <2> QED
    BY <2>1, <2>2
<1>15. u.status = IF F = {} THEN "running" ELSE log[Max(F)].kind
  <2>1. CASE event.kind \in Final
    <3>1. F = E \cup {n} /\ F # {} /\ F \in SUBSET (1..n)
      BY <1>3, <1>4, <1>9, <1>10, <2>1
    <3>2. PICK x : x = Max(F)
      OBVIOUS
    <3>3. x \in F /\ n <= x
      BY <1>4, <3>1, <3>2, MaxIs
    <3>4. x \in 1..n
      BY <3>1, <3>3
    <3>5. x = n
      BY <1>4, <3>3, <3>4
    <3> QED
      BY <1>2, <1>5, <2>1, <3>1, <3>2, <3>5
  <2>2. CASE event.kind \notin Final
    <3>1. F = E /\ u.status = c.status
      BY <1>2, <1>9, <2>2
    <3> QED
      BY <1>12, <3>1
  <2> QED
    BY <2>1, <2>2
<1>16. u.prompted <=> \E i \in J : log[i].kind = "started" /\ \A e \in F : i < e
  <2>0. /\ \A i \in J : i \in I \/ i = n
        /\ \A i \in I : i \in J
        /\ n \in J
    BY <1>6
  <2>1. CASE event.kind = "started"
    <3>1. F = E
      BY <1>9, <2>1 DEF Final
    <3>2. CASE E = {}
      <4>1. u.prompted = TRUE
        BY <1>2, <1>12, <2>1, <3>2
      <4>2. \E i \in J : log[i].kind = "started" /\ \A e \in F : i < e
        BY <1>5, <2>0, <2>1, <3>1, <3>2
      <4> QED
        BY <4>1, <4>2
    <3>3. CASE E # {}
      <4>1. PICK x : x = Max(E)
        OBVIOUS
      <4>2. x \in E
        BY <1>10, <3>3, <4>1, MaxIs
      <4>3. c.status # "running"
        <5>1. log[x].kind \in Final
          BY <1>7, <4>2 DEF EndsIn
        <5> QED
          BY <1>12, <3>3, <4>1, <5>1 DEF Final
      <4>4. u.prompted = c.prompted
        BY <1>2, <4>3
      <4>5. ~(n < x) /\ x \in F
        BY <1>4, <1>10, <3>1, <4>2
      <4>6. (\E i \in J : log[i].kind = "started" /\ \A e \in F : i < e)
            <=> (\E i \in I : log[i].kind = "started" /\ \A e \in E : i < e)
        BY <2>0, <3>1, <4>5
      <4> QED
        BY <1>12, <4>4, <4>6
    <3> QED
      BY <3>2, <3>3
  <2>2. CASE event.kind # "started"
    <3>1. u.prompted = c.prompted
      BY <1>2, <2>2
    <3>2. log[n].kind # "started"
      BY <1>5, <2>2
    <3>3. \A i \in I : (\A e \in F : i < e) <=> (\A e \in E : i < e)
      BY <1>4, <1>9
    <3>4. (\E i \in J : log[i].kind = "started" /\ \A e \in F : i < e)
          <=> (\E i \in I : log[i].kind = "started" /\ \A e \in E : i < e)
      BY <2>0, <3>2, <3>3
    <3> QED
      BY <1>12, <3>1, <3>4
  <2> QED
    BY <2>1, <2>2
<1>17. TurnShows(u, log, J)
  BY <1>8, <1>14, <1>15, <1>16 DEF TurnShows
<1> QED
  BY <1>1, <1>3, <1>6, <1>17

\* A turn that has just been created shows that it had no events.
LEMMA NewTurnShows ==
    ASSUME NEW key \in Keys, NEW log
    PROVE  TurnShows(NewTurn(key), log, {})
<1>1. PICK c : /\ c = NewTurn(key)
               /\ c.text = <<>> /\ c.status = "running" /\ c.prompted = FALSE
  BY NewTurnIs
<1>2. EndsIn(log, {}) = {}
  BY DEF EndsIn
<1>3. ToSet(c.text) = {} /\ DOMAIN c.text = {}
  BY <1>1 DEF ToSet
<1>4. TurnShows(c, log, {})
  BY <1>1, <1>2, <1>3 DEF TurnShows
<1> QED
  BY <1>1, <1>4

LEMMA NextEvent ==
    ASSUME NEW log, NEW m \in Nat, log[m + 1] # Reset
    PROVE  /\ SinceReset(log, m) \in SUBSET (1..m)
           /\ SinceReset(log, m + 1) = SinceReset(log, m) \cup {m + 1}
<1>1. ASSUME NEW i \in 1..m
      PROVE  i \in 1..(m + 1) /\ (i..(m + 1)) = (i..m) \cup {m + 1}
  OBVIOUS
<1>2. m + 1 \in 1..(m + 1) /\ (m + 1)..(m + 1) = {m + 1} /\ 1..(m + 1) = (1..m) \cup {m + 1}
  OBVIOUS
<1>3. ASSUME NEW i \in 1..m
      PROVE  (\A j \in i..(m + 1) : log[j] # Reset) <=> (\A j \in i..m : log[j] # Reset)
  BY <1>1
<1>4. \A j \in (m + 1)..(m + 1) : log[j] # Reset
  BY <1>2
<1>5. ASSUME NEW i PROVE i \in SinceReset(log, m + 1) <=> i \in SinceReset(log, m) \cup {m + 1}
  <2>1. CASE i \in 1..m
    <3>1. i # m + 1 /\ i \in 1..(m + 1)
      BY <2>1
    <3> QED
      BY <1>3, <2>1, <3>1 DEF SinceReset
  <2>2. CASE i = m + 1
    BY <1>2, <1>4, <2>2 DEF SinceReset
  <2>3. CASE i \notin 1..m /\ i # m + 1
    BY <1>2, <2>3 DEF SinceReset
  <2> QED
    BY <2>1, <2>2, <2>3
<1>6. SinceReset(log, m) \in SUBSET (1..m)
  BY DEF SinceReset
<1>7. SinceReset(log, m + 1) = SinceReset(log, m) \cup {m + 1}
  BY <1>5
<1> QED
  BY <1>6, <1>7

LEMMA ApplyShows ==
    ASSUME NEW v, ViewTypes(v), Exact(v), NEW log, NEW m \in Nat, ShowsLog(v, log, m),
           NEW event \in TurnEvents, event = log[m + 1], event # Reset, event.n = m + 1
    PROVE  ShowsLog(ApplyTimeline(v, event), log, m + 1)
<1>1. PICK key \in Keys : key = event.key
  BY DEF TurnEvents
<1>2. PICK w : /\ IF event.key \in DOMAIN v.byTurn THEN w = v ELSE Added(v, w, event.key)
               /\ ViewTypes(w) /\ Exact(w) /\ event.key \in DOMAIN w.byTurn
               /\ Applies(w, ApplyTimeline(v, event), event)
  BY ApplyIs
<1>3. PICK u : u = ApplyTimeline(v, event)
  OBVIOUS
<1>4. PICK t, c : AppliedParts(w, u, event, t, c)
  BY <1>2, <1>3, AppliedElements
<1>5. /\ t = w.byTurn[key].turn /\ w.timeline[t] \in TurnSet
      /\ c = Changed(w.timeline[t], event)
      /\ u.timeline[t] = c /\ u.byTurn = w.byTurn
      /\ \A j \in DOMAIN w.timeline : j # t => u.timeline[j] = w.timeline[j]
  BY <1>1, <1>4 DEF AppliedParts
<1>6. /\ SinceReset(log, m) \in SUBSET (1..m)
      /\ SinceReset(log, m + 1) = SinceReset(log, m) \cup {m + 1}
  BY NextEvent
<1>7. EventsOf(log, m + 1, key) = EventsOf(log, m, key) \cup {m + 1}
      /\ EventsOf(log, m, key) \in SUBSET (1..m)
  BY <1>1, <1>6 DEF EventsOf
<1>8. \A k \in Keys : k # key => EventsOf(log, m + 1, k) = EventsOf(log, m, k)
  BY <1>1, <1>6 DEF EventsOf
<1>9. TurnShows(w.timeline[t], log, EventsOf(log, m, key))
  <2>1. ShowsKey(v, log, m, key)
    BY DEF ShowsLog
  <2>2. CASE key \in DOMAIN v.byTurn
    <3>1. w = v /\ EventsOf(log, m, key) # {}
      BY <1>1, <1>2, <2>1, <2>2 DEF ShowsKey
    <3> QED
      BY <1>5, <2>1, <3>1 DEF ShowsKey
  <2>3. CASE key \notin DOMAIN v.byTurn
    <3>1. Added(v, w, key) /\ EventsOf(log, m, key) = {}
      BY <1>1, <1>2, <2>1, <2>3 DEF ShowsKey
    <3>2. PICK n, l : AddedParts(v, w, key, n, l)
      BY <3>1, AddedElements
    <3>3. w.timeline[t] = NewTurn(key)
      BY <1>5, <3>2 DEF AddedParts
    <3> QED
      BY <3>1, <3>3, NewTurnShows
  <2> QED
    BY <2>2, <2>3
<1>10. ShowsKey(u, log, m + 1, key)
  <2>1. TurnShows(c, log, EventsOf(log, m + 1, key))
    <3>1. PICK I : I = EventsOf(log, m, key)
      OBVIOUS
    <3>2. PICK x \in TurnSet : x = w.timeline[t]
      BY <1>5
    <3>3. I \in SUBSET (1..m) /\ TurnShows(x, log, I)
      BY <1>7, <1>9, <3>1, <3>2
    <3>4. TurnShows(Changed(x, event), log, I \cup {m + 1})
      BY <3>3, ChangedShows
    <3> QED
      BY <1>5, <1>7, <3>1, <3>2, <3>4
  <2>2. EventsOf(log, m + 1, key) # {}
    BY <1>7
  <2> QED
    BY <1>1, <1>2, <1>5, <2>1, <2>2 DEF ShowsKey
<1>11. ASSUME NEW k \in Keys, k # key PROVE ShowsKey(u, log, m + 1, k)
  <2>1. ShowsKey(v, log, m, k)
    BY DEF ShowsLog
  <2>2. k \in DOMAIN w.byTurn <=> k \in DOMAIN v.byTurn
    BY <1>1, <1>2, <1>11 DEF Added
  <2>3. ASSUME k \in DOMAIN v.byTurn
        PROVE  w.timeline[w.byTurn[k].turn] = v.timeline[v.byTurn[k].turn]
               /\ w.byTurn[k].turn \in DOMAIN w.timeline /\ w.byTurn[k].turn # t
    <3>1. KeyAt(v, k)
      BY <2>3 DEF Exact
    <3>2. KeyAt(w, k) /\ KeyAt(w, key)
      BY <1>1, <1>2, <2>2, <2>3 DEF Exact
    <3>3. w.byTurn[k].turn \in DOMAIN w.timeline /\ w.byTurn[k].turn # t
      BY <1>5, <1>11, <3>2 DEF KeyAt
    <3>4. CASE key \in DOMAIN v.byTurn
      BY <1>1, <1>2, <3>3, <3>4
    <3>5. CASE key \notin DOMAIN v.byTurn
      <4>1. Added(v, w, key)
        BY <1>1, <1>2, <3>5
      <4>2. PICK n, l : AddedParts(v, w, key, n, l)
        BY <4>1, AddedElements
      <4>3. w.byTurn[k] = v.byTurn[k]
        BY <2>3, <4>1 DEF Added
      <4>4. v.byTurn[k].turn \in DOMAIN v.timeline
        BY <3>1 DEF KeyAt
      <4>5. w.timeline[v.byTurn[k].turn] = v.timeline[v.byTurn[k].turn]
        BY <4>2, <4>4 DEF AddedParts
      <4> QED
        BY <3>3, <4>3, <4>5
    <3> QED
      BY <3>4, <3>5
  <2>4. CASE k \in DOMAIN v.byTurn
    <3>1. u.timeline[u.byTurn[k].turn] = v.timeline[v.byTurn[k].turn]
      BY <1>5, <2>3, <2>4
    <3>2. EventsOf(log, m, k) # {} /\ TurnShows(v.timeline[v.byTurn[k].turn], log, EventsOf(log, m, k))
      BY <2>1, <2>4 DEF ShowsKey
    <3>3. EventsOf(log, m + 1, k) = EventsOf(log, m, k)
      BY <1>8, <1>11
    <3>4. k \in DOMAIN u.byTurn
      BY <1>5, <2>2, <2>4
    <3> QED
      BY <3>1, <3>2, <3>3, <3>4 DEF ShowsKey
  <2>5. CASE k \notin DOMAIN v.byTurn
    <3>1. EventsOf(log, m, k) = {}
      BY <2>1, <2>5 DEF ShowsKey
    <3>2. EventsOf(log, m + 1, k) = EventsOf(log, m, k)
      BY <1>8, <1>11
    <3> QED
      BY <1>5, <2>2, <2>5, <3>1, <3>2 DEF ShowsKey
  <2> QED
    BY <2>4, <2>5
<1>12. ShowsLog(u, log, m + 1)
  BY <1>10, <1>11 DEF ShowsLog
<1> QED
  BY <1>3, <1>12

\* The sequence s goes on with the log where the first d events of it end.
GoesOn(s, log, d) ==
    \A i \in DOMAIN s : s[i] = log[d + i] /\ s[i] # Reset /\ s[i].n = d + i

\* A whole batch.
LEMMA BatchFollows ==
    ASSUME NEW o, Follows(o, o), NEW log, NEW d \in Nat, ShowsLog(o, log, d),
           NEW s \in Seq(TurnEvents), GoesOn(s, log, d)
    PROVE  /\ Follows(o, FoldLeft(ApplyTimeline, o, s))
           /\ ShowsLog(FoldLeft(ApplyTimeline, o, s), log, d + Len(s))
<1>1. PICK l \in Nat : l = Len(s)
  OBVIOUS
<1>2. DOMAIN s = 1..l /\ \A i \in 1..l : s[i] \in TurnEvents
  BY <1>1
<1>3. PICK T : T = {n \in Nat : n <= l => /\ Follows(o, FoldTo(o, s, n))
                                          /\ ShowsLog(FoldTo(o, s, n), log, d + n)}
  OBVIOUS
<1>4. 0 \in T
  <2>1. FoldTo(o, s, 0) = o /\ d + 0 = d
    BY FoldSteps
  <2> QED
    BY <1>3, <2>1
<1>5. ASSUME NEW n \in T PROVE n + 1 \in T
  <2>1. n \in Nat
    BY <1>3
  <2> SUFFICES ASSUME n + 1 <= l
               PROVE  /\ Follows(o, FoldTo(o, s, n + 1))
                      /\ ShowsLog(FoldTo(o, s, n + 1), log, d + (n + 1))
    BY <1>3, <2>1
  <2>2. PICK v : v = FoldTo(o, s, n)
    OBVIOUS
  <2>3. Follows(o, v) /\ ShowsLog(v, log, d + n)
    BY <1>1, <1>3, <2>1, <2>2
  <2>4. PICK event \in TurnEvents : event = s[n + 1]
    <3>1. n + 1 \in 1..l
      BY <1>1, <2>1
    <3> QED
      BY <1>2, <3>1
  <2>5. /\ event = log[(d + n) + 1] /\ event # Reset /\ event.n = (d + n) + 1 /\ d + n \in Nat
        /\ d + (n + 1) = (d + n) + 1
    <3>1. n + 1 \in DOMAIN s /\ d + (n + 1) = (d + n) + 1
      BY <1>1, <1>2, <2>1
    <3>2. s[n + 1] = log[d + (n + 1)] /\ s[n + 1] # Reset /\ s[n + 1].n = d + (n + 1)
      BY <3>1 DEF GoesOn
    <3> QED
      BY <2>1, <2>4, <3>1, <3>2
  <2>6. FoldTo(o, s, n + 1) = ApplyTimeline(v, event)
    <3>1. FoldTo(o, s, n + 1) = ApplyTimeline(FoldTo(o, s, n), s[n + 1])
      <4>1. \A k \in Nat : FoldTo(o, s, k + 1) = ApplyTimeline(FoldTo(o, s, k), s[k + 1])
        BY FoldSteps, ZenonT(60)
      <4> QED
        BY <2>1, <4>1, Zenon
    <3> QED
      BY <2>2, <2>4, <3>1
  <2>7. Follows(o, ApplyTimeline(v, event))
    BY <2>3, ApplyFollows
  <2>8. ShowsLog(ApplyTimeline(v, event), log, (d + n) + 1)
    <3>1. ViewTypes(v) /\ Exact(v)
      BY <2>3 DEF Follows
    <3> QED
      BY <2>3, <2>5, <3>1, ApplyShows
  <2> QED
    BY <2>5, <2>6, <2>7, <2>8
<1>6. T = Nat
  BY <1>3, <1>4, <1>5, Induction
<1>7. Follows(o, FoldTo(o, s, l)) /\ ShowsLog(FoldTo(o, s, l), log, d + l)
  BY <1>3, <1>6
<1>8. FoldLeft(ApplyTimeline, o, s) = FoldTo(o, s, l)
  BY <1>1, FoldIs
<1> QED
  BY <1>1, <1>7, <1>8

-----------------------------------------------------------------------------
(* The state of the timeline.                                               *)

ViewInv == ViewTypes(View) /\ Exact(View) /\ Once(View)

\* The event task has one event at most in its hands, and numbers tell where
\* each event was sent.
PathTypes ==
    /\ channel \in Seq(Events) /\ pending \in Seq(Events) /\ held \in Seq(Events)
    /\ sent \in Seq(Events)
    /\ Len(held) <= 1 /\ Len(pending) <= 1
    /\ held # <<>> => pending = <<>>
    /\ \A i \in DOMAIN sent : sent[i] # Reset => sent[i].n = i

\* What is left of the log after its first d events.
Left(log, d, rest) ==
    /\ Len(log) = d + Len(rest)
    /\ \A i \in 1..Len(rest) : log[d + i] = rest[i]

PathInv ==
    \E d \in Nat : Left(sent, d, held \o pending \o channel) /\ ShowsLog(View, sent, d)

ListInv ==
    /\ rows \in Seq(TurnSet \cup {Unmeasured})
    /\ selected \in Agents \cup {NoAgent} /\ listAgent \in Agents \cup {NoAgent}
    /\ listAgent = NoAgent => rows = <<>>
    /\ listAgent # NoAgent => DOMAIN rows = DOMAIN byAgent[listAgent]
    /\ RowsAreCurrent

TimelineInv == ViewInv /\ PathTypes /\ PathInv /\ ListInv /\ SleepFollowsTurns

\* A view depends on the events it was built from, and not on later ones.
LEMMA LaterEvents ==
    ASSUME NEW log, NEW longer, NEW m \in Nat, \A i \in 1..m : longer[i] = log[i],
           NEW v, ShowsLog(v, log, m)
    PROVE  ShowsLog(v, longer, m)
<1>1. \A i \in 1..m : \A j \in i..m : j \in 1..m
  OBVIOUS
<1>2. SinceReset(longer, m) = SinceReset(log, m) /\ SinceReset(log, m) \in SUBSET (1..m)
  BY <1>1 DEF SinceReset
<1>3. ASSUME NEW k \in Keys
      PROVE  EventsOf(longer, m, k) = EventsOf(log, m, k) /\ EventsOf(log, m, k) \in SUBSET (1..m)
  BY <1>2 DEF EventsOf
<1>4. ASSUME NEW I \in SUBSET (1..m), NEW c, TurnShows(c, log, I)
      PROVE  TurnShows(c, longer, I)
  <2>1. \A i \in I : longer[i] = log[i]
    OBVIOUS
  <2>2. EndsIn(longer, I) = EndsIn(log, I)
    BY <2>1 DEF EndsIn
  <2>3. PICK E : E = EndsIn(log, I)
    OBVIOUS
  <2>4. E \in SUBSET I /\ E \in SUBSET (1..m)
    BY <2>3 DEF EndsIn
  <2>5. E # {} => longer[Max(E)] = log[Max(E)]
    <3>1. E # {} => Max(E) \in E
      BY <2>4, MaxIs
    <3> QED
      BY <2>1, <2>4, <3>1
  <2>6. {i \in I : IsDelta(longer[i])} = {i \in I : IsDelta(log[i])}
    BY <2>1
  <2>7. (\E i \in I : longer[i].kind = "started" /\ \A e \in E : i < e)
            <=> (\E i \in I : log[i].kind = "started" /\ \A e \in E : i < e)
    BY <2>1
  <2> QED
    BY <1>4, <2>2, <2>3, <2>5, <2>6, <2>7 DEF TurnShows
<1>5. ASSUME NEW k \in Keys PROVE ShowsKey(v, longer, m, k)
  <2>1. ShowsKey(v, log, m, k)
    BY DEF ShowsLog
  <2> QED
    BY <1>3, <1>4, <2>1 DEF ShowsKey
<1> QED
  BY <1>5 DEF ShowsLog

\* A view forgets which turns a batch has changed.
LEMMA Forgets ==
    ASSUME NEW v, NEW x,
           x = [timeline |-> v.timeline, byTurn |-> v.byTurn, byAgent |-> v.byAgent,
                advanced |-> v.advanced, dirty |-> {}]
    PROVE  /\ ViewTypes(v) => ViewTypes(x)
           /\ Exact(v) => Exact(x)
           /\ Once(v) => Once(x)
           /\ \A log, m : ShowsLog(v, log, m) => ShowsLog(x, log, m)
<1>1. x.timeline = v.timeline /\ x.byTurn = v.byTurn /\ x.byAgent = v.byAgent
      /\ x.advanced = v.advanced /\ x.dirty = {}
  OBVIOUS
<1>2. x = [timeline |-> x.timeline, byTurn |-> x.byTurn, byAgent |-> x.byAgent,
           advanced |-> x.advanced, dirty |-> x.dirty]
  OBVIOUS
<1>3. ViewTypes(v) => ViewTypes(x)
  BY <1>1, <1>2 DEF ViewTypes
<1>4. Exact(v) => Exact(x)
  <2>1. \A j : TurnAt(v, j) <=> TurnAt(x, j)
    BY <1>1 DEF TurnAt
  <2>2. \A k : KeyAt(v, k) <=> KeyAt(x, k)
    BY <1>1 DEF KeyAt
  <2>3. \A a, i : RowAt(v, a, i) <=> RowAt(x, a, i)
    BY <1>1 DEF RowAt
  <2> QED
    BY <1>1, <2>1, <2>2, <2>3 DEF Exact
<1>5. Once(v) => Once(x)
  BY <1>1 DEF Once, IsOver
<1>6. \A log, m : ShowsLog(v, log, m) => ShowsLog(x, log, m)
  BY <1>1 DEF ShowsLog, ShowsKey
<1> QED
  BY <1>3, <1>4, <1>5, <1>6

\* The timeline is empty.
Cleared(x) ==
    x = [timeline |-> <<>>, byTurn |-> <<>>, byAgent |-> [a \in Agents |-> <<>>],
         advanced |-> [k \in Keys |-> 0], dirty |-> {}]

LEMMA ClearedShows ==
    ASSUME NEW x, Cleared(x)
    PROVE  /\ ViewTypes(x) /\ Exact(x) /\ Once(x)
           /\ \A log, m : SinceReset(log, m) = {} => ShowsLog(x, log, m)
<1>1. /\ x.timeline = <<>> /\ x.byTurn = <<>> /\ x.byAgent = [a \in Agents |-> <<>>]
      /\ x.advanced = [k \in Keys |-> 0] /\ x.dirty = {}
      /\ x = [timeline |-> x.timeline, byTurn |-> x.byTurn, byAgent |-> x.byAgent,
              advanced |-> x.advanced, dirty |-> x.dirty]
  BY DEF Cleared
<1>2. DOMAIN x.byTurn = {} /\ DOMAIN x.timeline = {} /\ x.byTurn \in [DOMAIN x.byTurn -> Places]
  BY <1>1
<1>3. \A a \in Agents : x.byAgent[a] = <<>> /\ DOMAIN x.byAgent[a] = {} /\ Len(x.byAgent[a]) = 0
  BY <1>1
<1>4. IsFiniteSet({}) /\ Cardinality({}) = 0
  BY FS_EmptySet
<1>5. ViewTypes(x)
  <2>1. x.timeline \in Seq(TurnSet) /\ x.byAgent \in [Agents -> Seq(Nat)]
        /\ x.advanced \in [Keys -> Nat]
    BY <1>1
  <2> QED
    BY <1>1, <1>2, <1>4, <2>1 DEF ViewTypes
<1>6. Exact(x)
  <2>1. \A a \in Agents : {k \in DOMAIN x.byTurn : k[1] = a} = {}
    BY <1>2
  <2> QED
    BY <1>2, <1>3, <1>4, <2>1 DEF Exact
<1>7. Once(x)
  BY <1>1, <1>2 DEF Once, IsOver
<1>8. ASSUME NEW log, NEW m, SinceReset(log, m) = {} PROVE ShowsLog(x, log, m)
  <2>1. \A k \in Keys : EventsOf(log, m, k) = {}
    BY <1>8 DEF EventsOf
  <2> QED
    BY <1>2, <2>1 DEF ShowsLog, ShowsKey
<1> QED
  BY <1>5, <1>6, <1>7, <1>8

LEMMA AfterReset ==
    ASSUME NEW log, NEW d \in Nat, d = 0 \/ log[d] = Reset
    PROVE  SinceReset(log, d) = {}
<1>1. \A i \in 1..d : d \in i..d /\ d # 0
  OBVIOUS
<1> QED
  BY <1>1 DEF SinceReset

-----------------------------------------------------------------------------
(* One step of the timeline.                                                *)

LEMMA ViewKept ==
    ASSUME UNCHANGED turnVars PROVE View' = View
BY DEF turnVars, View

\* The list is the list of the turns of a view.
LEMMA ClearKeeps ==
    ASSUME ClearTimeline PROVE ViewInv' /\ SleepFollowsTurns'
<1>1. PICK x : x = View'
  OBVIOUS
<1>2. Cleared(x)
  BY <1>1 DEF ClearTimeline, View, Cleared
<1>3. ViewTypes(x) /\ Exact(x) /\ Once(x)
  BY <1>2, ClearedShows
<1>4. ViewInv'
  BY <1>1, <1>3 DEF ViewInv
<1>5. timeline' = <<>> /\ awake' = FALSE
  BY DEF ClearTimeline
<1>6. SleepFollowsTurns'
  BY <1>5 DEF SleepFollowsTurns
<1> QED
  BY <1>4, <1>6

LEMMA ConcatIs ==
    ASSUME NEW S, NEW a \in Seq(S), NEW b \in Seq(S)
    PROVE  /\ a \o b \in Seq(S) /\ Len(a \o b) = Len(a) + Len(b)
           /\ \A i \in 1..Len(a) : (a \o b)[i] = a[i]
           /\ \A i \in 1..Len(b) : (a \o b)[Len(a) + i] = b[i]
BY ConcatProperties

\* What the event task has not applied: what it holds, what waits for the next
\* batch, and the channel.
Rest == held \o pending \o channel

\* In the hands of the event task is one event at most.
LEMMA RestIs ==
    ASSUME PathTypes
    PROVE  /\ Rest \in Seq(Events)
           /\ held = <<>> /\ pending = <<>> => Rest = channel
           /\ \A e : held = <<>> /\ pending = <<e>> => Rest = <<e>> \o channel
           /\ \A e : held = <<e>> => Rest = <<e>> \o channel
<1>1. channel \in Seq(Events) /\ pending \in Seq(Events) /\ held \in Seq(Events)
      /\ (held # <<>> => pending = <<>>)
  BY DEF PathTypes
<1>2. \A s \in Seq(Events) : <<>> \o s = s /\ s \o <<>> = s
  BY ConcatEmptySeq
<1>3. Rest \in Seq(Events)
  <2>1. held \o pending \in Seq(Events)
    BY <1>1, ConcatIs
  <2> QED
    BY <1>1, <2>1, ConcatIs DEF Rest
<1>4. held = <<>> => Rest = pending \o channel
  BY <1>1, <1>2 DEF Rest
<1>5. pending = <<>> => Rest = held \o channel
  BY <1>1, <1>2 DEF Rest
<1>6. \A e : held = <<e>> => pending = <<>>
  BY <1>1
<1> QED
  BY <1>1, <1>2, <1>3, <1>4, <1>5, <1>6

LEMMA ConnectKeeps ==
    ASSUME TimelineInv, Connect
    PROVE  TimelineInv'
<1>1. ViewInv' /\ SleepFollowsTurns'
  BY ClearKeeps DEF Connect
<1>2. channel' = <<>> /\ pending' = <<>> /\ held' = <<>> /\ sent' = <<>> /\ selected' = selected
      /\ rows' = <<>> /\ listAgent' = NoAgent
  BY DEF Connect, ClearTimeline
<1>3. PathTypes'
  BY <1>2 DEF PathTypes
<1>4. PathInv'
  <2>1. PICK x : x = View'
    OBVIOUS
  <2>2. Cleared(x)
    BY <2>1 DEF Connect, ClearTimeline, View, Cleared
  <2>3. SinceReset(<<>>, 0) = {}
    BY AfterReset
  <2>4. ShowsLog(x, <<>>, 0)
    BY <2>2, <2>3, ClearedShows
  <2>5. Left(<<>>, 0, <<>>)
    BY DEF Left
  <2>6. <<>> \o <<>> \o <<>> = <<>>
    BY ConcatEmptySeq
  <2>7. (held \o pending \o channel)' = <<>>
    BY <1>2, <2>6
  <2> QED
    BY <1>2, <2>1, <2>4, <2>5, <2>7 DEF PathInv
<1>5. ListInv'
  <2>1. <<>> \in Seq(TurnSet \cup {Unmeasured}) /\ DOMAIN (<<>>) = {}
    OBVIOUS
  <2>2. RowsAreCurrent'
    BY <1>2, <2>1 DEF RowsAreCurrent
  <2>3. selected \in Agents \cup {NoAgent}
    BY DEF TimelineInv, ListInv
  <2> QED
    BY <1>2, <2>1, <2>2, <2>3 DEF ListInv
<1> QED
  BY <1>1, <1>3, <1>4, <1>5 DEF TimelineInv

LEMMA ApplyResetKeeps ==
    ASSUME TimelineInv, ApplyReset
    PROVE  TimelineInv'
<1>1. ViewInv' /\ SleepFollowsTurns'
  BY ClearKeeps DEF ApplyReset
<1>2. channel' = channel /\ pending' = pending /\ held' = <<>> /\ sent' = sent
      /\ selected' = selected /\ rows' = <<>> /\ listAgent' = NoAgent /\ held = <<Reset>>
  BY DEF ApplyReset, ClearTimeline
<1>3. pending = <<>>
  BY <1>2 DEF TimelineInv, PathTypes
<1>4. PathTypes'
  BY <1>2, <1>3 DEF TimelineInv, PathTypes
<1>5. PathInv'
  <2>1. PICK x : x = View'
    OBVIOUS
  <2>2. Cleared(x)
    BY <2>1 DEF ApplyReset, ClearTimeline, View, Cleared
  <2>3. PathTypes
    BY DEF TimelineInv
  <2>4. PICK d \in Nat : Left(sent, d, Rest)
    BY DEF TimelineInv, PathInv, Rest
  <2>5. Rest = <<Reset>> \o channel /\ channel \in Seq(Events)
    BY <1>2, <2>3, RestIs DEF PathTypes
  <2>6. /\ Len(Rest) = 1 + Len(channel) /\ Rest[1] = Reset
        /\ \A i \in 1..Len(channel) : Rest[1 + i] = channel[i]
    <3>1. <<Reset>> \in Seq(Events) /\ Len(<<Reset>>) = 1 /\ <<Reset>>[1] = Reset
      BY DEF Events
    <3> QED
      BY <2>5, <3>1, ConcatIs
  <2>7. Len(channel) \in Nat
    BY <2>5
  <2>8. sent[d + 1] = Reset
    BY <2>4, <2>6, <2>7 DEF Left
  <2>9. Left(sent, d + 1, channel)
    <3>1. Len(sent) = (d + 1) + Len(channel)
      BY <2>4, <2>6, <2>7 DEF Left
    <3>2. ASSUME NEW i \in 1..Len(channel) PROVE sent[(d + 1) + i] = channel[i]
      <4>1. 1 + i \in 1..Len(Rest) /\ d + (1 + i) = (d + 1) + i
        BY <2>6, <2>7
      <4>2. sent[d + (1 + i)] = Rest[1 + i]
        BY <2>4, <4>1 DEF Left
      <4> QED
        BY <2>6, <4>1, <4>2
    <3> QED
      BY <3>1, <3>2 DEF Left
  <2>10. ShowsLog(x, sent, d + 1)
    <3>1. SinceReset(sent, d + 1) = {}
      BY <2>8, AfterReset
    <3> QED
      BY <2>2, <3>1, ClearedShows
  <2>11. (held \o pending \o channel)' = channel
    <3>1. <<>> \o <<>> \o channel = channel
      BY <2>5, ConcatEmptySeq
    <3> QED
      BY <1>2, <1>3, <3>1
  <2>12. PICK n \in Nat : n = d + 1
    OBVIOUS
  <2>13. Left(sent', n, (held \o pending \o channel)') /\ ShowsLog(View', sent', n)
    BY <1>2, <2>1, <2>9, <2>10, <2>11, <2>12
  <2> QED
    BY <2>13 DEF PathInv
<1>6. ListInv'
  <2>1. <<>> \in Seq(TurnSet \cup {Unmeasured}) /\ DOMAIN (<<>>) = {}
    OBVIOUS
  <2>2. RowsAreCurrent'
    BY <1>2, <2>1 DEF RowsAreCurrent
  <2>3. selected \in Agents \cup {NoAgent}
    BY DEF TimelineInv, ListInv
  <2> QED
    BY <1>2, <2>1, <2>2, <2>3 DEF ListInv
<1> QED
  BY <1>1, <1>4, <1>5, <1>6 DEF TimelineInv

\* The turns are left alone, and what is left of the log is too.
LEMMA SentKeeps ==
    ASSUME TimelineInv, NEW event \in Events, Send(event)
    PROVE  TimelineInv'
<1>1. /\ sent' = Append(sent, event) /\ channel' = Append(channel, event)
      /\ event # Reset => event.n = Len(sent) + 1
      /\ pending' = pending /\ held' = held /\ View' = View
      /\ timeline' = timeline /\ byTurn' = byTurn /\ byAgent' = byAgent /\ advanced' = advanced
      /\ selected' = selected /\ listAgent' = listAgent /\ rows' = rows /\ awake' = awake
  BY ViewKept DEF Send, turnVars, listVars
<1>2. PathTypes /\ ViewInv /\ ListInv /\ SleepFollowsTurns
  BY DEF TimelineInv
<1>3. PICK l \in Nat : l = Len(sent)
  BY <1>2 DEF PathTypes
<1>4. sent \in Seq(Events) /\ channel \in Seq(Events) /\ sent' \in Seq(Events)
      /\ channel' \in Seq(Events)
  BY <1>1, <1>2 DEF PathTypes
<1>5. Len(sent') = l + 1 /\ sent'[l + 1] = event /\ \A i \in 1..l : sent'[i] = sent[i]
  BY <1>1, <1>3, <1>4
<1>6. PathTypes'
  <2>1. ASSUME NEW i \in DOMAIN sent' PROVE sent'[i] # Reset => sent'[i].n = i
    <3>1. CASE i = l + 1
      BY <1>1, <1>3, <1>5, <3>1
    <3>2. CASE i \in 1..l
      <4>1. sent[i] # Reset => sent[i].n = i
        BY <1>2, <1>3, <1>4, <3>2 DEF PathTypes
      <4> QED
        BY <1>5, <3>2, <4>1
    <3> QED
      BY <1>3, <1>4, <1>5, <3>1, <3>2
  <2> QED
    BY <1>1, <1>2, <1>4, <2>1 DEF PathTypes
<1>7. PathInv'
  <2>1. PICK d \in Nat : Left(sent, d, Rest) /\ ShowsLog(View, sent, d)
    BY DEF TimelineInv, PathInv, Rest
  <2>2. PICK r \in Seq(Events) : r = Rest
    BY <1>2, RestIs
  <2>3. PICK k \in Nat : k = Len(r)
    BY <2>2
  <2>4. l = d + k /\ \A i \in 1..k : sent[d + i] = r[i]
    BY <1>3, <2>1, <2>2, <2>3 DEF Left
  <2>5. (held \o pending \o channel)' = Append(r, event)
    <3>1. PICK h \in Seq(Events) : h = held \o pending
      BY <1>2, ConcatIs DEF PathTypes
    <3>2. h \o Append(channel, event) = Append(h \o channel, event)
      BY <1>4, <3>1, AppendProperties, ConcatProperties
    <3> QED
      BY <1>1, <2>2, <3>1, <3>2 DEF Rest
  <2>6. Left(sent', d, Append(r, event))
    <3>1. Len(Append(r, event)) = k + 1 /\ Append(r, event)[k + 1] = event
          /\ \A i \in 1..k : Append(r, event)[i] = r[i]
      BY <2>2, <2>3
    <3>2. ASSUME NEW i \in 1..(k + 1) PROVE sent'[d + i] = Append(r, event)[i]
      <4>1. CASE i = k + 1
        <5>1. d + i = l + 1
          BY <2>4, <4>1
        <5> QED
          BY <1>5, <3>1, <4>1, <5>1
      <4>2. CASE i \in 1..k
        <5>1. d + i \in 1..l
          BY <2>4, <4>2
        <5> QED
          BY <1>5, <2>4, <3>1, <4>2, <5>1
      <4>3. i = k + 1 \/ i \in 1..k
        BY <2>3, <3>2
      <4> QED
        BY <4>1, <4>2, <4>3
    <3>3. Len(sent') = d + (k + 1)
      BY <1>5, <2>4
    <3> QED
      BY <3>1, <3>2, <3>3 DEF Left
  <2>7. ShowsLog(View, sent', d)
    <3>1. \A i \in 1..d : i \in 1..l
      BY <2>4
    <3>2. \A i \in 1..d : sent'[i] = sent[i]
      BY <1>5, <3>1
    <3> QED
      BY <2>1, <3>2, LaterEvents
  <2>8. Left(sent', d, (held \o pending \o channel)') /\ ShowsLog(View', sent', d)
    BY <1>1, <2>5, <2>6, <2>7
  <2> QED
    BY <2>8 DEF PathInv
<1>8. ViewInv'
  BY <1>1, <1>2 DEF ViewInv
<1>9. ListInv'
  BY <1>1, <1>2 DEF ListInv, RowsAreCurrent
<1>10. SleepFollowsTurns'
  BY <1>1, <1>2 DEF SleepFollowsTurns
<1> QED
  BY <1>6, <1>7, <1>8, <1>9, <1>10 DEF TimelineInv

LEMMA TakeKeeps ==
    ASSUME TimelineInv, Take
    PROVE  TimelineInv'
<1>1. /\ sent' = sent /\ held = <<>> /\ View' = View
      /\ timeline' = timeline /\ byTurn' = byTurn /\ byAgent' = byAgent /\ advanced' = advanced
      /\ selected' = selected /\ listAgent' = listAgent /\ rows' = rows /\ awake' = awake
  BY ViewKept DEF Take, turnVars, listVars
<1>2. PathTypes /\ ViewInv /\ ListInv /\ SleepFollowsTurns
  BY DEF TimelineInv
<1>3. pending \in Seq(Events) /\ channel \in Seq(Events) /\ Len(pending) <= 1
  BY <1>2 DEF PathTypes
<1>4. PathTypes' /\ Rest' = Rest
  <2>1. CASE pending # <<>>
    <3>1. held' = pending /\ pending' = <<>> /\ channel' = channel
      BY <2>1 DEF Take
    <3>2. PathTypes'
      BY <1>1, <1>2, <1>3, <3>1 DEF PathTypes
    <3>3. Rest = pending \o channel
      BY <1>1, <1>3, ConcatEmptySeq DEF Rest
    <3>4. Rest' = pending \o channel
      <4>1. (held \o pending)' = pending
        BY <1>3, <3>1, ConcatEmptySeq
      <4> QED
        BY <3>1, <4>1 DEF Rest
    <3> QED
      BY <3>2, <3>3, <3>4
  <2>2. CASE pending = <<>>
    <3>1. channel # <<>> /\ held' = <<Head(channel)>> /\ channel' = Tail(channel)
          /\ pending' = <<>>
      BY <2>2 DEF Take
    <3>2. PathTypes'
      <4>1. Head(channel) \in Events /\ Tail(channel) \in Seq(Events)
        BY <1>3, <3>1
      <4>2. <<Head(channel)>> \in Seq(Events) /\ Len(<<Head(channel)>>) = 1
        BY <4>1
      <4> QED
        BY <1>1, <1>2, <3>1, <4>1, <4>2 DEF PathTypes
    <3>3. Rest = channel
      BY <1>1, <1>2, <2>2, RestIs
    <3>4. Rest' = <<Head(channel)>> \o Tail(channel)
      <4>1. (held \o pending)' = <<Head(channel)>>
        <5>1. Head(channel) \in Events
          BY <1>3, <3>1
        <5> QED
          BY <3>1, <5>1, ConcatEmptySeq
      <4> QED
        BY <3>1, <4>1 DEF Rest
    <3>5. <<Head(channel)>> \o Tail(channel) = channel
      BY <1>3, <3>1, HeadTailProperties
    <3> QED
      BY <3>2, <3>3, <3>4, <3>5
  <2> QED
    BY <2>1, <2>2
<1>5. PathInv'
  <2>1. PICK d \in Nat : Left(sent, d, Rest) /\ ShowsLog(View, sent, d)
    BY DEF TimelineInv, PathInv, Rest
  <2>2. Left(sent', d, Rest') /\ ShowsLog(View', sent', d)
    BY <1>1, <1>4, <2>1
  <2> QED
    BY <2>2 DEF PathInv, Rest
<1>6. ViewInv'
  BY <1>1, <1>2 DEF ViewInv
<1>7. ListInv'
  BY <1>1, <1>2 DEF ListInv, RowsAreCurrent
<1>8. SleepFollowsTurns'
  BY <1>1, <1>2 DEF SleepFollowsTurns
<1> QED
  BY <1>4, <1>5, <1>6, <1>7, <1>8 DEF TimelineInv

\* The list is laid out for another agent, or its rows are measured.
LEMMA ListOnly ==
    ASSUME TimelineInv, UNCHANGED <<pathVars, turnVars, awake, sent>>, ListInv'
    PROVE  TimelineInv'
<1>1. /\ sent' = sent /\ View' = View /\ channel' = channel /\ pending' = pending /\ held' = held
      /\ timeline' = timeline /\ awake' = awake
  BY ViewKept DEF pathVars, turnVars
<1>2. PathTypes /\ ViewInv /\ SleepFollowsTurns /\ PathInv
  BY DEF TimelineInv
<1>3. PathTypes'
  BY <1>1, <1>2 DEF PathTypes
<1>4. PathInv'
  BY <1>1, <1>2 DEF PathInv
<1>5. ViewInv'
  BY <1>1, <1>2 DEF ViewInv
<1>6. SleepFollowsTurns'
  BY <1>1, <1>2 DEF SleepFollowsTurns
<1> QED
  BY <1>3, <1>4, <1>5, <1>6 DEF TimelineInv

\* An agent's list in the view names turns of the timeline.
LEMMA AgentsTurns ==
    ASSUME ViewInv, NEW a \in Agents
    PROVE  /\ byAgent[a] \in Seq(Nat) /\ Len(byAgent[a]) \in Nat
           /\ DOMAIN byAgent[a] = 1..Len(byAgent[a])
           /\ \A i \in 1..Len(byAgent[a]) : timeline[byAgent[a][i]] \in TurnSet
<1>1. PICK v : v = View
  OBVIOUS
<1>2. v.timeline = timeline /\ v.byAgent = byAgent
  BY <1>1 DEF View
<1>3. timeline \in Seq(TurnSet) /\ byAgent[a] \in Seq(Nat)
  BY <1>1, <1>2 DEF ViewInv, ViewTypes
<1>4. Len(byAgent[a]) \in Nat /\ DOMAIN byAgent[a] = 1..Len(byAgent[a])
  BY <1>3
<1>5. ASSUME NEW i \in 1..Len(byAgent[a]) PROVE timeline[byAgent[a][i]] \in TurnSet
  <2>1. RowAt(v, a, i)
    BY <1>1, <1>2, <1>4, <1>5 DEF ViewInv, Exact
  <2>2. byAgent[a][i] \in DOMAIN timeline
    BY <1>2, <2>1 DEF RowAt
  <2> QED
    BY <1>3, <2>2
<1> QED
  BY <1>3, <1>4, <1>5

LEMMA SelectKeeps ==
    ASSUME NoAgent \notin Agents, TimelineInv, NEW a \in Agents, Select(a)
    PROVE  TimelineInv'
<1>1. PICK n \in Nat : n = Len(byAgent[a]) /\ DOMAIN byAgent[a] = 1..n
  BY AgentsTurns DEF TimelineInv
<1>2. /\ selected' = a /\ listAgent' = a /\ rows' = [i \in 1..n |-> Unmeasured]
      /\ byAgent' = byAgent
      /\ UNCHANGED <<pathVars, turnVars, awake, sent>>
  BY <1>1 DEF Select, Blank, turnVars
<1>3. rows' \in Seq(TurnSet \cup {Unmeasured}) /\ DOMAIN rows' = 1..n
      /\ \A i \in 1..n : rows'[i] = Unmeasured
  BY <1>2
<1>4. RowsAreCurrent'
  BY <1>3 DEF RowsAreCurrent
<1>5. ListInv'
  BY <1>1, <1>2, <1>3, <1>4 DEF ListInv
<1> QED
  BY <1>2, <1>5, ListOnly

LEMMA ReselectKeeps ==
    ASSUME TimelineInv, NEW a \in Agents \cup {NoAgent}, Reselect(a)
    PROVE  TimelineInv'
<1>1. /\ selected' = a /\ listAgent' = listAgent /\ rows' = rows
      /\ byAgent' = byAgent /\ timeline' = timeline
      /\ UNCHANGED <<pathVars, turnVars, awake, sent>>
  BY DEF Reselect, turnVars
<1>2. ListInv'
  BY <1>1 DEF TimelineInv, ListInv, RowsAreCurrent
<1> QED
  BY <1>1, <1>2, ListOnly

LEMMA RenderKeeps ==
    ASSUME NoAgent \notin Agents, TimelineInv, Render
    PROVE  TimelineInv'
<1>1. PICK turns : turns = IF selected = NoAgent THEN <<>> ELSE byAgent[selected]
  OBVIOUS
<1>2. PICK visible \in SUBSET (1..Len(turns)) :
          rows' = [i \in 1..Len(turns) |->
                      IF listAgent = selected /\ i <= Len(rows) /\ rows[i] # Unmeasured
                      THEN rows[i]
                      ELSE IF i \in visible THEN timeline[turns[i]]
                      ELSE Unmeasured]
  BY <1>1 DEF Render
<1>3. /\ listAgent' = selected /\ selected' = selected /\ byAgent' = byAgent
      /\ timeline' = timeline
      /\ UNCHANGED <<pathVars, turnVars, awake, sent>>
  BY DEF Render, turnVars
<1>4. ListInv /\ ViewInv
  BY DEF TimelineInv
<1>5. CASE selected = NoAgent
  <2>1. Len(turns) = 0
    BY <1>1, <1>5
  <2>2. rows' = <<>>
    BY <1>2, <2>1
  <2>3. <<>> \in Seq(TurnSet \cup {Unmeasured}) /\ DOMAIN (<<>>) = {}
    OBVIOUS
  <2>4. RowsAreCurrent'
    BY <2>2, <2>3 DEF RowsAreCurrent
  <2>5. ListInv'
    BY <1>3, <1>4, <1>5, <2>2, <2>3, <2>4 DEF ListInv
  <2> QED
    BY <1>3, <2>5, ListOnly
<1>6. CASE selected # NoAgent
  <2>1. PICK a \in Agents : a = selected
    BY <1>4, <1>6 DEF ListInv
  <2>2. turns = byAgent[a]
    BY <1>1, <1>6, <2>1
  <2>3. PICK n \in Nat : n = Len(turns) /\ DOMAIN byAgent[a] = 1..n
                         /\ \A i \in 1..n : timeline[turns[i]] \in TurnSet
    BY <1>4, <2>2, AgentsTurns
  <2>4. rows \in Seq(TurnSet \cup {Unmeasured})
    BY <1>4 DEF ListInv
  <2>5. DOMAIN rows' = 1..n
    BY <1>2, <2>3
  <2>6. ASSUME NEW i \in 1..n
        PROVE  rows'[i] \in TurnSet \cup {Unmeasured}
               /\ (rows'[i] = Unmeasured \/ rows'[i] = timeline[turns[i]])
    <3>1. rows'[i] = IF listAgent = selected /\ i <= Len(rows) /\ rows[i] # Unmeasured
                     THEN rows[i]
                     ELSE IF i \in visible THEN timeline[turns[i]]
                     ELSE Unmeasured
      BY <1>2, <2>3, <2>6
    <3>2. timeline[turns[i]] \in TurnSet
      BY <2>3, <2>6
    <3>3. CASE listAgent = selected /\ i <= Len(rows) /\ rows[i] # Unmeasured
      <4>1. i \in DOMAIN rows
        BY <2>3, <2>4, <2>6, <3>3
      <4>2. rows[i] = timeline[byAgent[listAgent][i]]
        BY <1>4, <3>3, <4>1 DEF ListInv, RowsAreCurrent
      <4>3. byAgent[listAgent] = turns
        BY <2>1, <2>2, <3>3
      <4> QED
        BY <3>1, <3>2, <3>3, <4>2, <4>3
    <3>4. CASE ~(listAgent = selected /\ i <= Len(rows) /\ rows[i] # Unmeasured)
      BY <3>1, <3>2, <3>4
    <3> QED
      BY <3>3, <3>4
  <2>7. rows' \in Seq(TurnSet \cup {Unmeasured})
    <3>1. rows' = [i \in 1..n |-> rows'[i]]
      BY <1>2, <2>3
    <3>2. PICK f : f = rows'
      OBVIOUS
    <3>3. f \in [1..n -> TurnSet \cup {Unmeasured}]
      BY <2>5, <2>6, <3>1, <3>2
    <3>4. f \in Seq(TurnSet \cup {Unmeasured})
      BY <2>3, <3>3
    <3> QED
      BY <3>2, <3>4
  <2>8. RowsAreCurrent'
    <3>1. byAgent'[listAgent'] = turns
      BY <1>3, <2>1, <2>2
    <3> QED
      BY <1>3, <2>5, <2>6, <3>1 DEF RowsAreCurrent
  <2>9. ListInv'
    BY <1>3, <1>4, <1>6, <2>1, <2>3, <2>5, <2>7, <2>8 DEF ListInv
  <2> QED
    BY <1>3, <2>9, ListOnly
<1> QED
  BY <1>5, <1>6

\* The deltas at the head of the channel end with the first event of another
\* kind.
LEMMA DeltaRunIs ==
    ASSUME channel \in Seq(Events)
    PROVE  DeltaRun \in 0..Len(channel) /\ \A i \in 1..DeltaRun : IsDelta(channel[i])
<1>1. PICK l \in Nat : l = Len(channel)
  OBVIOUS
<1>2. PICK T : T = {n \in Nat : n <= l /\ (n < l => ~IsDelta(channel[n + 1]))}
  OBVIOUS
<1>3. l \in T /\ T \subseteq Nat
  BY <1>1, <1>2
<1>4. PICK n \in T : \A m \in T : n <= m
  BY <1>3, Least
<1>5. n \in Nat /\ n <= l /\ (n < l => ~IsDelta(channel[n + 1]))
  BY <1>2, <1>4
<1>6. ASSUME NEW i \in 1..n PROVE IsDelta(channel[i])
  <2>1. PICK m \in Nat : i = m + 1 /\ m < n
    <3>1. i - 1 \in Nat /\ i = (i - 1) + 1 /\ i - 1 < n
      BY <1>5
    <3> QED
      BY <3>1
  <2>2. m \notin T /\ m < l
    BY <1>3, <1>4, <1>5, <2>1
  <2> QED
    BY <1>2, <2>1, <2>2
<1>7. \E k \in 0..Len(channel) :
          /\ \A i \in 1..k : IsDelta(channel[i])
          /\ k < Len(channel) => ~IsDelta(channel[k + 1])
  <2>1. n \in 0..Len(channel)
    BY <1>1, <1>5
  <2> QED
    BY <1>1, <1>5, <1>6, <2>1
<1> QED
  BY <1>7 DEF DeltaRun

\* The event e and the next j of the channel are applied; b more wait for the
\* next batch.
Batch(e, j, b, v) ==
    /\ j \in Nat /\ b \in {0, 1} /\ j + b <= Len(channel)
    /\ held = <<e>> /\ e \in TurnEvents
    /\ \A i \in 1..j : channel[i] \in TurnEvents
    /\ v = FoldLeft(ApplyTimeline, View, <<e>> \o SubSeq(channel, 1, j))
    /\ held' = <<>>
    /\ pending' = SubSeq(channel, j + 1, j + b)
    /\ channel' = SubSeq(channel, j + b + 1, Len(channel))
    /\ timeline' = v.timeline /\ byTurn' = v.byTurn /\ byAgent' = v.byAgent
    /\ advanced' = v.advanced
    /\ rows' = Flush(v)
    /\ awake' = \E i \in DOMAIN v.timeline : v.timeline[i].status = "running"
    /\ selected' = selected /\ listAgent' = listAgent /\ sent' = sent

LEMMA TurnEvent ==
    ASSUME MaxSent \in Nat, NEW e \in Events, e # Reset PROVE e \in TurnEvents
<1>1. e \in [kind : Kinds, key : Keys, n : 1..MaxSent]
  BY DEF Events
<1> QED
  BY <1>1 DEF TurnEvents

LEMMA BatchIs ==
    ASSUME MaxSent \in Nat, BatchLimit \in Nat \ {0}, PathTypes, ApplyBatch
    PROVE  \E e, j, b, v : Batch(e, j, b, v)
<1>1. channel \in Seq(Events) /\ held \in Seq(Events) /\ Len(held) <= 1
  BY DEF PathTypes
<1>2. held # <<>> /\ held # <<Reset>>
  BY DEF ApplyBatch
<1>3. PICK e \in Events : held = <<e>>
  <2>1. held # <<>> /\ held \in Seq(Events)
    BY <1>1, <1>2
  <2>2. Head(held) \in Events /\ Tail(held) \in Seq(Events) /\ held = <<Head(held)>> \o Tail(held)
        /\ Len(Tail(held)) = Len(held) - 1
    BY <2>1, HeadTailProperties
  <2>3. Tail(held) = <<>>
    <3>1. Len(held) \in Nat /\ Len(Tail(held)) \in Nat
      BY <2>1, <2>2
    <3>2. Len(Tail(held)) = 0
      BY <1>1, <2>2, <3>1
    <3> QED
      BY <2>2, <3>2, EmptySeq
  <2>4. held = <<Head(held)>>
    <3>1. <<Head(held)>> \in Seq(Events)
      BY <2>2
    <3> QED
      BY <2>2, <2>3, <3>1, ConcatEmptySeq
  <2> QED
    BY <2>2, <2>4
<1>4. e \in TurnEvents
  BY <1>2, <1>3, TurnEvent
<1>5. PICK l \in Nat : l = Len(channel)
  BY <1>1
<1>6. Joining \in 0..l /\ \A i \in 1..Joining : IsDelta(channel[i])
  <2>1. PICK r : r = DeltaRun
    OBVIOUS
  <2>2. r \in 0..l /\ \A i \in 1..r : IsDelta(channel[i])
    BY <1>1, <1>5, <2>1, DeltaRunIs
  <2>3. Joining = IF r < BatchLimit THEN r ELSE BatchLimit - 1
    BY <2>1 DEF Joining
  <2>4. Joining \in 0..l /\ Joining <= r
    <3>1. CASE r < BatchLimit
      BY <2>2, <2>3, <3>1
    <3>2. CASE ~(r < BatchLimit)
      BY <2>2, <2>3, <3>2
    <3> QED
      BY <3>1, <3>2
  <2>5. \A i \in 1..Joining : i \in 1..r
    BY <2>2, <2>4
  <2> QED
    BY <2>2, <2>4, <2>5
<1>7. PICK j : j = IF IsDelta(held[1]) THEN Joining ELSE 0
  OBVIOUS
<1>8. PICK b : b = IF IsDelta(held[1]) /\ j < BatchLimit - 1 /\ j < Len(channel)
                   THEN 1 ELSE 0
  OBVIOUS
<1>9. PICK v : v = FoldLeft(ApplyTimeline, View, held \o SubSeq(channel, 1, j))
  OBVIOUS
<1>10. j \in 0..l /\ \A i \in 1..j : IsDelta(channel[i])
  <2>1. CASE IsDelta(held[1])
    BY <1>6, <1>7, <2>1
  <2>2. CASE ~IsDelta(held[1])
    BY <1>5, <1>7, <2>2
  <2> QED
    BY <2>1, <2>2
<1>11. b \in {0, 1} /\ j + b <= l
  BY <1>5, <1>8, <1>10
<1>12. ASSUME NEW i \in 1..j PROVE channel[i] \in TurnEvents
  <2>1. i \in 1..l
    BY <1>5, <1>10
  <2>2. channel[i] \in Events
    BY <1>1, <1>5, <2>1
  <2>3. channel[i].kind = "delta"
    BY <1>10 DEF IsDelta
  <2>4. channel[i] # Reset
    BY <2>3 DEF Reset
  <2> QED
    BY <2>2, <2>4, TurnEvent
<1>13. /\ held' = <<>>
       /\ pending' = SubSeq(channel, j + 1, j + b)
       /\ channel' = SubSeq(channel, j + b + 1, Len(channel))
       /\ timeline' = v.timeline /\ byTurn' = v.byTurn /\ byAgent' = v.byAgent
       /\ advanced' = v.advanced
       /\ rows' = Flush(v)
       /\ awake' = \E i \in DOMAIN v.timeline : v.timeline[i].status = "running"
       /\ selected' = selected /\ listAgent' = listAgent /\ sent' = sent
  BY <1>7, <1>8, <1>9, Zenon DEF ApplyBatch
<1>14. Batch(e, j, b, v)
  BY <1>3, <1>4, <1>5, <1>9, <1>10, <1>11, <1>12, <1>13 DEF Batch
<1> QED
  BY <1>14

\* The rows of the list after a batch: new ones, and those of the turns that it
\* has changed, are measured again.
LEMMA FlushKeeps ==
    ASSUME NEW o, NEW v, ViewTypes(o), Exact(o), Follows(o, v), o = View,
           NoAgent \notin Agents, ListInv,
           timeline' = v.timeline, byAgent' = v.byAgent, rows' = Flush(v),
           selected' = selected, listAgent' = listAgent
    PROVE  ListInv'
<1>1. CASE listAgent = NoAgent
  <2>1. rows' = rows /\ rows = <<>>
    BY <1>1 DEF ListInv, Flush
  <2>2. DOMAIN (<<>>) = {}
    OBVIOUS
  <2>3. RowsAreCurrent'
    BY <2>1, <2>2 DEF RowsAreCurrent
  <2> QED
    BY <1>1, <2>1, <2>3 DEF ListInv
<1>2. CASE listAgent # NoAgent
  <2>1. PICK a \in Agents : a = listAgent
    BY <1>2 DEF ListInv
  <2>2. PICK mine \in Seq(Nat) : mine = o.byAgent[a]
    BY DEF ViewTypes
  <2>3. /\ ViewTypes(v) /\ Exact(v) /\ Grows(o, v)
        /\ o.timeline = timeline /\ o.byAgent = byAgent
    BY DEF Follows, View
  <2>4. PICK yours \in Seq(Nat) : yours = v.byAgent[a]
    BY <2>3 DEF ViewTypes
  <2>5. PICK n \in Nat : n = Len(yours) /\ DOMAIN yours = 1..n
    OBVIOUS
  <2>6. PICK r \in Seq(TurnSet \cup {Unmeasured}) : r = rows
    BY DEF ListInv
  <2>7. PICK l \in Nat : l = Len(r) /\ DOMAIN r = 1..l
    OBVIOUS
  <2>8. DOMAIN r = DOMAIN mine
    BY <1>2, <2>1, <2>2, <2>3, <2>6 DEF ListInv
  <2>9. PICK f : f = Flush(v)
    OBVIOUS
  <2>10. f = [i \in 1..n |-> IF \/ i > l
                               \/ \E k \in v.dirty : k[1] = a /\ v.byTurn[k].row = i
                             THEN Unmeasured
                             ELSE r[i]]
    BY <1>2, <2>1, <2>4, <2>5, <2>6, <2>7, <2>9 DEF Flush
  <2>11. ASSUME NEW i \in 1..n
         PROVE  /\ f[i] \in TurnSet \cup {Unmeasured}
                /\ f[i] = Unmeasured \/ f[i] = v.timeline[yours[i]]
    <3>1. CASE i > l \/ \E k \in v.dirty : k[1] = a /\ v.byTurn[k].row = i
      BY <2>10, <3>1
    <3>2. CASE ~(i > l \/ \E k \in v.dirty : k[1] = a /\ v.byTurn[k].row = i)
      <4>1. f[i] = r[i]
        BY <2>10, <3>2
      <4>2. i \in 1..l /\ i \in DOMAIN r /\ i \in DOMAIN mine
        BY <2>5, <2>7, <2>8, <2>11, <3>2
      <4>3. r[i] \in TurnSet \cup {Unmeasured}
        BY <2>6, <2>7, <4>2
      <4>4. r[i] = Unmeasured \/ r[i] = timeline[mine[i]]
        BY <2>1, <2>2, <2>3, <2>6, <4>2 DEF ListInv, RowsAreCurrent
      <4>5. PICK t : t = mine[i]
        OBVIOUS
      <4>6. yours[i] = t /\ i \in DOMAIN yours
        BY <2>2, <2>3, <2>4, <4>2, <4>5 DEF Grows
      <4>7. t \in DOMAIN o.timeline
        <5>1. RowAt(o, a, i)
          BY <2>2, <4>2 DEF Exact
        <5> QED
          BY <2>2, <4>5, <5>1 DEF RowAt
      <4>8. v.timeline[t].key[1] = a /\ v.byTurn[v.timeline[t].key].row = i
        <5>1. RowAt(v, a, i)
          BY <2>3, <2>4, <4>6 DEF Exact
        <5> QED
          BY <2>4, <4>6, <5>1 DEF RowAt
      <4>9. v.timeline[t].key \notin v.dirty
        BY <3>2, <4>8
      <4>10. v.timeline[t] = o.timeline[t]
        BY <2>3, <4>7, <4>9 DEF Grows
      <4> QED
        BY <2>3, <4>1, <4>3, <4>4, <4>5, <4>6, <4>10
    <3> QED
      BY <3>1, <3>2
  <2>12. DOMAIN f = 1..n
    BY <2>10
  <2>13. f \in Seq(TurnSet \cup {Unmeasured})
    <3>1. f = [i \in 1..n |-> f[i]]
      BY <2>10
    <3>2. f \in [1..n -> TurnSet \cup {Unmeasured}]
      BY <2>11, <3>1
    <3> QED
      BY <2>5, <3>2
  <2>14. rows' = f /\ byAgent'[listAgent'] = yours /\ timeline' = v.timeline
    BY <2>1, <2>4, <2>9
  <2>15. RowsAreCurrent'
    BY <2>11, <2>12, <2>14 DEF RowsAreCurrent
  <2> QED
    BY <1>2, <2>1, <2>5, <2>12, <2>13, <2>14, <2>15 DEF ListInv
<1> QED
  BY <1>1, <1>2

\* What follows the first m elements of a sequence.
LEMMA AfterFirst ==
    ASSUME NEW T, NEW c \in Seq(T), NEW m \in Nat, m <= Len(c), NEW i \in 1..(Len(c) - m)
    PROVE  SubSeq(c, m + 1, Len(c))[i] = c[m + i]
OBVIOUS

\* What the batch leaves is what has been sent after it.
LEMMA BatchLeaves ==
    ASSUME PathTypes, NEW e, NEW j, NEW b, NEW v, Batch(e, j, b, v),
           NEW d \in Nat, Left(sent, d, Rest)
    PROVE  /\ PathTypes'
           /\ Left(sent, (d + 1) + j, Rest')
           /\ <<e>> \o SubSeq(channel, 1, j) \in Seq(TurnEvents)
           /\ Len(<<e>> \o SubSeq(channel, 1, j)) = 1 + j
           /\ \A i \in 1..(1 + j) : (<<e>> \o SubSeq(channel, 1, j))[i] = sent[d + i]
<1>1. PICK c \in Seq(Events) : c = channel
  BY DEF PathTypes
<1>2. PICK l \in Nat : l = Len(c) /\ DOMAIN c = 1..l
  OBVIOUS
<1>3. /\ j \in Nat /\ b \in {0, 1} /\ j + b <= l
      /\ held = <<e>> /\ e \in TurnEvents
      /\ \A i \in 1..j : c[i] \in TurnEvents
      /\ held' = <<>>
      /\ pending' = SubSeq(c, j + 1, j + b)
      /\ channel' = SubSeq(c, j + b + 1, l)
      /\ sent' = sent
  BY <1>1, <1>2 DEF Batch
<1>4. /\ Len(Rest) = 1 + l /\ Rest[1] = e
      /\ \A i \in 1..l : Rest[1 + i] = c[i]
      /\ e \in Events
  <2>1. Rest = <<e>> \o c
    BY <1>1, <1>3, RestIs
  <2>2. e \in Events
    BY <1>3 DEF PathTypes
  <2>3. <<e>> \in Seq(Events) /\ Len(<<e>>) = 1 /\ <<e>>[1] = e
    BY <2>2
  <2> QED
    BY <1>2, <2>1, <2>2, <2>3, ConcatIs
<1>5. /\ Len(sent) = d + (1 + l) /\ sent[d + 1] = e
      /\ \A i \in 1..l : sent[d + (1 + i)] = c[i]
  <2>1. \A i \in 1..l : 1 + i \in 1..(1 + l)
    BY <1>2
  <2>2. 1 \in 1..(1 + l)
    BY <1>2
  <2> QED
    BY <1>4, <2>1, <2>2 DEF Left
<1>6. PICK p : p = SubSeq(c, j + 1, j + b)
  OBVIOUS
<1>7. p \in Seq(Events) /\ Len(p) = b /\ \A i \in 1..b : p[i] = c[j + i]
  <2>1. j + 1 \in 1..(l + 1) /\ j + b \in 0..l
    BY <1>2, <1>3
  <2>2. /\ Len(p) = IF j + 1 <= j + b THEN (j + b) - (j + 1) + 1 ELSE 0
        /\ p \in Seq(Events)
        /\ \A i \in 1..((j + b) - (j + 1) + 1) : p[i] = c[(j + 1) + i - 1]
    BY <1>2, <1>3, <1>6, <2>1, SubSeqProperties
  <2>3. CASE b = 0
    BY <1>3, <2>2, <2>3
  <2>4. CASE b = 1
    <3>1. Len(p) = 1
      BY <1>3, <2>2, <2>4
    <3>2. 1 \in 1..((j + b) - (j + 1) + 1) /\ (j + 1) + 1 - 1 = j + 1
      BY <1>3, <2>4
    <3>3. p[1] = c[j + 1]
      BY <2>2, <3>2
    <3>4. 1..1 = {1}
      OBVIOUS
    <3> QED
      BY <2>2, <2>4, <3>1, <3>3, <3>4
  <2> QED
    BY <1>3, <2>3, <2>4
<1>8. PICK q : q = SubSeq(c, j + b + 1, l)
  OBVIOUS
<1>9. q \in Seq(Events) /\ Len(q) = l - (j + b) /\ \A i \in 1..(l - (j + b)) : q[i] = c[(j + b) + i]
  <2>1. PICK m \in Nat : m = j + b /\ m <= l
    BY <1>3
  <2>2. q = SubSeq(c, m + 1, l)
    BY <1>8, <2>1
  <2>3. q \in Seq(Events)
    BY <1>1, <1>2, <2>1, <2>2, SubSeqProperties
  <2>4. Len(q) = l - m
    BY <1>1, <1>2, <2>1, <2>2, SubSeqProperties
  <2>5. ASSUME NEW i \in 1..(l - m) PROVE q[i] = c[m + i]
    <3>1. m <= Len(c) /\ i \in 1..(Len(c) - m) /\ q = SubSeq(c, m + 1, Len(c))
      BY <1>2, <2>1, <2>2
    <3> QED
      BY <3>1, AfterFirst
  <2> QED
    BY <2>1, <2>3, <2>4, <2>5
<1>10. PathTypes'
  <2>1. Len(<<>>) = 0 /\ <<>> \in Seq(Events) /\ Len(p) <= 1
    BY <1>3, <1>7
  <2>2. channel' \in Seq(Events) /\ pending' \in Seq(Events) /\ Len(pending') <= 1
        /\ held' = <<>> /\ sent' = sent
    BY <1>3, <1>6, <1>7, <1>8, <1>9, <2>1
  <2> QED
    BY <2>1, <2>2 DEF PathTypes
<1>11. PICK r : r = p \o q
  OBVIOUS
<1>12. Len(r) = l - j /\ \A i \in 1..(l - j) : r[i] = c[j + i]
  <2>1. /\ Len(r) = Len(p) + Len(q)
        /\ \A i \in 1..Len(p) : r[i] = p[i]
        /\ \A i \in 1..Len(q) : r[Len(p) + i] = q[i]
    <3>1. p \in Seq(Events) /\ q \in Seq(Events)
      BY <1>7, <1>9
    <3> QED
      BY <1>11, <3>1, ConcatIs
  <2>2. Len(r) = l - j
    BY <1>2, <1>3, <1>7, <1>9, <2>1
  <2>3. ASSUME NEW i \in 1..(l - j) PROVE r[i] = c[j + i]
    <3>1. CASE i <= b
      <4>1. i \in 1..b
        BY <1>3, <2>3, <3>1
      <4> QED
        BY <1>7, <2>1, <4>1
    <3>2. CASE ~(i <= b)
      <4>1. PICK k \in 1..(l - (j + b)) : i = b + k
        <5>1. i - b \in 1..(l - (j + b)) /\ i = b + (i - b)
          BY <1>2, <1>3, <2>3, <3>2
        <5> QED
          BY <5>1
      <4>2. r[b + k] = q[k]
        BY <1>7, <1>9, <2>1
      <4>3. q[k] = c[(j + b) + k]
        BY <1>9, <4>1
      <4>4. (j + b) + k = j + i
        <5>1. k \in Int
          BY <1>2, <1>3, <4>1
        <5> QED
          BY <1>3, <4>1, <5>1
      <4> QED
        BY <4>1, <4>2, <4>3, <4>4
    <3> QED
      BY <3>1, <3>2
  <2> QED
    BY <2>2, <2>3
<1>13. Rest' = r
  <2>1. (held \o pending)' = p
    BY <1>3, <1>6, <1>7, ConcatEmptySeq
  <2> QED
    BY <1>3, <1>8, <1>11, <2>1 DEF Rest
<1>14. Left(sent, (d + 1) + j, r)
  <2>1. Len(sent) = ((d + 1) + j) + Len(r)
    BY <1>2, <1>3, <1>5, <1>12
  <2>2. ASSUME NEW i \in 1..Len(r) PROVE sent[((d + 1) + j) + i] = r[i]
    <3>1. i \in 1..(l - j)
      BY <1>12
    <3>2. j + i \in 1..l /\ ((d + 1) + j) + i = d + (1 + (j + i))
      BY <1>2, <1>3, <3>1
    <3>3. sent[d + (1 + (j + i))] = c[j + i]
      BY <1>5, <3>2
    <3> QED
      BY <1>12, <3>1, <3>2, <3>3
  <2> QED
    BY <2>1, <2>2 DEF Left
<1>15. PICK h : h = SubSeq(c, 1, j)
  OBVIOUS
<1>16. Len(h) = j /\ (\A i \in 1..j : h[i] = c[i]) /\ h \in Seq(TurnEvents)
  <2>1. Len(h) = j /\ h \in Seq(Events) /\ \A i \in 1..j : h[i] = c[i]
    BY <1>2, <1>3, <1>15
  <2>2. \A i \in 1..j : h[i] \in TurnEvents
    BY <1>3, <2>1
  <2>3. h \in [1..j -> TurnEvents]
    <3>1. DOMAIN h = 1..j /\ h = [i \in 1..j |-> h[i]]
      BY <2>1
    <3> QED
      BY <2>2, <3>1
  <2> QED
    BY <1>3, <2>1, <2>3
<1>17. PICK s : s = <<e>> \o h
  OBVIOUS
<1>18. s \in Seq(TurnEvents) /\ Len(s) = 1 + j /\ s[1] = e /\ \A i \in 1..j : s[1 + i] = h[i]
  <2>1. <<e>> \in Seq(TurnEvents) /\ Len(<<e>>) = 1 /\ <<e>>[1] = e /\ 1 \in 1..1
    BY <1>3
  <2> QED
    BY <1>16, <1>17, <2>1, ConcatIs
<1>19. ASSUME NEW i \in 1..(1 + j) PROVE s[i] = sent[d + i]
  <2>1. CASE i = 1
    BY <1>5, <1>18, <2>1
  <2>2. CASE i # 1
    <3>1. PICK k \in 1..j : i = 1 + k
      <4>1. i - 1 \in 1..j /\ i = 1 + (i - 1)
        BY <1>3, <1>19, <2>2
      <4> QED
        BY <4>1
    <3>2. k \in 1..l
      BY <1>2, <1>3
    <3> QED
      BY <1>5, <1>16, <1>18, <3>1, <3>2
  <2> QED
    BY <2>1, <2>2
<1> QED
  BY <1>1, <1>10, <1>13, <1>14, <1>15, <1>17, <1>18, <1>19

LEMMA ApplyBatchKeeps ==
    ASSUME TimelineAssumption, TimelineInv, ApplyBatch
    PROVE  TimelineInv'
<1>1. PathTypes /\ ViewInv /\ ListInv
  BY DEF TimelineInv
<1>2. PICK e, j, b, v : Batch(e, j, b, v)
  BY <1>1, BatchIs DEF TimelineAssumption
<1>3. PICK d \in Nat : Left(sent, d, Rest) /\ ShowsLog(View, sent, d)
  BY DEF TimelineInv, PathInv, Rest
<1>4. PICK o : o = View
  OBVIOUS
<1>5. PICK s : s = <<e>> \o SubSeq(channel, 1, j)
  OBVIOUS
<1>6. /\ PathTypes'
      /\ Left(sent, (d + 1) + j, Rest')
      /\ s \in Seq(TurnEvents)
      /\ Len(s) = 1 + j
      /\ \A i \in 1..(1 + j) : s[i] = sent[d + i]
  BY <1>1, <1>2, <1>3, <1>5, BatchLeaves
<1>7. j \in Nat
  BY <1>2 DEF Batch
<1>8. DOMAIN s = 1..(1 + j) /\ \A i \in 1..(1 + j) : s[i] \in TurnEvents
  BY <1>6, <1>7
<1>9. ASSUME NEW i \in DOMAIN s PROVE s[i] = sent[d + i] /\ s[i] # Reset /\ s[i].n = d + i
  <2>1. s[i] = sent[d + i] /\ s[i] \in TurnEvents
    BY <1>6, <1>8
  <2>2. s[i] # Reset
    BY <2>1 DEF TurnEvents, Reset, Kinds
  <2>3. d + i \in DOMAIN sent
    <3>1. sent \in Seq(Events) /\ channel \in Seq(Events)
      BY <1>1 DEF PathTypes
    <3>2. Len(sent) = d + Len(Rest)
      BY <1>3 DEF Left
    <3>3. Len(sent) = ((d + 1) + j) + Len(Rest')
      BY <1>6 DEF Left
    <3>4. Len(Rest') \in Nat
      <4>1. Rest' \in Seq(Events)
        <5>1. channel' \in Seq(Events) /\ pending' \in Seq(Events) /\ held' \in Seq(Events)
          BY <1>6 DEF PathTypes
        <5>2. (held \o pending)' \in Seq(Events)
          BY <5>1, ConcatIs
        <5> QED
          BY <5>1, <5>2, ConcatIs DEF Rest
      <4> QED
        BY <4>1
    <3>5. DOMAIN sent = 1..Len(sent)
      BY <3>1
    <3> QED
      BY <1>7, <1>8, <3>3, <3>4, <3>5
  <2>4. sent[d + i] # Reset => sent[d + i].n = d + i
    BY <1>1, <2>3 DEF PathTypes
  <2> QED
    BY <2>1, <2>2, <2>4
<1>10. Follows(o, o)
  <2>1. ViewTypes(o) /\ Exact(o) /\ Once(o)
    BY <1>1, <1>4 DEF ViewInv
  <2>2. Grows(o, o)
    BY DEF Grows
  <2> QED
    BY <2>1, <2>2 DEF Follows
<1>11. v = FoldLeft(ApplyTimeline, o, s)
  BY <1>2, <1>4, <1>5 DEF Batch
<1>12. Follows(o, v) /\ ShowsLog(v, sent, d + Len(s))
  <2>1. GoesOn(s, sent, d)
    BY <1>9 DEF GoesOn
  <2>2. ShowsLog(o, sent, d)
    BY <1>3, <1>4
  <2> QED
    BY <1>6, <1>10, <1>11, <2>1, <2>2, BatchFollows
<1>13. ViewTypes(v) /\ Exact(v) /\ Once(v) /\ ShowsLog(v, sent, (d + 1) + j)
  <2>1. d + Len(s) = (d + 1) + j
    BY <1>6, <1>7
  <2> QED
    BY <1>12, <2>1 DEF Follows
<1>14. PICK x : x = View'
  OBVIOUS
<1>15. x = [timeline |-> v.timeline, byTurn |-> v.byTurn, byAgent |-> v.byAgent,
            advanced |-> v.advanced, dirty |-> {}]
  BY <1>2, <1>14 DEF Batch, View
<1>16. ViewTypes(x) /\ Exact(x) /\ Once(x) /\ ShowsLog(x, sent, (d + 1) + j)
  BY <1>13, <1>15, Forgets
<1>17. ViewInv'
  BY <1>14, <1>16 DEF ViewInv
<1>18. PathInv'
  <2>1. PICK n \in Nat : n = (d + 1) + j
    BY <1>7
  <2>2. sent' = sent
    BY <1>2 DEF Batch
  <2>3. Left(sent', n, Rest') /\ ShowsLog(View', sent', n)
    BY <1>6, <1>14, <1>16, <2>1, <2>2
  <2> QED
    BY <2>3 DEF PathInv, Rest
<1>19. ListInv'
  <2>1. timeline' = v.timeline /\ byAgent' = v.byAgent /\ rows' = Flush(v)
        /\ selected' = selected /\ listAgent' = listAgent
    BY <1>2 DEF Batch
  <2>2. ViewTypes(o) /\ Exact(o) /\ NoAgent \notin Agents
    BY <1>10 DEF Follows, TimelineAssumption
  <2> QED
    BY <1>1, <1>4, <1>12, <2>1, <2>2, FlushKeeps
<1>20. SleepFollowsTurns'
  <2>1. /\ timeline' = v.timeline
        /\ awake' = \E i \in DOMAIN v.timeline : v.timeline[i].status = "running"
    BY <1>2 DEF Batch
  <2> QED
    BY <2>1 DEF SleepFollowsTurns
<1> QED
  BY <1>6, <1>17, <1>18, <1>19, <1>20 DEF TimelineInv

LEMMA TimelineStarts ==
    ASSUME Init PROVE TimelineInv
<1>1. PICK x : x = View
  OBVIOUS
<1>2. channel = <<>> /\ pending = <<>> /\ held = <<>> /\ sent = <<>>
      /\ selected \in Agents \cup {NoAgent}
      /\ rows = <<>> /\ listAgent = NoAgent /\ timeline = <<>> /\ awake = FALSE
  BY DEF Init
<1>3. Cleared(x)
  BY <1>1 DEF Init, View, Cleared
<1>4. ViewInv
  BY <1>1, <1>3, ClearedShows DEF ViewInv
<1>5. PathTypes
  BY <1>2 DEF PathTypes
<1>6. PathInv
  <2>1. SinceReset(<<>>, 0) = {}
    BY AfterReset
  <2>2. ShowsLog(x, <<>>, 0)
    BY <1>3, <2>1, ClearedShows
  <2>3. Left(<<>>, 0, <<>>)
    BY DEF Left
  <2>4. <<>> \o <<>> \o <<>> = <<>>
    BY ConcatEmptySeq
  <2> QED
    BY <1>1, <1>2, <2>2, <2>3, <2>4 DEF PathInv
<1>7. ListInv
  BY <1>2 DEF ListInv, RowsAreCurrent
<1>8. SleepFollowsTurns
  BY <1>2 DEF SleepFollowsTurns
<1> QED
  BY <1>4, <1>5, <1>6, <1>7, <1>8 DEF TimelineInv

LEMMA TimelineStep ==
    ASSUME TimelineAssumption, TimelineInv, [Next]_vars
    PROVE  TimelineInv'
<1>1. NoAgent \notin Agents
  BY DEF TimelineAssumption
<1>2. CASE UNCHANGED vars
  <2>1. UNCHANGED <<pathVars, turnVars, awake, sent>> /\ rows' = rows /\ selected' = selected
        /\ listAgent' = listAgent /\ byAgent' = byAgent /\ timeline' = timeline
    BY <1>2 DEF vars, listVars, turnVars
  <2>2. ListInv'
    BY <2>1 DEF TimelineInv, ListInv, RowsAreCurrent
  <2> QED
    BY <2>1, <2>2, ListOnly
<1>3. ASSUME NEW event \in Events, Send(event) PROVE TimelineInv'
  BY <1>3, SentKeeps
<1>4. CASE Take
  BY <1>4, TakeKeeps
<1>5. CASE ApplyReset
  BY <1>5, ApplyResetKeeps
<1>6. CASE ApplyBatch
  BY <1>6, ApplyBatchKeeps
<1>7. ASSUME NEW a \in Agents, Select(a) PROVE TimelineInv'
  BY <1>1, <1>7, SelectKeeps
<1>8. ASSUME NEW a \in Agents \cup {NoAgent}, Reselect(a) PROVE TimelineInv'
  BY <1>8, ReselectKeeps
<1>9. CASE Render
  BY <1>1, <1>9, RenderKeeps
<1>10. CASE Connect
  BY <1>10, ConnectKeeps
<1> QED
  BY <1>2, <1>3, <1>4, <1>5, <1>6, <1>7, <1>8, <1>9, <1>10 DEF Next

\* The inductive invariant is one of the composition, of which a step is a step
\* of the timeline or leaves it alone.
LEMMA TimelineHolds == ConversationSpec => []TimelineInv
<1>1. ConversationInit => TimelineInv
  BY TimelineStarts DEF ConversationInit
<1>2. TimelineInv /\ [ConversationNext]_allVars => TimelineInv'
  BY ConversationAssumption, TimelineStep, StepOfEach DEF ConversationAssumption
<1> QED
  BY <1>1, <1>2, PTL DEF ConversationSpec

\* The timeline shows what the events say that the event task has applied, and
\* it holds the others in the order in which they were sent, whatever the
\* batches are (take_streaming_batch, apply_timeline).
THEOREM TimelineShowsLog == ConversationSpec => []ShowsWhatWasSent
<1>1. TimelineInv => ShowsWhatWasSent
  <2> SUFFICES ASSUME TimelineInv PROVE ShowsWhatWasSent
    OBVIOUS
  <2>1. PICK d \in Nat : Left(sent, d, Rest) /\ ShowsLog(View, sent, d)
    BY DEF TimelineInv, PathInv, Rest
  <2>2. PICK r \in Seq(Events) : r = Rest
    BY RestIs DEF TimelineInv
  <2>3. PICK log \in Seq(Events) : log = sent
    BY DEF TimelineInv, PathTypes
  <2>4. PICK n \in Nat : n = Len(r)
    BY <2>2
  <2>5. Len(log) = d + n /\ \A i \in 1..n : log[d + i] = r[i]
    BY <2>1, <2>2, <2>3, <2>4 DEF Left
  <2>6. Len(log) - Len(r) = d
    BY <2>4, <2>5
  <2>7. PICK s : s = SubSeq(log, 1, d)
    OBVIOUS
  <2>8. s \in Seq(Events) /\ Len(s) = d /\ \A i \in 1..d : s[i] = log[i]
    BY <2>4, <2>5, <2>7
  <2>9. log = s \o r
    <3>1. /\ s \o r \in Seq(Events) /\ Len(s \o r) = d + n
          /\ \A i \in 1..d : (s \o r)[i] = s[i]
          /\ \A i \in 1..n : (s \o r)[d + i] = r[i]
      <4>1. /\ s \o r \in Seq(Events) /\ Len(s \o r) = Len(s) + Len(r)
            /\ \A i \in 1..Len(s) : (s \o r)[i] = s[i]
            /\ \A i \in 1..Len(r) : (s \o r)[Len(s) + i] = r[i]
        <5>1. s \in Seq(Events) /\ r \in Seq(Events)
          BY <2>2, <2>8
        <5> QED
          BY <5>1, ConcatIs
      <4> QED
        BY <2>4, <2>8, <4>1
    <3>2. ASSUME NEW i \in 1..(d + n) PROVE log[i] = (s \o r)[i]
      <4>1. CASE i <= d
        <5>1. i \in 1..d
          BY <3>2, <4>1
        <5> QED
          BY <2>8, <3>1, <5>1
      <4>2. CASE ~(i <= d)
        <5>1. PICK k \in 1..n : i = d + k
          <6>1. i - d \in 1..n /\ i = d + (i - d)
            BY <2>4, <3>2, <4>2
          <6> QED
            BY <6>1
        <5> QED
          BY <2>5, <3>1, <5>1
      <4> QED
        BY <4>1, <4>2
    <3> QED
      BY <2>5, <3>1, <3>2, SeqEqual
  <2> QED
    BY <2>1, <2>2, <2>3, <2>6, <2>7, <2>9 DEF ShowsWhatWasSent, Rest
<1> QED
  BY <1>1, TimelineHolds, PTL

\* The index finds every turn, the rows of the list are of the turns that they
\* show, and the computer is awake while a turn is running (TimelineIndex,
\* flush_timeline_list_updates, sync_sleep_preventer).
THEOREM TurnsStayTracked == ConversationSpec => []TurnsAreTracked
<1>1. TimelineInv => TurnsAreTracked
  <2> SUFFICES ASSUME TimelineInv PROVE TurnsAreTracked
    OBVIOUS
  <2>1. PICK v : v = View
    OBVIOUS
  <2>2. v.timeline = timeline /\ v.byTurn = byTurn /\ v.byAgent = byAgent
    BY <2>1 DEF View
  <2>3. Exact(v) /\ timeline \in Seq(TurnSet) /\ DOMAIN byTurn \in SUBSET Keys
    BY <2>1, <2>2 DEF TimelineInv, ViewInv, ViewTypes
  <2>4. /\ \A j \in DOMAIN timeline : timeline[j].key \in DOMAIN byTurn
        /\ \A k \in DOMAIN byTurn :
              /\ byTurn[k].turn \in DOMAIN timeline
              /\ timeline[byTurn[k].turn].key = k
              /\ byTurn[k].row \in DOMAIN byAgent[k[1]]
              /\ byAgent[k[1]][byTurn[k].row] = byTurn[k].turn
        /\ \A a \in Agents : Len(byAgent[a]) = Cardinality({k \in DOMAIN byTurn : k[1] = a})
    <3>1. \A j \in DOMAIN v.timeline : TurnAt(v, j)
      BY <2>3 DEF Exact
    <3>2. \A k \in DOMAIN v.byTurn : KeyAt(v, k)
      BY <2>3 DEF Exact
    <3>3. \A a \in Agents :
              Len(v.byAgent[a]) = Cardinality({k \in DOMAIN v.byTurn : k[1] = a})
      BY <2>3 DEF Exact
    <3>4. \A j \in DOMAIN timeline : timeline[j].key \in DOMAIN byTurn
      BY <2>2, <3>1 DEF TurnAt
    <3>5. \A k \in DOMAIN byTurn :
              /\ byTurn[k].turn \in DOMAIN timeline
              /\ timeline[byTurn[k].turn].key = k
              /\ byTurn[k].row \in DOMAIN byAgent[k[1]]
              /\ byAgent[k[1]][byTurn[k].row] = byTurn[k].turn
      BY <2>2, <3>2 DEF KeyAt
    <3> QED
      BY <2>2, <3>3, <3>4, <3>5
  <2>5. DOMAIN byTurn = {timeline[i].key : i \in DOMAIN timeline}
    BY <2>4
  <2>6. IndexIsExact
    BY <2>4, <2>5 DEF IndexIsExact
  <2>7. RowsAreCurrent /\ SleepFollowsTurns
    BY DEF TimelineInv, ListInv
  <2> QED
    BY <2>6, <2>7 DEF TurnsAreTracked
<1> QED
  BY <1>1, TimelineHolds, PTL

\* A turn advances its agent's queue exactly once, with its first completion
\* (turn_completion_actions).
THEOREM OneAdvance == ConversationSpec => []FirstCompletionAdvances
<1>1. TimelineInv => FirstCompletionAdvances
  <2> SUFFICES ASSUME TimelineInv PROVE FirstCompletionAdvances
    OBVIOUS
  <2>1. PICK v : v = View
    OBVIOUS
  <2>2. v.timeline = timeline /\ v.byTurn = byTurn /\ v.advanced = advanced
    BY <2>1 DEF View
  <2>3. Once(v)
    BY <2>1 DEF TimelineInv, ViewInv
  <2> QED
    BY <2>2, <2>3 DEF Once, IsOver, FirstCompletionAdvances
<1> QED
  BY <1>1, TimelineHolds, PTL
=============================================================================
