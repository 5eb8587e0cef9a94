--------------------------- MODULE RpcSessionProofs ---------------------------
(***************************************************************************)
(* PendingHasAnOwner for any number of callers and heartbeats, whatever    *)
(* the capacities of the command and the cancellation queue.               *)
(***************************************************************************)
EXTENDS RpcSession, SequenceTheorems, TLAPS

\* Sequences as queues.
LEMMA AppendFacts ==
    ASSUME NEW S, NEW s \in Seq(S), NEW e \in S
    PROVE  ToSet(Append(s, e)) = ToSet(s) \cup {e}
BY AppendProperties, LenProperties DEF ToSet

LEMMA TailFacts ==
    ASSUME NEW S, NEW s \in Seq(S), s # <<>>
    PROVE  ToSet(s) \subseteq {Head(s)} \cup ToSet(Tail(s))
<1>1. Len(s) \in Nat /\ Len(s) >= 1 /\ DOMAIN s = 1..Len(s) /\ Head(s) = s[1]
  BY EmptySeq, LenProperties
<1>2. /\ Tail(s) \in Seq(S) /\ Len(Tail(s)) = Len(s) - 1 /\ DOMAIN Tail(s) = 1..Len(Tail(s))
      /\ \A i \in 1..Len(Tail(s)) : Tail(s)[i] = s[i + 1]
  BY HeadTailProperties, LenProperties
<1>3. \A i \in 1..Len(s) : i = 1 \/ (i - 1 \in 1..Len(Tail(s)) /\ Tail(s)[i - 1] = s[i])
  BY <1>1, <1>2
<1> SUFFICES ASSUME NEW x \in ToSet(s) PROVE x \in {Head(s)} \cup ToSet(Tail(s))
  OBVIOUS
<1>4. PICK i \in 1..Len(s) : x = s[i]
  BY <1>1 DEF ToSet
<1> QED
  BY <1>1, <1>2, <1>3, <1>4 DEF ToSet

-----------------------------------------------------------------------------
Types ==
    /\ call \in [Ids -> {"idle", "blocked", "waiting"}]
    /\ queue \in Seq(Ids \cup {"close"})
    /\ cancels \in Seq(Ids)
    /\ pending \subseteq Ids
    /\ driver = "writing" => writing \in Ids

\* The driver takes the whole table with it.
EndedIsEmpty == driver = "ended" => pending = {}

SessionInv == Types /\ EndedIsEmpty /\ PendingHasAnOwner

LEMMA ReturnFacts ==
    ASSUME NEW c \in Ids, NEW value, Types, Return(c, value)
    PROVE  /\ call' \in [Ids -> {"idle", "blocked", "waiting"}]
           /\ call'[c] = "idle" /\ \A x \in Ids \ {c} : call'[x] = call[x]
BY DEF Types, Return

\* submit of rpc and of ping: with room, without, or with the driver gone.
LEMMA SubmitInv ==
    ASSUME SessionInv, NEW c \in Ids, Unused(c), Submit(c),
           UNCHANGED <<cancels, pending, driverVars>>
    PROVE  SessionInv'
<1>1. c \notin pending /\ refused' = refused \ {c}
  BY DEF Unused, Submit
<1>2. /\ call' \in [Ids -> {"idle", "blocked", "waiting"}]
      /\ \A x \in Ids \ {c} : call'[x] = call[x]
  BY ReturnFacts DEF Submit, SessionInv, Types
<1>3. queue' \in Seq(Ids \cup {"close"})
  BY AppendProperties DEF Submit, SessionInv, Types
<1> QED
  BY <1>1, <1>2, <1>3
  DEF SessionInv, Types, EndedIsEmpty, PendingHasAnOwner, driverVars

\* A caller that gives up leaves a cancellation behind, or is refused one.
LEMMA GiveUpInv ==
    ASSUME SessionInv, NEW c \in Ids, call[c] = "waiting", Return(c, "failed"), Cancel(c),
           UNCHANGED <<queue, pending, driverVars>>
    PROVE  SessionInv'
<1>1. /\ call' \in [Ids -> {"idle", "blocked", "waiting"}]
      /\ call'[c] = "idle" /\ \A x \in Ids \ {c} : call'[x] = call[x]
  BY ReturnFacts DEF SessionInv
<1>2. CASE driver = "ended"
  <2>1. cancels' = cancels /\ pending' = {} /\ UNCHANGED <<queue, driver, writing>>
    BY <1>2 DEF Cancel, SessionInv, EndedIsEmpty, driverVars
  <2> QED
    BY <1>1, <1>2, <2>1 DEF SessionInv, Types, EndedIsEmpty, PendingHasAnOwner
<1>3. CASE driver # "ended" /\ Len(cancels) < CancelCapacity
  <2>1. cancels' = Append(cancels, c) /\ refused' = refused
    BY <1>3 DEF Cancel
  <2>2. cancels' \in Seq(Ids) /\ ToSet(cancels') = ToSet(cancels) \cup {c}
    BY <2>1, AppendProperties, AppendFacts DEF SessionInv, Types
  <2> QED
    BY <1>1, <1>3, <2>1, <2>2
    DEF SessionInv, Types, EndedIsEmpty, PendingHasAnOwner, driverVars
<1>4. CASE driver # "ended" /\ ~(Len(cancels) < CancelCapacity)
  <2>1. cancels' = cancels /\ refused' = refused \cup {c}
    BY <1>4 DEF Cancel
  <2> QED
    BY <1>1, <1>4, <2>1
    DEF SessionInv, Types, EndedIsEmpty, PendingHasAnOwner, driverVars
<1> QED
  BY <1>2, <1>3, <1>4

LEMMA CallersInv ==
    ASSUME SessionInv,
           \/ \E c \in Calls : Dispatch(c) \/ DropCall(c)
           \/ \E c \in Ids : Unblock(c) \/ TimeOut(c) \/ Answer(c)
    PROVE  SessionInv'
<1>1. ASSUME NEW c \in Calls, Dispatch(c) PROVE SessionInv'
  <2>1. CASE active
    BY <1>1, <2>1, SubmitInv DEF Dispatch, Ids
  <2>2. CASE ~active
    <3>1. Return(c, "failed") /\ UNCHANGED <<tableVars, driverVars>> /\ c \in Ids
      BY <1>1, <2>2 DEF Dispatch, Ids, tableVars
    <3>2. /\ call' \in [Ids -> {"idle", "blocked", "waiting"}]
          /\ call'[c] = "idle" /\ \A x \in Ids \ {c} : call'[x] = call[x]
      BY <3>1, ReturnFacts DEF SessionInv
    <3>3. c \notin pending
      BY <1>1 DEF Dispatch, Unused
    <3> QED
      BY <3>1, <3>2, <3>3
      DEF SessionInv, Types, EndedIsEmpty, PendingHasAnOwner, driverVars, tableVars
  <2> QED
    BY <2>1, <2>2
<1>2. ASSUME NEW c \in Calls, DropCall(c) PROVE SessionInv'
  <2>1. c \in Ids /\ Return(c, "failed") /\ UNCHANGED <<queue, pending, driverVars>>
    BY <1>2 DEF DropCall, Ids
  <2>2. CASE call[c] = "waiting"
    BY <1>2, <2>1, <2>2, GiveUpInv DEF DropCall
  <2>3. CASE call[c] = "blocked"
    <3>1. UNCHANGED <<cancels, refused>>
      BY <1>2, <2>3 DEF DropCall
    <3>2. /\ call' \in [Ids -> {"idle", "blocked", "waiting"}]
          /\ call'[c] = "idle" /\ \A x \in Ids \ {c} : call'[x] = call[x]
      BY <2>1, ReturnFacts DEF SessionInv
    <3> QED
      BY <2>1, <2>3, <3>1, <3>2
      DEF SessionInv, Types, EndedIsEmpty, PendingHasAnOwner, driverVars
  <2> QED
    BY <1>2, <2>1, <2>2, <2>3 DEF DropCall, SessionInv, Types
<1>3. ASSUME NEW c \in Ids, Unblock(c) PROVE SessionInv'
  <2>1. queue' \in Seq(Ids \cup {"close"})
    BY <1>3, AppendProperties DEF Unblock, SessionInv, Types
  <2> QED
    BY <1>3, <2>1
    DEF Unblock, SessionInv, Types, EndedIsEmpty, PendingHasAnOwner, driverVars
<1>4. ASSUME NEW c \in Ids, TimeOut(c) PROVE SessionInv'
  BY <1>4, GiveUpInv DEF TimeOut
<1>5. ASSUME NEW c \in Ids, Answer(c) PROVE SessionInv'
  BY <1>5
  DEF Answer, SessionInv, Types, EndedIsEmpty, PendingHasAnOwner, driverVars,
      callerVars, tableVars
<1> QED
  BY <1>1, <1>2, <1>3, <1>4, <1>5

LEMMA EndSessionInv ==
    ASSUME SessionInv, NEW reason, EndSession(reason)
    PROVE  SessionInv'
BY EmptySeq
DEF EndSession, SessionInv, Types, EndedIsEmpty, PendingHasAnOwner, ToSet

\* The select loop of drive_session.
LEMMA DriverInv == SessionInv /\ DriverStep => SessionInv'
<1> SUFFICES ASSUME SessionInv, DriverStep PROVE SessionInv'
  OBVIOUS
<1>1. CASE TakeCancel
  <2>1. cancels \in Seq(Ids) /\ cancels # <<>>
    BY <1>1 DEF TakeCancel, SessionInv, Types
  <2>2. cancels' \in Seq(Ids) /\ ToSet(cancels) \subseteq {Head(cancels)} \cup ToSet(cancels')
    BY <1>1, <2>1, TailFacts, HeadTailProperties DEF TakeCancel
  <2> QED
    BY <1>1, <2>2
    DEF TakeCancel, SessionInv, Types, EndedIsEmpty, PendingHasAnOwner, driverVars, callerVars
<1>2. CASE SkipCommand
  <2>1. queue' \in Seq(Ids \cup {"close"})
    BY <1>2, HeadTailProperties DEF SkipCommand, TakingCommand, SessionInv, Types
  <2> QED
    BY <1>2, <2>1
    DEF SkipCommand, SessionInv, Types, EndedIsEmpty, PendingHasAnOwner,
        driverVars, callerVars
<1>3. CASE StartWrite
  <2>1. queue' \in Seq(Ids \cup {"close"}) /\ Head(queue) \in Ids
    BY <1>3, HeadTailProperties DEF StartWrite, TakingCommand, SessionInv, Types
  <2> QED
    BY <1>3, <2>1
    DEF StartWrite, SessionInv, Types, EndedIsEmpty, PendingHasAnOwner, callerVars
<1>4. CASE FinishWrite
  BY <1>4
  DEF FinishWrite, SessionInv, Types, EndedIsEmpty, PendingHasAnOwner, callerVars
<1>5. CASE StartClose
  <2>1. queue' \in Seq(Ids \cup {"close"})
    BY <1>5, HeadTailProperties DEF StartClose, TakingCommand, SessionInv, Types
  <2> QED
    BY <1>5, <2>1 DEF StartClose, SessionInv, Types, EndedIsEmpty, PendingHasAnOwner, callerVars
<1>6. ASSUME NEW c \in Ids, TakeReply(c) PROVE SessionInv'
  <2>1. CASE c \in pending /\ call[c] = "waiting"
    <3>1. Return(c, "ok") /\ pending' = pending \ {c} /\ UNCHANGED <<queue, cancels, refused, driverVars>>
      BY <1>6, <2>1 DEF TakeReply
    <3>2. /\ call' \in [Ids -> {"idle", "blocked", "waiting"}]
          /\ call'[c] = "idle" /\ \A x \in Ids \ {c} : call'[x] = call[x]
      BY <3>1, ReturnFacts DEF SessionInv
    <3> QED
      BY <3>1, <3>2
      DEF SessionInv, Types, EndedIsEmpty, PendingHasAnOwner, driverVars
  <2>2. CASE ~(c \in pending /\ call[c] = "waiting")
    <3>1. pending' \subseteq pending /\ UNCHANGED <<call, queue, cancels, refused, driver, writing>>
      BY <1>6, <2>2 DEF TakeReply, callerVars, driverVars
    <3> QED
      BY <3>1 DEF SessionInv, Types, EndedIsEmpty, PendingHasAnOwner
  <2> QED
    BY <2>1, <2>2
<1>7. CASE FinishClose \/ SeeFailure
  BY <1>7, EndSessionInv DEF FinishClose, SeeFailure
<1>8. CASE StartPong \/ FinishPong
  BY <1>8
  DEF StartPong, FinishPong, ReadingSocket, Selecting, SessionInv, Types, EndedIsEmpty,
      PendingHasAnOwner, callerVars, tableVars
<1> QED
  BY <1>1, <1>2, <1>3, <1>4, <1>5, <1>6, <1>7, <1>8 DEF DriverStep

\* The loop at the end of run_attempt.
LEMMA SupervisorInv == SessionInv /\ SupervisorStep => SessionInv'
<1> SUFFICES ASSUME SessionInv, SupervisorStep PROVE SessionInv'
  OBVIOUS
<1>1. ASSUME NEW p \in Pings, Tick(p) PROVE SessionInv'
  BY <1>1, SubmitInv DEF Tick, Ids
<1>2. CASE SendClose
  <2>1. queue' \in Seq(Ids \cup {"close"})
    BY <1>2, AppendProperties DEF SendClose, SessionInv, Types
  <2> QED
    BY <1>2, <2>1
    DEF SendClose, SessionInv, Types, EndedIsEmpty, PendingHasAnOwner,
        driverVars, callerVars
<1>3. CASE PingAnswered \/ PingFailed \/ SeeShutdown \/ SeeEnd \/ Closed
  BY <1>3
  DEF PingAnswered, PingFailed, SeeShutdown, SeeEnd, Closed, SessionInv, Types,
      EndedIsEmpty, PendingHasAnOwner, driverVars, callerVars, tableVars
<1> QED
  BY <1>1, <1>2, <1>3 DEF SupervisorStep

\* client.rs (drive_session, RequestCancellation::drop): for any number of
\* callers and any capacities, an entry of the waiting tables has a caller that
\* waits, a cancellation on its way, or lost its cancellation to a full queue.
THEOREM NoOrphans == Spec => []PendingHasAnOwner
<1>1. Init => SessionInv
  BY EmptySeq
  DEF Init, SessionInv, Types, EndedIsEmpty, PendingHasAnOwner, ToSet
<1>2. SessionInv /\ [Next]_vars => SessionInv'
  <2> SUFFICES ASSUME SessionInv, [Next]_vars PROVE SessionInv'
    OBVIOUS
  <2>1. CASE FallSilent \/ Break \/ DropRuntime
    BY <2>1
    DEF FallSilent, Break, DropRuntime, SessionInv, Types, EndedIsEmpty,
        PendingHasAnOwner, driverVars, callerVars, tableVars
  <2>2. CASE UNCHANGED vars
    BY <2>2
    DEF vars, SessionInv, Types, EndedIsEmpty, PendingHasAnOwner, driverVars,
        callerVars, tableVars
  <2> QED
    BY <2>1, <2>2, CallersInv, DriverInv, SupervisorInv DEF Next
<1>3. SessionInv => PendingHasAnOwner
  BY DEF SessionInv
<1> QED
  BY <1>1, <1>2, <1>3, PTL DEF Spec
=============================================================================
