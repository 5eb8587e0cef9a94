--------------------------- MODULE EventSyncProofs ---------------------------
(***************************************************************************)
(* What TLAPS proves of EventSync, for every set of daemon identities, any *)
(* number of events and any number of faults.                              *)
(***************************************************************************)
EXTENDS EventSync, SequenceTheorems, TLAPS

USE ServersAssumption, BoundsAssumption

(***************************************************************************)
(* Helpers on frames.                                                      *)
(***************************************************************************)

LEMMA EndToType ==
    ASSUME NEW p \in Phases, EndTo(p)
    PROVE  /\ phase' \in Phases
           /\ phase' = p /\ peer' = NoServer
           /\ requested' \in Cursors
           /\ sync' \in SyncData
           /\ lost' \in Nat
           /\ wire' \in Seq(Messages)
BY DEF EndTo, NoCursor, NoSync, Cursors, SyncData

LEMMA ConsumeType ==
    ASSUME wire \in Seq(Messages), wire # <<>>, Consume
    PROVE  wire' \in Seq(Messages)
BY DEF Consume

LEMMA EmptySeqType ==
    ASSUME NEW S
    PROVE  <<>> \in Seq(S)
OBVIOUS

LEMMA HeadType ==
    ASSUME wire \in Seq(Messages), wire # <<>>
    PROVE  Head(wire) \in Messages
OBVIOUS

LEMMA SyncMessageType ==
    ASSUME NEW m \in Messages, m.type \in {"begin", "complete"}
    PROVE  m.data \in SyncData
BY DEF Messages

LEMMA EventMessageType ==
    ASSUME NEW m \in Messages, m.type = "event"
    PROVE  m.seq \in Nat \ {0} /\ m.kind \in Kinds
BY DEF Messages

LEMMA EventIsMessage ==
    ASSUME NEW n \in Nat \ {0}, NEW k \in Kinds
    PROVE  Event(n, k) \in Messages
BY DEF Event, Messages

LEMMA ReplayType ==
    ASSUME log \in [Servers -> Seq(Kinds)], NEW s \in Servers, NEW from \in Nat
    PROVE  Replay(s, from) \in Seq(Messages)
<1>1. log[s] \in Seq(Kinds)
  OBVIOUS
<1>2. ASSUME NEW i \in 1..(Len(log[s]) - from)
      PROVE  Event(from + i, log[s][from + i]) \in Messages
  <2>1. from + i \in Nat \ {0} /\ from + i \in 1..Len(log[s])
    BY <1>1
  <2>2. log[s][from + i] \in Kinds
    BY <1>1, <2>1
  <2> QED BY <2>1, <2>2, EventIsMessage
<1>3. CASE from <= Len(log[s])
  <2>1. Len(log[s]) - from \in Nat
    BY <1>1, <1>3
  <2> QED BY <1>2, <2>1 DEF Replay
<1>4. CASE from > Len(log[s])
  <2>1. 1..(Len(log[s]) - from) = {} /\ 1..0 = {}
    BY <1>1, <1>4
  <2>2. Replay(s, from) \in [1..0 -> Messages]
    BY <2>1 DEF Replay
  <2> QED BY <2>2, SeqDef
<1> QED BY <1>1, <1>3, <1>4

\* A trusted daemon's answer consists of messages.
LEMMA AnswerType ==
    ASSUME TypeOK, peer \in Servers, NEW reset \in BOOLEAN,
           ~reset => MayResume(peer, requested)
    PROVE  Answer(reset) \in Seq(Messages)
<1> DEFINE from == IF reset THEN kept[peer] ELSE requested.after
           data == [after |-> requested.after, from |-> from,
                    latest |-> Len(log[peer]), reset |-> reset]
<1>1. from \in Nat /\ requested.after \in Nat /\ log[peer] \in Seq(Kinds)
  BY DEF TypeOK, Cursors
<1>2. data \in SyncData
  BY <1>1 DEF SyncData
<1>3. Info \in Messages /\ Begin(data) \in Messages /\ Complete(data) \in Messages
  BY <1>2 DEF Info, Begin, Complete, Messages
<1>4. Replay(peer, from) \in Seq(Messages)
  BY <1>1, ReplayType DEF TypeOK
<1>5. CASE peer \in Legacy
  BY <1>3, <1>5 DEF Answer
<1>6. CASE peer \notin Legacy
  <2>1. Answer(reset) = <<Info, Begin(data)>> \o Replay(peer, from) \o <<Complete(data)>>
    BY <1>6 DEF Answer
  <2>2. <<Info, Begin(data)>> \in Seq(Messages) /\ <<Complete(data)>> \in Seq(Messages)
    BY <1>3
  <2> HIDE DEF data, from
  <2> QED BY <1>4, <2>1, <2>2
<1> QED BY <1>5, <1>6

\* The only begin in an answer carries the daemon's choice.
LEMMA AnswerBegins ==
    ASSUME TypeOK, peer \in Servers, NEW reset \in BOOLEAN,
           ~reset => MayResume(peer, requested),
           NEW i \in DOMAIN Answer(reset), Answer(reset)[i].type = "begin"
    PROVE  Answer(reset)[i].data.reset = reset
<1> DEFINE from == IF reset THEN kept[peer] ELSE requested.after
           data == [after |-> requested.after, from |-> from,
                    latest |-> Len(log[peer]), reset |-> reset]
           r == Replay(peer, from)
<1>1. \A j \in DOMAIN r : r[j].type = "event"
  BY DEF Replay, Event
<1>2. r \in Seq(Messages)
  BY ReplayType DEF TypeOK, Cursors
<1>3. data.reset = reset /\ Info.type = "info" /\ Begin(data).data = data
      /\ Complete(data).type = "complete"
  BY DEF Info, Begin, Complete
<1>4. CASE peer \in Legacy
  BY <1>3, <1>4 DEF Answer
<1>5. CASE peer \notin Legacy
  <2>1. Answer(reset) = <<Info, Begin(data)>> \o r \o <<Complete(data)>>
    BY <1>5 DEF Answer
  <2> HIDE DEF data, from, r
  <2>2. i \in 1..(Len(r) + 3) /\ Len(r) \in Nat
    BY <1>2, <2>1
  <2>3. CASE i = 1
    BY <1>2, <1>3, <2>1, <2>3
  <2>4. CASE i = 2
    BY <1>2, <1>3, <2>1, <2>4
  <2>5. CASE i \in 3..(Len(r) + 2)
    <3>1. i - 2 \in DOMAIN r /\ Answer(reset)[i] = r[i - 2]
      BY <1>2, <2>1, <2>5
    <3> QED BY <1>1, <3>1
  <2>6. CASE i = Len(r) + 3
    BY <1>2, <1>3, <2>1, <2>6
  <2> QED BY <2>2, <2>3, <2>4, <2>5, <2>6
<1> QED BY <1>4, <1>5

(***************************************************************************)
(* Type correctness.                                                       *)
(***************************************************************************)

LEMMA InitType == Init => TypeOK
<1> SUFFICES ASSUME Init PROVE TypeOK
  OBVIOUS
<1>1. log \in [Servers -> Seq(Kinds)] /\ kept \in [Servers -> Nat]
  BY DEF Init
<1>2. requested \in Cursors /\ sync \in SyncData
  BY DEF Init, Cursors, NoCursor, SyncData, NoSync
<1>3. /\ wire \in Seq(Messages)
      /\ history \in Seq([server : Servers, seq : Nat \ {0}, kind : Decodable])
  BY DEF Init
<1> QED BY <1>1, <1>2, <1>3 DEF Init, TypeOK, Phases, Attempt

LEMMA NextType == TypeOK /\ [Next]_vars => TypeOK'
<1> SUFFICES ASSUME TypeOK, [Next]_vars PROVE TypeOK'
  OBVIOUS
<1>t. \A type \in {"info", "begin", "complete", "event"} :
        Receive(type) => wire # <<>> /\ Head(wire) \in Messages /\ Head(wire).type = type
  BY HeadType DEF TypeOK, Receive
<1>1. CASE Connect
  BY <1>1 DEF Connect, TypeOK, Phases, Attempt, Cursors, daemonVars, cursorVars
<1>2. CASE ReceiveServerInfo
  BY <1>2, <1>t, ConsumeType DEF ReceiveServerInfo, TypeOK, Phases, Attempt, daemonVars, cursorVars
<1>3. CASE ReceiveLegacyServerInfo
  <2>1. wire' \in Seq(Messages)
    BY <1>3, <1>t, ConsumeType DEF ReceiveLegacyServerInfo, TypeOK
  <2>2. peer \in Servers
    BY <1>3 DEF ReceiveLegacyServerInfo, TypeOK, Attempt
  <2> QED BY <1>3, <2>1, <2>2 DEF ReceiveLegacyServerInfo, TypeOK, Phases, Attempt, daemonVars
<1>4. CASE ReceiveBegin
  <2>1. wire' \in Seq(Messages) /\ Head(wire).data \in SyncData
    BY <1>4, <1>t, ConsumeType, SyncMessageType DEF ReceiveBegin, TypeOK
  <2>2. Head(wire).data.from \in Nat
    BY <2>1 DEF SyncData
  <2>3. /\ lastSequence' \in Nat /\ sync' \in SyncData
        /\ history' = <<>> \/ history' = history
    BY <1>4, <2>1, <2>2 DEF ReceiveBegin
  <2>4. history' \in Seq([server : Servers, seq : Nat \ {0}, kind : Decodable])
    <3>1. CASE history' = <<>>
      BY <3>1, EmptySeqType
    <3>2. CASE history' = history
      BY <3>2 DEF TypeOK
    <3> QED BY <2>3, <3>1, <3>2
  <2>5. /\ phase' = "replay" /\ origin' = peer /\ peer \in Servers
        /\ UNCHANGED <<daemonVars, serverId, peer, requested, lost, cause, faults>>
    BY <1>4 DEF ReceiveBegin, TypeOK, Attempt
  <2> QED BY <2>1, <2>3, <2>4, <2>5 DEF TypeOK, Phases, Attempt, daemonVars
<1>5. CASE ReceiveComplete
  BY <1>5, <1>t, ConsumeType DEF ReceiveComplete, TypeOK, Phases, Attempt, daemonVars
<1>6. ASSUME RejectBegin \/ RejectComplete \/ ReceiveUnexpected \/ RejectEvent
             \/ ReportGap \/ LoseConnection
      PROVE  TypeOK'
  <2>1. PICK p \in {"idle", "stopped"} : EndTo(p)
    BY <1>6 DEF RejectBegin, RejectComplete, ReceiveUnexpected, RejectEvent, ReportGap,
                LoseConnection
  <2>2. UNCHANGED daemonVars /\ UNCHANGED cursorVars
    BY <1>6 DEF RejectBegin, RejectComplete, ReceiveUnexpected, RejectEvent, ReportGap,
                LoseConnection, daemonVars, cursorVars
  <2>3. faults' = faults \/ faults' = faults + 1
    BY <1>6 DEF RejectBegin, RejectComplete, ReceiveUnexpected, RejectEvent, ReportGap,
                LoseConnection, Fault
  <2>4. cause' = cause \/ cause' = TRUE
    BY <1>6 DEF RejectBegin, RejectComplete, ReceiveUnexpected, RejectEvent, ReportGap,
                LoseConnection
  <2>5. faults' \in Nat
    BY <2>3 DEF TypeOK
  <2>6. cause' \in BOOLEAN
    BY <2>4, Zenon DEF TypeOK
  <2> QED BY <2>1, <2>2, <2>5, <2>6, EndToType DEF TypeOK, Phases, Attempt, daemonVars, cursorVars
<1>7. CASE IgnoreEvent
  BY <1>7, <1>t, ConsumeType
     DEF IgnoreEvent, Streaming, TypeOK, daemonVars, cursorVars, attemptVars
<1>8. CASE CommitEvent
  <2>1. wire' \in Seq(Messages) /\ Head(wire).seq \in Nat \ {0}
    BY <1>8, <1>t, ConsumeType, EventMessageType DEF CommitEvent, Streaming, TypeOK
  <2>2. peer \in Servers
    BY <1>8 DEF CommitEvent, Streaming, TypeOK, Attempt
  <2>3. history' \in Seq([server : Servers, seq : Nat \ {0}, kind : Decodable])
    BY <1>8, <2>1, <2>2 DEF CommitEvent, TypeOK
  <2> QED BY <1>8, <2>1, <2>3 DEF CommitEvent, TypeOK, daemonVars, attemptVars
<1>9. CASE AnswerHello
  <2>1. wire' \in Seq(Messages)
    BY <1>9, AnswerType DEF AnswerHello, TypeOK, Attempt
  <2> QED BY <1>9, <2>1 DEF AnswerHello, TypeOK, Phases, Attempt, daemonVars, cursorVars
<1>10. ASSUME NEW kind \in Kinds, Publish(kind) PROVE TypeOK'
  <2>1. log' \in [Servers -> Seq(Kinds)]
    BY <1>10 DEF Publish, TypeOK
  <2>2. Event(Len(log[daemon]) + 1, kind) \in Messages
    BY EventIsMessage DEF TypeOK
  <2>3. wire' \in Seq(Messages)
    BY <1>10, <2>2 DEF Publish, TypeOK
  <2> QED BY <1>10, <2>1, <2>3 DEF Publish, TypeOK, cursorVars, attemptVars
<1>11. ASSUME NEW m \in BoundedMessages, SendAnything(m) PROVE TypeOK'
  <2>1. m \in Messages
    BY DEF BoundedMessages, BoundedSync, Messages, SyncData
  <2> QED BY <1>11, <2>1 DEF SendAnything, TypeOK, Phases, Attempt, daemonVars, cursorVars
<1>12. CASE LoseEvent
  <2>1. wire' \in Seq(Messages) /\ Head(wire).seq \in Nat
    BY <1>12, <1>t, ConsumeType, EventMessageType DEF LoseEvent, TypeOK
  <2> QED BY <1>12, <2>1 DEF LoseEvent, Fault, TypeOK, daemonVars, cursorVars
<1>13. CASE DuplicateEvent
  <2>1. wire' \in Seq(Messages)
    BY <1>13, <1>t DEF DuplicateEvent, TypeOK
  <2> QED BY <1>13, <2>1
          DEF DuplicateEvent, Fault, TypeOK, daemonVars, cursorVars, attemptVars
<1>14. ASSUME NEW s \in Servers, ReplaceDaemon(s) PROVE TypeOK'
  <2>1. \/ EndTo("idle")
        \/ UNCHANGED <<attemptVars, wire>>
    BY <1>14 DEF ReplaceDaemon
  <2>2. /\ phase' \in Phases
        /\ peer' \in IF phase' \in Attempt THEN Servers ELSE {NoServer}
        /\ requested' \in Cursors /\ sync' \in SyncData /\ lost' \in Nat
        /\ wire' \in Seq(Messages)
    BY <2>1, EndToType DEF TypeOK, attemptVars, Phases, Attempt
  <2>3. /\ daemon' \in Servers /\ retired' \subseteq Servers
        /\ faults' \in Nat
        /\ UNCHANGED <<log, kept, serverId, lastSequence, origin, history, cause>>
    BY <1>14 DEF ReplaceDaemon, Fault, TypeOK, cursorVars
  <2> QED BY <2>2, <2>3 DEF TypeOK
<1>15. ASSUME NEW n \in 1..MaxSequence, Prune(n) PROVE TypeOK'
  <2>1. kept' \in [Servers -> Nat]
    BY <1>15 DEF Prune, TypeOK
  <2> QED BY <1>15, <2>1 DEF Prune, Fault, TypeOK, cursorVars, attemptVars
<1>16. CASE NewClient
  BY <1>16, EndToType DEF NewClient, Fault, TypeOK, Phases, Attempt, daemonVars
<1>17. CASE UNCHANGED vars
  BY <1>17 DEF vars, TypeOK, daemonVars, cursorVars, attemptVars
<1> QED
  BY <1>1, <1>2, <1>3, <1>4, <1>5, <1>6, <1>7, <1>8, <1>9, <1>10, <1>11, <1>12,
     <1>13, <1>14, <1>15, <1>16, <1>17 DEF Next, ClientStep, FaultStep

\* Every variable keeps its type: the cursor is always a number and an
\* identity or none, every frame on the wire is a frame of the protocol.
THEOREM TypeCorrect == Spec => []TypeOK
<1>1. Init => TypeOK
  BY InitType
<1>2. TypeOK /\ [Next]_vars => TypeOK'
  BY NextType
<1> QED BY <1>1, <1>2, PTL DEF Spec

(***************************************************************************)
(* Order: no event skipped, repeated or reordered.                         *)
(***************************************************************************)

LEMMA RequestedStep == OrderInv /\ [Next]_vars => RequestedIsCurrent'
<1> SUFFICES ASSUME OrderInv, [Next]_vars PROVE RequestedIsCurrent'
  OBVIOUS
<1> USE DEF OrderInv, RequestedIsCurrent, EndTo, daemonVars, cursorVars, attemptVars
<1>1. CASE Connect
  BY <1>1 DEF Connect
<1>2. CASE ReceiveServerInfo \/ AnswerHello \/ LoseEvent \/ DuplicateEvent
  BY <1>2 DEF ReceiveServerInfo, AnswerHello, LoseEvent, DuplicateEvent
<1>3. CASE ReceiveLegacyServerInfo \/ ReceiveBegin \/ ReceiveComplete
  BY <1>3 DEF ReceiveLegacyServerInfo, ReceiveBegin, ReceiveComplete
<1>4. CASE RejectBegin \/ RejectComplete \/ ReceiveUnexpected \/ RejectEvent \/ ReportGap
  BY <1>4 DEF RejectBegin, RejectComplete, ReceiveUnexpected, RejectEvent, ReportGap
<1>5. CASE IgnoreEvent \/ CommitEvent
  BY <1>5 DEF IgnoreEvent, CommitEvent, Streaming
<1>6. CASE LoseConnection \/ NewClient
  BY <1>6 DEF LoseConnection, NewClient
<1>7. ASSUME NEW kind \in Kinds, Publish(kind) PROVE RequestedIsCurrent'
  BY <1>7 DEF Publish
<1>8. ASSUME NEW m \in BoundedMessages, SendAnything(m) PROVE RequestedIsCurrent'
  BY <1>8 DEF SendAnything
<1>9. ASSUME NEW s \in Servers, ReplaceDaemon(s) PROVE RequestedIsCurrent'
  BY <1>9 DEF ReplaceDaemon
<1>10. ASSUME NEW n \in 1..MaxSequence, Prune(n) PROVE RequestedIsCurrent'
  BY <1>10 DEF Prune
<1>11. CASE UNCHANGED vars
  BY <1>11 DEF vars
<1> QED
  BY <1>1, <1>2, <1>3, <1>4, <1>5, <1>6, <1>7, <1>8, <1>9, <1>10, <1>11
     DEF Next, ClientStep, FaultStep

\* The only steps that touch the history or the cursor under it.
LEMMA HistoryStep ==
    ASSUME [Next]_vars
    PROVE  \/ ReceiveLegacyServerInfo
           \/ ReceiveBegin
           \/ CommitEvent
           \/ NewClient
           \/ UNCHANGED <<lastSequence, history, origin>>
<1> USE DEF daemonVars, cursorVars, attemptVars
<1>1. CASE ClientStep
  BY <1>1 DEF ClientStep, Connect, ReceiveServerInfo, RejectBegin, ReceiveComplete,
     RejectComplete, ReceiveUnexpected, RejectEvent, IgnoreEvent, ReportGap
<1>2. CASE FaultStep
  BY <1>2 DEF FaultStep, LoseConnection, LoseEvent, DuplicateEvent, ReplaceDaemon, Prune
<1>3. CASE AnswerHello \/ (\E kind \in Kinds : Publish(kind))
             \/ (\E m \in BoundedMessages : SendAnything(m))
  BY <1>3 DEF AnswerHello, Publish, SendAnything
<1>4. CASE UNCHANGED vars
  BY <1>4 DEF vars
<1> QED BY <1>1, <1>2, <1>3, <1>4 DEF Next

\* An empty cursor has told nothing.
LEMMA EmptyCursor ==
    ASSUME TypeOK, Contiguous, lastSequence = 0
    PROVE  history = <<>>
<1> SUFFICES ASSUME history # <<>> PROVE FALSE
  OBVIOUS
<1>1. Len(history) \in 1..Len(history)
  BY EmptySeq DEF TypeOK
<1>2. history[Len(history)] \in [server : Servers, seq : Nat \ {0}, kind : Decodable]
  BY <1>1, ElementOfSeq DEF TypeOK
<1>3. history[Len(history)].seq \in Nat \ {0}
  BY <1>2
<1> QED BY <1>3 DEF Contiguous

LEMMA ContiguousStep == OrderInv /\ [Next]_vars => Contiguous'
<1> SUFFICES ASSUME OrderInv, [Next]_vars PROVE Contiguous'
  OBVIOUS
<1>1. CASE ReceiveLegacyServerInfo
  <2>1. history' = <<>>
    BY <1>1, EmptyCursor DEF ReceiveLegacyServerInfo, OrderInv, TypeOK
  <2> QED BY <2>1 DEF Contiguous
<1>2. CASE ReceiveBegin
  <2>1. CASE Head(wire).data.reset
    BY <1>2, <2>1 DEF ReceiveBegin, Contiguous
  <2>2. CASE ~Head(wire).data.reset
    <3>1. lastSequence' = lastSequence /\ history' = history
      BY <1>2, <2>2
         DEF ReceiveBegin, BeginAcceptable, OrderInv, RequestedIsCurrent
    <3> QED BY <3>1 DEF OrderInv, Contiguous
  <2> QED BY <2>1, <2>2
<1>3. CASE CommitEvent
  <2> DEFINE e == [server |-> peer, seq |-> Head(wire).seq, kind |-> Head(wire).kind]
  <2>1. wire # <<>> /\ Head(wire).seq \in Nat \ {0} /\ Head(wire).kind \in Decodable
    BY <1>3, HeadType, EventMessageType
       DEF CommitEvent, Streaming, Receive, OrderInv, TypeOK
  <2>2. e \in [server : Servers, seq : Nat \ {0}, kind : Decodable]
    BY <1>3, <2>1 DEF CommitEvent, Streaming, OrderInv, TypeOK, Attempt
  <2>3. history' = Append(history, e) /\ lastSequence' = e.seq
    BY <1>3 DEF CommitEvent
  <2>4. /\ e.seq > lastSequence
        /\ e.server \notin Legacy => e.seq = lastSequence + 1
    BY <1>3 DEF CommitEvent, Strict
  <2>5. /\ history \in Seq([server : Servers, seq : Nat \ {0}, kind : Decodable])
        /\ lastSequence \in Nat
        /\ Contiguous
    BY DEF OrderInv, TypeOK
  <2>6. /\ Len(history') = Len(history) + 1
        /\ \A i \in 1..Len(history) : history'[i] = history[i]
        /\ history'[Len(history) + 1] = e
        /\ DOMAIN history = 1..Len(history) /\ DOMAIN history' = 1..(Len(history) + 1)
        /\ Len(history) \in Nat
    <3> HIDE DEF e
    <3> QED BY <2>2, <2>3, <2>5
  <2> HIDE DEF e
  <2>7. history' # <<>> /\ history'[Len(history')].seq = lastSequence'
    BY <2>3, <2>6
  <2>8. ASSUME NEW i \in DOMAIN history', i > 1
        PROVE  IF history'[i].server \in Legacy
               THEN history'[i].seq > history'[i-1].seq
               ELSE history'[i].seq = history'[i-1].seq + 1
    <3>1. CASE i \in 1..Len(history)
      <4>1. i - 1 \in 1..Len(history)
        BY <2>6, <2>8, <3>1
      <4> QED BY <2>5, <2>6, <2>8, <3>1, <4>1 DEF Contiguous
    <3>2. CASE i = Len(history) + 1
      <4>1. history # <<>> /\ history'[i-1] = history[Len(history)]
        BY <2>6, <2>8, <3>2
      <4>2. history'[i-1].seq = lastSequence
        BY <2>5, <4>1 DEF Contiguous
      <4> QED BY <2>4, <2>6, <3>2, <4>2
    <3> QED BY <2>6, <2>8, <3>1, <3>2
  <2> QED BY <2>7, <2>8 DEF Contiguous
<1>4. CASE NewClient
  BY <1>4 DEF NewClient, Contiguous
<1>5. CASE UNCHANGED <<lastSequence, history, origin>>
  BY <1>5 DEF OrderInv, Contiguous
<1> QED BY <1>1, <1>2, <1>3, <1>4, <1>5, HistoryStep

LEMMA OrderInvariant == Spec => []OrderInv
<1>1. Init => OrderInv
  BY InitType DEF Init, OrderInv, RequestedIsCurrent, Contiguous
<1>2. OrderInv /\ [Next]_vars => OrderInv'
  BY NextType, RequestedStep, ContiguousStep DEF OrderInv
<1> QED BY <1>1, <1>2, PTL DEF Spec

\* Whatever the daemon answers and however often the connection breaks, the
\* events the views are told are consecutive and end at the cursor.
THEOREM HistoryIsContiguous == Spec => []Contiguous
<1>1. OrderInv => Contiguous
  BY DEF OrderInv
<1> QED BY <1>1, OrderInvariant, PTL

\* The cursor never moves back under a history that is kept.
THEOREM CursorMonotonic == Spec => CursorMovesBackOnlyOnReset
<1>1. OrderInv /\ [Next]_vars =>
        [lastSequence' < lastSequence => history' = <<>>]_vars
  <2> SUFFICES ASSUME OrderInv, [Next]_vars, lastSequence' < lastSequence
               PROVE  history' = <<>>
    OBVIOUS
  <2>1. lastSequence \in Nat
    BY DEF OrderInv, TypeOK
  <2>2. CASE ReceiveLegacyServerInfo
    BY <2>1, <2>2 DEF ReceiveLegacyServerInfo
  <2>3. CASE ReceiveBegin
    BY <2>1, <2>3 DEF ReceiveBegin, BeginAcceptable, OrderInv, RequestedIsCurrent
  <2>4. CASE CommitEvent
    <3>1. Head(wire).seq \in Nat
      BY <2>4, HeadType, EventMessageType
         DEF CommitEvent, Streaming, Receive, OrderInv, TypeOK
    <3> QED BY <2>1, <2>4, <3>1 DEF CommitEvent
  <2>5. CASE NewClient
    BY <2>5 DEF NewClient
  <2> QED BY <2>1, <2>2, <2>3, <2>4, <2>5, HistoryStep
<1> QED BY <1>1, OrderInvariant, PTL DEF Spec, CursorMovesBackOnlyOnReset

(***************************************************************************)
(* Identity: the views never mix two daemons.                              *)
(*                                                                         *)
(* This needs a daemon that resumes only cursors of its own, and an        *)
(* endpoint to which an earlier identity does not return: between begin    *)
(* and complete the recovery state pairs the old server_id with the new    *)
(* daemon's last_sequence.                                                 *)
(***************************************************************************)

LEMMA UnsoundResumeStep ==
    IdentityInv /\ [Next]_vars /\ TrustedDaemon => NoUnsoundResume'
<1> SUFFICES ASSUME IdentityInv, [Next]_vars, TrustedDaemon PROVE NoUnsoundResume'
  OBVIOUS
<1> USE DEF attemptVars
<1>w. wire \in Seq(Messages)
  BY DEF IdentityInv, OrderInv, TypeOK
<1>1. ASSUME wire' = <<>> PROVE NoUnsoundResume'
  BY <1>1 DEF NoUnsoundResume
<1>2. ASSUME Consume, wire # <<>>, UNCHANGED <<peer, requested>>
      PROVE  NoUnsoundResume'
  <2> SUFFICES ASSUME NEW i \in DOMAIN wire', wire'[i].type = "begin", ~wire'[i].data.reset
               PROVE  \/ requested.server = peer
                      \/ requested.server = NoServer /\ requested.after = 0
    BY <1>2 DEF NoUnsoundResume
  <2>1. i + 1 \in DOMAIN wire /\ wire'[i] = wire[i + 1]
    BY <1>w, <1>2 DEF Consume
  <2> QED BY <2>1 DEF IdentityInv, NoUnsoundResume
<1>3. CASE Connect
  BY <1>3 DEF Connect, IdentityInv, QuietWhenIdle, Attempt, NoUnsoundResume
<1>4. CASE ReceiveServerInfo \/ ReceiveLegacyServerInfo \/ ReceiveBegin \/ ReceiveComplete
           \/ IgnoreEvent \/ CommitEvent \/ LoseEvent
  BY <1>2, <1>4 DEF ReceiveServerInfo, ReceiveLegacyServerInfo, ReceiveBegin,
     ReceiveComplete, IgnoreEvent, CommitEvent, LoseEvent, Streaming, Receive
<1>5. CASE RejectBegin \/ RejectComplete \/ ReceiveUnexpected \/ RejectEvent \/ ReportGap
           \/ LoseConnection \/ NewClient
  BY <1>1, <1>5 DEF RejectBegin, RejectComplete, ReceiveUnexpected, RejectEvent,
     ReportGap, LoseConnection, NewClient, EndTo
<1>6. CASE AnswerHello
  <2>1. PICK reset \in BOOLEAN : /\ ~reset => MayResume(peer, requested)
                                 /\ wire' = Answer(reset)
    BY <1>6 DEF AnswerHello
  <2>2. UNCHANGED <<peer, requested>>
    BY <1>6 DEF AnswerHello
  <2>3. CASE reset
    <3> SUFFICES ASSUME NEW i \in DOMAIN wire', wire'[i].type = "begin"
                 PROVE  wire'[i].data.reset
      BY DEF NoUnsoundResume
    <3> QED BY <1>6, <2>1, <2>3, AnswerBegins DEF AnswerHello, IdentityInv, OrderInv,
               TypeOK, Attempt
  <2>4. CASE ~reset
    BY <2>1, <2>2, <2>4 DEF NoUnsoundResume, MayResume
  <2> QED BY <2>3, <2>4
<1>7. ASSUME NEW kind \in Kinds, Publish(kind) PROVE NoUnsoundResume'
  <2> DEFINE e == Event(Len(log[daemon]) + 1, kind)
  <2>1. wire' = wire \/ wire' = Append(wire, e)
    BY <1>7 DEF Publish
  <2>2. UNCHANGED <<peer, requested>>
    BY <1>7 DEF Publish
  <2>3. CASE wire' = wire
    BY <2>2, <2>3 DEF IdentityInv, NoUnsoundResume
  <2>4. CASE wire' = Append(wire, e)
    <3>1. e.type = "event"
      BY DEF Event
    <3>2. \A i \in DOMAIN wire' : (i \in DOMAIN wire /\ wire'[i] = wire[i]) \/ wire'[i] = e
      <4> HIDE DEF e
      <4> QED BY <1>w, <2>4
    <3> HIDE DEF e
    <3> QED BY <2>2, <3>1, <3>2 DEF IdentityInv, NoUnsoundResume
  <2> QED BY <2>1, <2>3, <2>4
<1>8. CASE DuplicateEvent
  <2>1. wire # <<>> /\ Head(wire) \in Messages /\ wire' = <<Head(wire)>> \o wire
    BY <1>8, <1>w, HeadType DEF DuplicateEvent, Receive
  <2>2. \A i \in DOMAIN wire' : \E j \in DOMAIN wire : wire'[i] = wire[j]
    <3> SUFFICES ASSUME NEW i \in DOMAIN wire' PROVE \E j \in DOMAIN wire : wire'[i] = wire[j]
      OBVIOUS
    <3>1. CASE i = 1
      BY <1>w, <2>1, <3>1
    <3>2. CASE i # 1
      <4>1. i - 1 \in DOMAIN wire /\ wire'[i] = wire[i - 1]
        BY <1>w, <2>1, <3>2
      <4> QED BY <4>1
    <3> QED BY <3>1, <3>2
  <2> QED BY <1>8, <2>2 DEF DuplicateEvent, IdentityInv, NoUnsoundResume
<1>9. ASSUME NEW s \in Servers, ReplaceDaemon(s) PROVE NoUnsoundResume'
  <2>1. CASE phase \in Attempt
    BY <1>1, <1>9, <2>1 DEF ReplaceDaemon, EndTo
  <2>2. CASE phase \notin Attempt
    BY <1>9, <2>2 DEF ReplaceDaemon, IdentityInv, NoUnsoundResume
  <2> QED BY <2>1, <2>2
<1>10. ASSUME NEW n \in 1..MaxSequence, Prune(n) PROVE NoUnsoundResume'
  BY <1>10 DEF Prune, IdentityInv, NoUnsoundResume
<1>11. ASSUME NEW m \in BoundedMessages, SendAnything(m) PROVE NoUnsoundResume'
  BY <1>11 DEF SendAnything
<1>12. CASE UNCHANGED vars
  BY <1>12 DEF vars, IdentityInv, NoUnsoundResume
<1> QED
  BY <1>3, <1>4, <1>5, <1>6, <1>7, <1>8, <1>9, <1>10, <1>11, <1>12
     DEF Next, ClientStep, FaultStep

LEMMA QuietStep == IdentityInv /\ [Next]_vars => QuietWhenIdle'
<1> SUFFICES ASSUME IdentityInv, [Next]_vars PROVE QuietWhenIdle'
  OBVIOUS
<1> USE DEF IdentityInv, QuietWhenIdle, Attempt, attemptVars, EndTo
<1>1. CASE ClientStep
  BY <1>1 DEF ClientStep, Connect, ReceiveServerInfo, ReceiveLegacyServerInfo, ReceiveBegin,
     RejectBegin, ReceiveComplete, RejectComplete, ReceiveUnexpected, RejectEvent,
     IgnoreEvent, ReportGap, CommitEvent, Streaming
<1>2. CASE FaultStep
  BY <1>2 DEF FaultStep, LoseConnection, LoseEvent, DuplicateEvent, ReplaceDaemon, Prune,
     NewClient, Receive
<1>3. CASE AnswerHello \/ (\E kind \in Kinds : Publish(kind))
             \/ (\E m \in BoundedMessages : SendAnything(m))
  BY <1>3 DEF AnswerHello, Publish, SendAnything
<1>4. CASE UNCHANGED vars
  BY <1>4 DEF vars
<1> QED BY <1>1, <1>2, <1>3, <1>4 DEF Next

\* A step of the client outside the ones below keeps who is who.
LEMMA WhoIsWhoStep ==
    ASSUME [Next]_vars
    PROVE  \/ Connect
           \/ ReceiveLegacyServerInfo
           \/ ReceiveBegin
           \/ ReceiveComplete
           \/ \E s \in Servers : ReplaceDaemon(s)
           \/ NewClient
           \/ /\ UNCHANGED <<daemon, retired, serverId, origin>>
              /\ \/ phase' \notin Attempt
                 \/ /\ phase \in Attempt /\ peer' = peer
                    /\ phase' \in {"replay", "live"} => phase' = phase
                 \/ UNCHANGED <<phase, peer>>
<1> USE DEF daemonVars, cursorVars, attemptVars, EndTo, Attempt
<1>1. CASE ClientStep
  BY <1>1 DEF ClientStep, ReceiveServerInfo, RejectBegin, RejectComplete,
     ReceiveUnexpected, RejectEvent, IgnoreEvent, ReportGap, CommitEvent
<1>2. CASE FaultStep
  BY <1>2 DEF FaultStep, LoseConnection, LoseEvent, DuplicateEvent, Prune
<1>3. CASE AnswerHello
  BY <1>3 DEF AnswerHello
<1>4. ASSUME NEW kind \in Kinds, Publish(kind)
      PROVE  UNCHANGED <<daemon, retired, serverId, origin, phase, peer>>
  BY <1>4 DEF Publish
<1>5. ASSUME NEW m \in BoundedMessages, SendAnything(m)
      PROVE  /\ UNCHANGED <<daemon, retired, serverId, origin>>
             /\ phase \in Attempt /\ peer' = peer
             /\ phase' \in {"replay", "live"} => phase' = phase
  BY <1>5 DEF SendAnything
<1>6. CASE UNCHANGED vars
  BY <1>6 DEF vars
<1> QED BY <1>1, <1>2, <1>3, <1>4, <1>5, <1>6 DEF Next

WhoIsWho == PeerIsDaemon /\ OriginIsPeer /\ KnownAnswered /\ ConfirmedIsOrigin

\* Who is who does not depend on what the daemon says, only on who answers.
LEMMA IdentitiesStep ==
    OrderInv /\ WhoIsWho /\ [Next]_vars /\ ~IdentitiesReturn => WhoIsWho'
<1> SUFFICES ASSUME OrderInv, WhoIsWho, [Next]_vars, ~IdentitiesReturn PROVE WhoIsWho'
  OBVIOUS
<1> USE DEF WhoIsWho, OrderInv, TypeOK, PeerIsDaemon, OriginIsPeer,
            KnownAnswered, ConfirmedIsOrigin, Attempt
<1>1. CASE Connect
  BY <1>1 DEF Connect, daemonVars, cursorVars
<1>2. CASE ReceiveLegacyServerInfo
  BY <1>2 DEF ReceiveLegacyServerInfo, daemonVars
<1>3. CASE ReceiveBegin
  BY <1>3 DEF ReceiveBegin, daemonVars
<1>4. CASE ReceiveComplete
  BY <1>4 DEF ReceiveComplete, daemonVars
<1>5. ASSUME NEW s \in Servers, ReplaceDaemon(s) PROVE WhoIsWho'
  <2>1. /\ daemon' = s /\ s # daemon /\ s \notin retired
        /\ retired' = retired \cup {daemon}
        /\ UNCHANGED <<serverId, origin>>
    BY <1>5 DEF ReplaceDaemon, cursorVars
  <2>2. phase' \notin Attempt
    BY <1>5 DEF ReplaceDaemon, EndTo, attemptVars
  <2>3. s # NoServer
    BY ServersAssumption
  <2> QED BY <2>1, <2>2, <2>3
<1>6. CASE NewClient
  BY <1>6 DEF NewClient, EndTo, daemonVars
<1>7. CASE /\ UNCHANGED <<daemon, retired, serverId, origin>>
           /\ \/ phase' \notin Attempt
              \/ /\ phase \in Attempt /\ peer' = peer
                 /\ phase' \in {"replay", "live"} => phase' = phase
              \/ UNCHANGED <<phase, peer>>
  BY <1>7
<1> QED BY <1>1, <1>2, <1>3, <1>4, <1>5, <1>6, <1>7, WhoIsWhoStep

LEMMA SingleIdentityStep == IdentityInv /\ [Next]_vars => SingleIdentity'
<1> SUFFICES ASSUME IdentityInv, [Next]_vars PROVE SingleIdentity'
  OBVIOUS
<1>1. CASE ReceiveLegacyServerInfo
  <2>1. history' = <<>>
    BY <1>1, EmptyCursor
       DEF ReceiveLegacyServerInfo, IdentityInv, OrderInv, TypeOK
  <2> QED BY <2>1 DEF SingleIdentity
<1>2. CASE ReceiveBegin
  <2>1. CASE Head(wire).data.reset
    BY <1>2, <2>1 DEF ReceiveBegin, SingleIdentity
  <2>2. CASE ~Head(wire).data.reset
    <3>1. /\ requested = [server |-> serverId, after |-> lastSequence]
          /\ peer = daemon
          /\ origin' = peer /\ history' = history
      BY <1>2, <2>2 DEF ReceiveBegin, IdentityInv, OrderInv, RequestedIsCurrent,
         PeerIsDaemon, Attempt
    <3>2. 1 \in DOMAIN wire /\ wire[1] = Head(wire) /\ wire[1].type = "begin"
      BY <1>2 DEF ReceiveBegin, Receive, IdentityInv, OrderInv, TypeOK
    <3>3. \/ requested.server = peer
          \/ requested.server = NoServer /\ requested.after = 0
      BY <2>2, <3>2 DEF IdentityInv, NoUnsoundResume
    <3>4. CASE requested.server = peer
      <4>1. origin = origin'
        BY <3>1, <3>4 DEF IdentityInv, ConfirmedIsOrigin
      <4> QED BY <3>1, <4>1 DEF IdentityInv, SingleIdentity
    <3>5. CASE requested.after = 0
      <4>1. history = <<>>
        BY <3>1, <3>5, EmptyCursor DEF IdentityInv, OrderInv
      <4> QED BY <3>1, <4>1 DEF SingleIdentity
    <3> QED BY <3>3, <3>4, <3>5
  <2> QED BY <2>1, <2>2
<1>3. CASE CommitEvent
  <2> DEFINE e == [server |-> peer, seq |-> Head(wire).seq, kind |-> Head(wire).kind]
  <2>1. history' = Append(history, e) /\ e.server = origin /\ origin' = origin
    BY <1>3 DEF CommitEvent, Streaming, IdentityInv, OriginIsPeer
  <2>2. \A i \in DOMAIN history' :
          (i \in DOMAIN history /\ history'[i] = history[i]) \/ history'[i] = e
    <3>1. history \in Seq([server : Servers, seq : Nat \ {0}, kind : Decodable])
      BY DEF IdentityInv, OrderInv, TypeOK
    <3> HIDE DEF e
    <3> QED BY <2>1, <3>1
  <2> HIDE DEF e
  <2> QED BY <2>1, <2>2 DEF IdentityInv, SingleIdentity
<1>4. CASE NewClient
  BY <1>4 DEF NewClient, SingleIdentity
<1>5. CASE UNCHANGED <<lastSequence, history, origin>>
  BY <1>5 DEF IdentityInv, SingleIdentity
<1> QED BY <1>1, <1>2, <1>3, <1>4, <1>5, HistoryStep

LEMMA IdentityInvariant ==
    ASSUME TrustedDaemon, ~IdentitiesReturn
    PROVE  Spec => []IdentityInv
<1>1. Init => IdentityInv
  <2> SUFFICES ASSUME Init PROVE IdentityInv
    OBVIOUS
  <2>1. OrderInv
    BY InitType DEF Init, OrderInv, RequestedIsCurrent, Contiguous
  <2>2. WhoIsWho
    BY DEF Init, WhoIsWho, PeerIsDaemon, OriginIsPeer, KnownAnswered,
           ConfirmedIsOrigin, Attempt
  <2>3. QuietWhenIdle /\ NoUnsoundResume /\ SingleIdentity
    BY DEF Init, QuietWhenIdle, NoUnsoundResume, SingleIdentity
  <2> QED BY <2>1, <2>2, <2>3 DEF IdentityInv, WhoIsWho
<1>2. IdentityInv /\ [Next]_vars => IdentityInv'
  <2> SUFFICES ASSUME IdentityInv, [Next]_vars PROVE IdentityInv'
    OBVIOUS
  <2>1. OrderInv'
    BY NextType, RequestedStep, ContiguousStep DEF IdentityInv, OrderInv
  <2> QED BY <2>1, UnsoundResumeStep, QuietStep, IdentitiesStep, SingleIdentityStep
          DEF IdentityInv, WhoIsWho
<1> QED BY <1>1, <1>2, PTL DEF Spec

LEMMA WhoIsWhoInvariant ==
    ASSUME ~IdentitiesReturn
    PROVE  Spec => [](OrderInv /\ WhoIsWho)
<1>1. Init => OrderInv /\ WhoIsWho
  <2> SUFFICES ASSUME Init PROVE OrderInv /\ WhoIsWho
    OBVIOUS
  <2>1. OrderInv
    BY InitType DEF Init, OrderInv, RequestedIsCurrent, Contiguous
  <2>2. WhoIsWho
    BY DEF Init, WhoIsWho, PeerIsDaemon, OriginIsPeer, KnownAnswered,
           ConfirmedIsOrigin, Attempt
  <2> QED BY <2>1, <2>2
<1>2. OrderInv /\ WhoIsWho /\ [Next]_vars => (OrderInv /\ WhoIsWho)'
  <2>1. OrderInv /\ [Next]_vars => OrderInv'
    BY NextType, RequestedStep, ContiguousStep DEF OrderInv
  <2> QED BY <2>1, IdentitiesStep
<1> QED BY <1>1, <1>2, PTL DEF Spec

\* Whatever frames the daemon sends, and however often it is replaced: once
\* its identity is confirmed, the history is told anew when the events begin to
\* be another daemon's (the identity check of synchronize_event_history).
THEOREM StrangersStartAnew ==
    ASSUME ~IdentitiesReturn
    PROVE  Spec => IdentityChangeResets
<1>1. OrderInv /\ WhoIsWho /\ [Next]_vars =>
        [(serverId # NoServer /\ origin' # origin) => history' = <<>>]_vars
  <2> SUFFICES ASSUME OrderInv, WhoIsWho, [Next]_vars,
                      serverId # NoServer, origin' # origin
               PROVE  history' = <<>>
    OBVIOUS
  <2>1. CASE ReceiveLegacyServerInfo
    BY <2>1 DEF ReceiveLegacyServerInfo
  <2>2. CASE ReceiveBegin
    <3>1. requested = [server |-> serverId, after |-> lastSequence]
          /\ peer = daemon /\ origin' = peer
      BY <2>2 DEF ReceiveBegin, OrderInv, RequestedIsCurrent, WhoIsWho, PeerIsDaemon, Attempt
    <3>2. serverId # peer
      BY <3>1 DEF WhoIsWho, ConfirmedIsOrigin
    <3>3. Head(wire).data.reset
      BY <2>2, <3>1, <3>2 DEF ReceiveBegin, BeginAcceptable
    <3> QED BY <2>2, <3>3 DEF ReceiveBegin
  <2>3. CASE CommitEvent
    BY <2>3 DEF CommitEvent
  <2>4. CASE NewClient
    BY <2>4 DEF NewClient
  <2> QED BY <2>1, <2>2, <2>3, <2>4, HistoryStep
<1> QED BY <1>1, WhoIsWhoInvariant, PTL DEF Spec, IdentityChangeResets

\* With a daemon that keeps the protocol, and identities that do not return,
\* what the views were told comes from one daemon.
THEOREM ViewsNeverMix ==
    ASSUME TrustedDaemon, ~IdentitiesReturn
    PROVE  Spec => []SingleIdentity
<1>1. IdentityInv => SingleIdentity
  BY DEF IdentityInv
<1> QED BY <1>1, IdentityInvariant, PTL

\* ... and every cursor the daemon would resume, even one a broken
\* synchronization left behind, counts in that daemon's log.
THEOREM CursorIsSound ==
    ASSUME TrustedDaemon, ~IdentitiesReturn
    PROVE  Spec => []ResumeIsSound
<1>1. IdentityInv => ResumeIsSound
  <2> SUFFICES ASSUME IdentityInv,
                      MayResume(daemon, [server |-> serverId, after |-> lastSequence])
               PROVE  origin = daemon \/ history = <<>>
    BY DEF ResumeIsSound
  <2>1. serverId = daemon \/ lastSequence = 0
    BY DEF MayResume
  <2> QED BY <2>1, EmptyCursor DEF IdentityInv, OrderInv, ConfirmedIsOrigin
<1> QED BY <1>1, IdentityInvariant, PTL

-----------------------------------------------------------------------------
(***************************************************************************)
(* EventSync implements EventHistory: with a daemon that keeps the         *)
(* protocol and identities that do not return, every step of the client,   *)
(* the daemon and the faults is a step of the abstract replica or leaves   *)
(* it alone.  The mapping is the identity: the four variables of the       *)
(* replica are variables of EventSync.                                     *)
(***************************************************************************)

\* The frames of an answer are in the log.
LEMMA AnswerIsLog ==
    ASSUME TypeOK, peer \in Servers, NEW reset \in BOOLEAN,
           ~reset => MayResume(peer, requested),
           NEW i \in DOMAIN Answer(reset)
    PROVE  Told(Answer(reset)[i], log[peer])
<1> DEFINE from == IF reset THEN kept[peer] ELSE requested.after
           data == [after |-> requested.after, from |-> from,
                    latest |-> Len(log[peer]), reset |-> reset]
           r == Replay(peer, from)
<1>0. from \in Nat /\ log[peer] \in Seq(Kinds)
  BY DEF TypeOK, Cursors
<1>1. ASSUME NEW j \in DOMAIN r PROVE Told(r[j], log[peer])
  <2>1. j \in 1..(Len(log[peer]) - from) /\ r[j] = Event(from + j, log[peer][from + j])
    BY DEF Replay
  <2>2. from + j \in DOMAIN log[peer]
    BY <1>0, <2>1
  <2> HIDE DEF from, r
  <2> QED BY <2>1, <2>2 DEF Told, Event
<1>2. r \in Seq(Messages)
  BY <1>0, ReplayType DEF TypeOK
<1>3. Told(Info, log[peer]) /\ Told(Begin(data), log[peer]) /\ Told(Complete(data), log[peer])
  BY <1>0 DEF Told, Info, Begin, Complete
<1>4. CASE peer \in Legacy
  BY <1>3, <1>4 DEF Answer
<1>5. CASE peer \notin Legacy
  <2>1. Answer(reset) = <<Info, Begin(data)>> \o r \o <<Complete(data)>>
    BY <1>5 DEF Answer
  <2> HIDE DEF data, from, r
  <2>2. i \in 1..(Len(r) + 3) /\ Len(r) \in Nat
    BY <1>2, <2>1
  <2>3. CASE i = 1
    BY <1>2, <1>3, <2>1, <2>3
  <2>4. CASE i = 2
    BY <1>2, <1>3, <2>1, <2>4
  <2>5. CASE i \in 3..(Len(r) + 2)
    <3>1. i - 2 \in DOMAIN r /\ Answer(reset)[i] = r[i - 2]
      BY <1>2, <2>1, <2>5
    <3> QED BY <1>1, <3>1
  <2>6. CASE i = Len(r) + 3
    BY <1>2, <1>3, <2>1, <2>6
  <2> QED BY <2>2, <2>3, <2>4, <2>5, <2>6
<1> QED BY <1>4, <1>5

\* A log only grows, so what was told stays true.
LEMMA ToldStays ==
    ASSUME NEW kind \in Kinds, Publish(kind), TypeOK,
           NEW frame \in Messages, NEW s \in Servers, Told(frame, log[s])
    PROVE  Told(frame, log'[s])
<1>1. /\ log[daemon] \in Seq(Kinds) /\ log[s] \in Seq(Kinds) /\ daemon \in Servers
      /\ log' = [log EXCEPT ![daemon] = Append(@, kind)]
  BY DEF Publish, TypeOK
<1>2. log'[s] = log[s] \/ log'[s] = Append(log[s], kind)
  BY <1>1 DEF TypeOK
<1>3. /\ \A n \in DOMAIN log[s] : n \in DOMAIN log'[s] /\ log'[s][n] = log[s][n]
      /\ Len(log[s]) <= Len(log'[s]) /\ Len(log[s]) \in Nat /\ Len(log'[s]) \in Nat
  BY <1>1, <1>2
<1>4. frame.type = "begin" => frame.data.latest \in Nat
  BY SyncMessageType DEF SyncData
<1> QED BY <1>3, <1>4 DEF Told

LEMMA WireIsLogStep ==
    IdentityInv /\ WireIsLog /\ [Next]_vars /\ TrustedDaemon => WireIsLog'
<1> SUFFICES ASSUME IdentityInv, WireIsLog, [Next]_vars, TrustedDaemon PROVE WireIsLog'
  OBVIOUS
<1> USE DEF attemptVars, daemonVars
<1>w. wire \in Seq(Messages) /\ TypeOK
  BY DEF IdentityInv, OrderInv, TypeOK
<1>1. ASSUME wire' = <<>> PROVE WireIsLog'
  BY <1>1 DEF WireIsLog
<1>2. ASSUME Consume, wire # <<>>, UNCHANGED <<peer, log>> PROVE WireIsLog'
  <2> SUFFICES ASSUME NEW i \in DOMAIN wire' PROVE Told(wire'[i], log'[peer'])
    BY DEF WireIsLog
  <2>1. i + 1 \in DOMAIN wire /\ wire'[i] = wire[i + 1]
    BY <1>w, <1>2 DEF Consume
  <2> QED BY <1>2, <2>1 DEF WireIsLog
<1>3. CASE Connect
  BY <1>1, <1>3 DEF Connect, IdentityInv, QuietWhenIdle, Attempt
<1>4. CASE ReceiveServerInfo \/ ReceiveLegacyServerInfo \/ ReceiveBegin \/ ReceiveComplete
           \/ IgnoreEvent \/ CommitEvent \/ LoseEvent
  BY <1>2, <1>4 DEF ReceiveServerInfo, ReceiveLegacyServerInfo, ReceiveBegin,
     ReceiveComplete, IgnoreEvent, CommitEvent, LoseEvent, Streaming, Receive
<1>5. CASE RejectBegin \/ RejectComplete \/ ReceiveUnexpected \/ RejectEvent \/ ReportGap
           \/ LoseConnection \/ NewClient
  BY <1>1, <1>5 DEF RejectBegin, RejectComplete, ReceiveUnexpected, RejectEvent,
     ReportGap, LoseConnection, NewClient, EndTo
<1>6. CASE AnswerHello
  <2>1. PICK reset \in BOOLEAN : /\ ~reset => MayResume(peer, requested)
                                 /\ wire' = Answer(reset)
    BY <1>6 DEF AnswerHello
  <2>2. UNCHANGED <<peer, log>> /\ peer \in Servers
    BY <1>6, <1>w DEF AnswerHello, TypeOK, Attempt
  <2>3. \A i \in DOMAIN Answer(reset) : Told(Answer(reset)[i], log[peer])
    BY <1>w, <2>1, <2>2, AnswerIsLog
  <2> QED BY <2>1, <2>2, <2>3 DEF WireIsLog
<1>7. ASSUME NEW kind \in Kinds, Publish(kind) PROVE WireIsLog'
  <2> DEFINE e == Event(Len(log[daemon]) + 1, kind)
  <2>1. CASE wire' = wire
    <3>1. CASE wire = <<>>
      BY <1>1, <2>1, <3>1
    <3>2. CASE wire # <<>>
      <4>1. peer \in Servers /\ peer' = peer
        BY <1>7, <1>w, <3>2 DEF IdentityInv, QuietWhenIdle, TypeOK, Publish
      <4>2. \A i \in DOMAIN wire : Told(wire[i], log'[peer'])
        BY <1>7, <1>w, <2>1, <4>1, ToldStays DEF WireIsLog
      <4> QED BY <2>1, <4>2 DEF WireIsLog
    <3> QED BY <3>1, <3>2
  <2>2. CASE wire' # wire
    <3>1. wire' = Append(wire, e) /\ phase \in Attempt
      BY <1>7, <2>2 DEF Publish
    <3>2. peer = daemon /\ peer \in Servers /\ peer' = peer
      BY <1>7, <1>w, <3>1 DEF IdentityInv, PeerIsDaemon, Publish, TypeOK
    <3>3. Told(e, log'[peer'])
      <4>1. log[daemon] \in Seq(Kinds) /\ log'[daemon] = Append(log[daemon], kind)
        BY <1>7, <1>w, <3>2 DEF Publish, TypeOK
      <4> QED BY <3>2, <4>1 DEF Told, Event
    <3>4. \A i \in DOMAIN wire : Told(wire[i], log'[peer'])
      BY <1>7, <1>w, <3>2, ToldStays DEF WireIsLog
    <3>5. \A i \in DOMAIN wire' : (i \in DOMAIN wire /\ wire'[i] = wire[i]) \/ wire'[i] = e
      <4> HIDE DEF e
      <4> QED BY <1>w, <3>1
    <3> HIDE DEF e
    <3> QED BY <3>3, <3>4, <3>5 DEF WireIsLog
  <2> QED BY <2>1, <2>2
<1>8. CASE DuplicateEvent
  <2>1. wire # <<>> /\ Head(wire) \in Messages /\ wire' = <<Head(wire)>> \o wire
        /\ UNCHANGED <<peer, log>>
    BY <1>8, <1>w, HeadType DEF DuplicateEvent, Receive
  <2>2. \A i \in DOMAIN wire' : \E j \in DOMAIN wire : wire'[i] = wire[j]
    <3> SUFFICES ASSUME NEW i \in DOMAIN wire' PROVE \E j \in DOMAIN wire : wire'[i] = wire[j]
      OBVIOUS
    <3>1. CASE i = 1
      BY <1>w, <2>1, <3>1
    <3>2. CASE i # 1
      <4>1. i - 1 \in DOMAIN wire /\ wire'[i] = wire[i - 1]
        BY <1>w, <2>1, <3>2
      <4> QED BY <4>1
    <3> QED BY <3>1, <3>2
  <2> QED BY <2>1, <2>2 DEF WireIsLog
<1>9. ASSUME NEW s \in Servers, ReplaceDaemon(s) PROVE WireIsLog'
  <2>1. CASE phase \in Attempt
    BY <1>1, <1>9, <2>1 DEF ReplaceDaemon, EndTo
  <2>2. CASE phase \notin Attempt
    BY <1>1, <1>9, <2>2 DEF ReplaceDaemon, IdentityInv, QuietWhenIdle
  <2> QED BY <2>1, <2>2
<1>10. ASSUME NEW n \in 1..MaxSequence, Prune(n) PROVE WireIsLog'
  BY <1>10 DEF Prune, WireIsLog
<1>11. ASSUME NEW m \in BoundedMessages, SendAnything(m) PROVE WireIsLog'
  BY <1>11 DEF SendAnything
<1>12. CASE UNCHANGED vars
  BY <1>12 DEF vars, WireIsLog
<1> QED
  BY <1>3, <1>4, <1>5, <1>6, <1>7, <1>8, <1>9, <1>10, <1>11, <1>12
     DEF Next, ClientStep, FaultStep

(***************************************************************************)
(* The steps of the client, one by one.                                    *)
(***************************************************************************)

LEMMA LegacyRestarts ==
    ASSUME IdentityInv, ReceiveLegacyServerInfo
    PROVE  Abstract!Next
<1>1. history' = <<>> /\ lastSequence' = 0 /\ origin' = peer /\ log' = log
  BY EmptyCursor DEF ReceiveLegacyServerInfo, IdentityInv, OrderInv, TypeOK, daemonVars
<1>2. peer \in Servers /\ 0 \in 0..Len(log[peer])
  BY DEF IdentityInv, OrderInv, TypeOK, ReceiveLegacyServerInfo, Attempt
<1> QED BY <1>1, <1>2 DEF Abstract!Next, Abstract!Restart

LEMMA BeginRestarts ==
    ASSUME IdentityInv, WireIsLog, ReceiveBegin
    PROVE  Abstract!Next \/ UNCHANGED Abstract!vars
<1> DEFINE data == Head(wire).data
<1>1. /\ wire \in Seq(Messages) /\ wire # <<>> /\ Head(wire).type = "begin"
      /\ peer \in Servers /\ peer = daemon /\ log[peer] \in Seq(Kinds)
      /\ requested = [server |-> serverId, after |-> lastSequence]
      /\ lastSequence \in Nat
  BY DEF IdentityInv, OrderInv, TypeOK, ReceiveBegin, Receive, Attempt, PeerIsDaemon,
         RequestedIsCurrent
<1>2. /\ data \in SyncData /\ BeginAcceptable(data)
      /\ lastSequence' = data.from /\ origin' = peer /\ log' = log
      /\ history' = IF data.reset THEN <<>> ELSE history
  BY <1>1, HeadType, SyncMessageType DEF ReceiveBegin, daemonVars
<1>3. 1 \in DOMAIN wire /\ wire[1] = Head(wire)
  BY <1>1
<1>4. data.latest <= Len(log[peer])
  BY <1>1, <1>3 DEF WireIsLog, Told
<1>5. data.from \in 0..Len(log[peer])
  BY <1>1, <1>2, <1>4 DEF BeginAcceptable, SyncData
<1>6. CASE history' = <<>>
  <2> HIDE DEF data
  <2> QED BY <1>1, <1>2, <1>5, <1>6 DEF Abstract!Next, Abstract!Restart
<1>7. CASE ~data.reset /\ origin = peer
  BY <1>1, <1>2, <1>7 DEF BeginAcceptable, Abstract!vars
<1>8. CASE ~data.reset /\ origin # peer
  <2>1. \/ requested.server = peer
        \/ requested.server = NoServer /\ requested.after = 0
    BY <1>1, <1>3, <1>8 DEF IdentityInv, NoUnsoundResume
  <2>2. lastSequence = 0
    BY <1>1, <1>8, <2>1 DEF IdentityInv, ConfirmedIsOrigin
  <2>3. history = <<>>
    BY <2>2, EmptyCursor DEF IdentityInv, OrderInv
  <2> QED BY <1>2, <1>6, <1>8, <2>3
<1> QED BY <1>2, <1>6, <1>7, <1>8

LEMMA CommitExtends ==
    ASSUME IdentityInv, WireIsLog, CommitEvent
    PROVE  Abstract!Next
<1> DEFINE n == Head(wire).seq
<1>1. /\ wire \in Seq(Messages) /\ wire # <<>> /\ Head(wire).type = "event"
      /\ peer \in Servers /\ origin = peer
  BY DEF IdentityInv, OrderInv, TypeOK, CommitEvent, Streaming, Receive, Attempt, OriginIsPeer
<1>2. 1 \in DOMAIN wire /\ wire[1] = Head(wire)
  BY <1>1
<1>3. n \in DOMAIN log[origin] /\ Head(wire).kind = log[origin][n]
  BY <1>1, <1>2 DEF WireIsLog, Told
<1>4. origin # NoServer
  BY <1>1, ServersAssumption
<1>5. /\ log[origin][n] \in Abstract!Decodable
      /\ n > lastSequence
      /\ origin \notin Legacy => n = lastSequence + 1
      /\ lastSequence' = n
      /\ history' = Append(history, [server |-> origin, seq |-> n, kind |-> log[origin][n]])
      /\ UNCHANGED <<log, origin>>
  BY <1>1, <1>3 DEF CommitEvent, Strict, Decodable, Abstract!Decodable, daemonVars
<1> HIDE DEF n
<1> QED BY <1>3, <1>4, <1>5 DEF Abstract!Next, Abstract!Extend

\* The only steps that touch the logs.
LEMMA LogStep ==
    ASSUME [Next]_vars
    PROVE  \/ \E kind \in Kinds : Publish(kind)
           \/ UNCHANGED log
<1> USE DEF daemonVars, cursorVars, attemptVars
<1>1. CASE ClientStep
  BY <1>1 DEF ClientStep, Connect, ReceiveServerInfo, ReceiveLegacyServerInfo, ReceiveBegin,
     RejectBegin, ReceiveComplete, RejectComplete, ReceiveUnexpected, RejectEvent,
     IgnoreEvent, ReportGap, CommitEvent
<1>2. CASE FaultStep
  BY <1>2 DEF FaultStep, LoseConnection, LoseEvent, DuplicateEvent, ReplaceDaemon, Prune,
     NewClient
<1>3. CASE AnswerHello \/ (\E m \in BoundedMessages : SendAnything(m))
  BY <1>3 DEF AnswerHello, SendAnything
<1>4. CASE UNCHANGED vars
  BY <1>4 DEF vars
<1> QED BY <1>1, <1>2, <1>3, <1>4 DEF Next

LEMMA PublishPublishes ==
    ASSUME IdentityInv, NEW kind \in Kinds, Publish(kind)
    PROVE  Abstract!Next
<1>1. daemon \in Servers
  BY DEF IdentityInv, OrderInv, TypeOK
<1>2. kind \in Abstract!Kinds
  BY DEF Kinds, Decodable, Abstract!Kinds, Abstract!Decodable
<1>3. Abstract!Publish(daemon, kind)
  BY DEF Publish, Abstract!Publish, cursorVars
<1> QED BY <1>1, <1>2, <1>3 DEF Abstract!Next

LEMMA RefinementStep ==
    IdentityInv /\ WireIsLog /\ [Next]_vars => [Abstract!Next]_(Abstract!vars)
<1> SUFFICES ASSUME IdentityInv, WireIsLog, [Next]_vars
             PROVE  Abstract!Next \/ UNCHANGED Abstract!vars
  OBVIOUS
<1>1. CASE \E kind \in Kinds : Publish(kind)
  BY <1>1, PublishPublishes
<1>2. CASE ReceiveLegacyServerInfo
  BY <1>2, LegacyRestarts
<1>3. CASE ReceiveBegin
  BY <1>3, BeginRestarts
<1>4. CASE CommitEvent
  BY <1>4, CommitExtends
<1>5. CASE NewClient
  BY <1>5 DEF NewClient, daemonVars, Abstract!Next, Abstract!Forget
<1>6. CASE UNCHANGED log /\ UNCHANGED <<lastSequence, history, origin>>
  BY <1>6 DEF Abstract!vars
<1> QED BY <1>1, <1>2, <1>3, <1>4, <1>5, <1>6, HistoryStep, LogStep

\* With a daemon that keeps the protocol, and identities that do not return,
\* the client implements the abstract replica: what the views are told is, at
\* every moment, a stretch of one daemon's log.
THEOREM ClientIsReplica ==
    ASSUME TrustedDaemon, ~IdentitiesReturn
    PROVE  Spec => ImplementsEventHistory
<1>1. Init => Abstract!Init
  BY DEF Init, Abstract!Init
<1>2. Init => WireIsLog
  BY DEF Init, WireIsLog
<1>3. IdentityInv /\ WireIsLog /\ [Next]_vars => WireIsLog'
  BY WireIsLogStep
<1> QED
  BY <1>1, <1>2, <1>3, RefinementStep, IdentityInvariant, PTL
     DEF Spec, ImplementsEventHistory, Abstract!Spec
=============================================================================
