--------------------------- MODULE UiDeliveryProofs ---------------------------
(***************************************************************************)
(* What TLAPS proves of UiDelivery, for channels of every capacity, any    *)
(* number of connection attempts and any number of events.                 *)
(***************************************************************************)
EXTENDS UiDelivery, SequenceTheorems, TLAPS

(***************************************************************************)
(* The broadcast channel.                                                  *)
(***************************************************************************)

LEMMA NewestIs ==
    ASSUME NEW T, NEW s \in Seq(T), NEW n \in Nat \ {0}
    PROVE  \E d \in Nat :
            /\ Newest(s, n) \in Seq(T) /\ Len(Newest(s, n)) <= n
            /\ Len(Newest(s, n)) = Len(s) - d
            /\ \A i \in 1..(Len(s) - d) : Newest(s, n)[i] = s[i + d]
            /\ d # 0 => Len(s) > n
            /\ s # <<>> => d < Len(s)
<1>1. CASE Len(s) <= n
  <2>1. Newest(s, n) = s
    BY <1>1 DEF Newest
  <2>2. WITNESS 0 \in Nat
  <2> QED
    BY <1>1, <2>1
<1>2. CASE Len(s) > n
  <2>1. PICK d \in Nat : d = Len(s) - n
    BY <1>2
  <2>2. Newest(s, n) = SubSeq(s, d + 1, Len(s))
    BY <1>2, <2>1 DEF Newest
  <2>3. \A i \in (d + 1)..Len(s) : s[i] \in T
    BY ElementOfSeq
  <2>4. /\ Newest(s, n) \in Seq(T)
        /\ Len(Newest(s, n)) = Len(s) - d
        /\ \A i \in 1..(Len(s) - d) : Newest(s, n)[i] = s[(d + 1) + i - 1]
    BY <1>2, <2>1, <2>2, <2>3, SubSeqProperties
  <2>5. \A i \in 1..(Len(s) - d) : Newest(s, n)[i] = s[i + d]
    <3>1. \A i \in 1..(Len(s) - d) : (d + 1) + i - 1 = i + d
      OBVIOUS
    <3> QED
      BY <2>4, <3>1
  <2>6. Len(s) \in Nat /\ Len(s) - d = n /\ d < Len(s)
    BY <2>1, LenProperties
  <2>7. Newest(s, n) \in Seq(T) /\ Len(Newest(s, n)) = Len(s) - d /\ Len(Newest(s, n)) <= n
    BY <2>4, <2>6
  <2> QED
    BY <1>2, <2>5, <2>6, <2>7
<1> QED
  BY <1>1, <1>2

\* What the channel holds after a send, by position: the messages after the
\* first d, where losing any is remembered.
LEMMA EmitIs ==
    ASSUME DeliveryAssumption, NEW T, broadcast \in Seq(T), skipped \in BOOLEAN,
           NEW m \in Seq(T), m # <<>>, Emit(m)
    PROVE  \E d \in Nat :
            /\ broadcast' \in Seq(T) /\ Len(broadcast') <= BroadcastCapacity
            /\ d < Len(broadcast) + Len(m)
            /\ Len(broadcast') = Len(broadcast) + Len(m) - d
            /\ \A i \in 1..(Len(broadcast) + Len(m) - d) :
                broadcast'[i] = (broadcast \o m)[i + d]
            /\ skipped' \in BOOLEAN /\ (skipped => skipped') /\ (d # 0 => skipped')
<1>1. PICK all : all = broadcast \o m
  OBVIOUS
<1>2. all \in Seq(T) /\ Len(all) = Len(broadcast) + Len(m) /\ all # <<>>
  <2>1. Len(m) > 0 /\ Len(m) \in Nat /\ Len(broadcast) \in Nat
    BY LenProperties, EmptySeq
  <2>2. all \in Seq(T) /\ Len(all) = Len(broadcast) + Len(m)
    BY <1>1, ConcatProperties
  <2> QED
    BY <2>1, <2>2
<1>3. broadcast' = Newest(all, BroadcastCapacity)
      /\ skipped' = (skipped \/ Len(all) > BroadcastCapacity)
  BY <1>1 DEF Emit
<1>4. BroadcastCapacity \in Nat \ {0}
  BY DEF DeliveryAssumption
<1>5. PICK d \in Nat :
        /\ broadcast' \in Seq(T) /\ Len(broadcast') <= BroadcastCapacity
        /\ Len(broadcast') = Len(all) - d
        /\ \A i \in 1..(Len(all) - d) : broadcast'[i] = all[i + d]
        /\ d # 0 => Len(all) > BroadcastCapacity
        /\ d < Len(all)
  <2>1. PICK n : n = Newest(all, BroadcastCapacity)
    OBVIOUS
  <2> QED
    BY <1>2, <1>3, <1>4, NewestIs
<1>6. skipped' \in BOOLEAN /\ (skipped => skipped') /\ (d # 0 => skipped')
  BY <1>3, <1>5
<1> QED
  BY <1>1, <1>2, <1>5, <1>6

\* The newest message is never lost, and what is lost is remembered.
LEMMA EmitSays ==
    ASSUME DeliveryAssumption, NEW T, broadcast \in Seq(T), skipped \in BOOLEAN,
           NEW m \in Seq(T), m # <<>>, Emit(m)
    PROVE  /\ broadcast' \in Seq(T) /\ Len(broadcast') <= BroadcastCapacity
           /\ broadcast' # <<>> /\ Last(broadcast') = Last(m)
           /\ skipped' \in BOOLEAN /\ (skipped => skipped')
           /\ ToSet(broadcast') \subseteq ToSet(broadcast) \cup ToSet(m)
           /\ \A x \in ToSet(broadcast) \cup ToSet(m) : x \in ToSet(broadcast') \/ skipped'
<1>1. PICK d \in Nat :
        /\ broadcast' \in Seq(T) /\ Len(broadcast') <= BroadcastCapacity
        /\ d < Len(broadcast) + Len(m)
        /\ Len(broadcast') = Len(broadcast) + Len(m) - d
        /\ \A i \in 1..(Len(broadcast) + Len(m) - d) :
            broadcast'[i] = (broadcast \o m)[i + d]
        /\ skipped' \in BOOLEAN /\ (skipped => skipped') /\ (d # 0 => skipped')
  BY EmitIs
<1>2. Len(broadcast) \in Nat /\ Len(m) \in Nat \ {0}
      /\ DOMAIN broadcast = 1..Len(broadcast) /\ DOMAIN m = 1..Len(m)
      /\ DOMAIN broadcast' = 1..Len(broadcast')
  BY <1>1, LenProperties, EmptySeq
<1>3. \A i \in 1..(Len(broadcast) + Len(m)) :
        (broadcast \o m)[i] = IF i <= Len(broadcast) THEN broadcast[i]
                                                     ELSE m[i - Len(broadcast)]
  BY ConcatProperties
<1>4. broadcast' # <<>> /\ Last(broadcast') = Last(m)
  <2>1. Len(broadcast') \in 1..(Len(broadcast) + Len(m) - d)
    BY <1>1, <1>2
  <2>2. broadcast'[Len(broadcast')] = (broadcast \o m)[Len(broadcast) + Len(m)]
    BY <1>1, <1>2, <2>1
  <2>3. (broadcast \o m)[Len(broadcast) + Len(m)] = m[Len(m)]
    BY <1>2, <1>3
  <2> QED
    BY <1>2, <2>1, <2>2, <2>3, EmptySeq DEF Last
<1>5. ASSUME NEW x \in ToSet(broadcast') PROVE x \in ToSet(broadcast) \cup ToSet(m)
  <2>1. PICK i \in 1..Len(broadcast') : broadcast'[i] = x
    BY <1>2, <1>5 DEF ToSet
  <2>2. PICK j \in 1..(Len(broadcast) + Len(m)) : x = (broadcast \o m)[j]
    BY <1>1, <1>2, <2>1
  <2>3. CASE j <= Len(broadcast)
    BY <1>2, <1>3, <2>2, <2>3 DEF ToSet
  <2>4. CASE j > Len(broadcast)
    <3>1. j - Len(broadcast) \in 1..Len(m) /\ x = m[j - Len(broadcast)]
      BY <1>2, <1>3, <2>2, <2>4
    <3> QED
      BY <1>2, <3>1 DEF ToSet
  <2> QED
    BY <1>2, <2>3, <2>4
<1>6. ASSUME NEW x \in ToSet(broadcast) \cup ToSet(m), d = 0 PROVE x \in ToSet(broadcast')
  <2>1. PICK j \in 1..(Len(broadcast) + Len(m)) : x = (broadcast \o m)[j]
    <3>1. CASE x \in ToSet(broadcast)
      BY <1>2, <1>3, <3>1 DEF ToSet
    <3>2. CASE x \in ToSet(m)
      <4>1. PICK k \in 1..Len(m) : x = m[k]
        BY <1>2, <3>2 DEF ToSet
      <4>2. k + Len(broadcast) \in 1..(Len(broadcast) + Len(m))
            /\ ~(k + Len(broadcast) <= Len(broadcast))
            /\ k + Len(broadcast) - Len(broadcast) = k
        BY <1>2
      <4> QED
        BY <1>3, <4>1, <4>2
    <3> QED
      BY <3>1, <3>2
  <2>2. j \in DOMAIN broadcast' /\ broadcast'[j] = x
    BY <1>1, <1>2, <1>6, <2>1
  <2> QED
    BY <2>2 DEF ToSet
<1> QED
  BY <1>1, <1>4, <1>5, <1>6

(***************************************************************************)
(* Messages, and the types of the variables.                               *)
(***************************************************************************)

LEMMA MessageKinds ==
    /\ Nothing \notin Messages /\ Broadcasts \subseteq Messages
    /\ Health \in Messages /\ Error("skipped") \in Messages /\ Error("final") \in Messages
    /\ Health.kind = "health" /\ Nothing.kind = "nothing"
    /\ \A t : Error(t).kind = "error" /\ Error(t).text = t
    /\ \A n : Event(n).kind = "event" /\ Event(n).event = n
    /\ \A a : Snap(a).kind = "snapshot" /\ Snap(a).attempt = a
    /\ \A s : State(s).kind = "state" /\ State(s).state = s /\ State(s).attempt = attempt
BY DEF Nothing, Messages, Broadcasts, Health, Error, Event, Snap, State

LEMMA MessageIs ==
    ASSUME NEW m \in Messages
    PROVE  /\ m.kind \in {"state", "event", "snapshot", "health", "error"}
           /\ m.kind \in {"state", "event"} <=> m \in Broadcasts
           /\ m.kind = "state" => m.state \in UiStates /\ m.attempt \in 1..MaxAttempts
           /\ m.kind = "event" => m.event \in 1..MaxEvents /\ m = Event(m.event)
           /\ m.kind = "snapshot" => m.attempt \in 1..MaxAttempts
           /\ m.kind = "error" => m = Error("skipped") \/ m = Error("final")
BY DEF Messages, Broadcasts, Health, Error, Event, UiStates

LEMMA StateIs ==
    ASSUME TypeOK, NEW s \in UiStates
    PROVE  State(s) \in Broadcasts /\ <<State(s)>> \in Seq(Broadcasts) /\ <<State(s)>> # <<>>
           /\ Last(<<State(s)>>) = State(s) /\ ToSet(<<State(s)>>) = {State(s)}
<1>1. State(s) \in Broadcasts
  BY DEF TypeOK, State, Broadcasts
<1>2. PICK x : x = State(s)
  OBVIOUS
<1>3. <<x>> \in Seq(Broadcasts) /\ <<x>> # <<>> /\ Len(<<x>>) = 1 /\ <<x>>[1] = x
      /\ DOMAIN <<x>> = {1}
  BY <1>1, <1>2
<1>4. Last(<<x>>) = x /\ ToSet(<<x>>) = {x}
  BY <1>3 DEF Last, ToSet
<1> QED
  BY <1>1, <1>2, <1>3, <1>4

LEMMA StateForIs ==
    ASSUME NEW class
    PROVE  StateFor(class) \in {"AuthenticationFailed", "Incompatible", "Offline"}
           /\ StateFor(class) \in UiStates
BY DEF StateFor, UiStates

\* What a put does to the channel to the UI.
LEMMA PutIs ==
    ASSUME DeliveryAssumption, TypeOK, NEW m \in Messages,
           Room, channel' = Append(channel, m)
    PROVE  /\ channel' \in Seq(Messages) /\ Len(channel') <= ChannelCapacity
           /\ ToSet(channel') = ToSet(channel) \cup {m}
           /\ channel' # <<>> /\ Last(channel') = m
           /\ Len(channel') = Len(channel) + 1
           /\ \A i \in DOMAIN channel : channel'[i] = channel[i]
           /\ channel'[Len(channel) + 1] = m
<1>1. channel \in Seq(Messages) /\ Len(channel) \in Nat /\ DOMAIN channel = 1..Len(channel)
      /\ Len(channel) < ChannelCapacity /\ ChannelCapacity \in Nat
  BY LenProperties DEF TypeOK, Room, DeliveryAssumption
<1>2. /\ channel' \in Seq(Messages) /\ channel' # <<>>
      /\ Len(channel') = Len(channel) + 1
      /\ \A i \in 1..Len(channel) : channel'[i] = channel[i]
      /\ channel'[Len(channel) + 1] = m
  BY <1>1, AppendProperties
<1>3. DOMAIN channel' = 1..(Len(channel) + 1)
  BY <1>2, LenProperties
<1>4. ToSet(channel') = ToSet(channel) \cup {m}
  <2>1. ASSUME NEW x \in ToSet(channel') PROVE x \in ToSet(channel) \cup {m}
    <3>1. PICK i \in 1..(Len(channel) + 1) : x = channel'[i]
      BY <1>3, <2>1 DEF ToSet
    <3> QED
      BY <1>1, <1>2, <3>1 DEF ToSet
  <2>2. ASSUME NEW x \in ToSet(channel) \cup {m} PROVE x \in ToSet(channel')
    <3>1. PICK i \in 1..(Len(channel) + 1) : x = channel'[i]
      BY <1>1, <1>2, <2>2 DEF ToSet
    <3> QED
      BY <1>3, <3>1 DEF ToSet
  <2> QED
    BY <2>1, <2>2
<1>5. Last(channel') = m
  BY <1>2 DEF Last
<1> QED
  BY <1>1, <1>2, <1>4, <1>5

\* Taking the head of a channel.
LEMMA TakeIs ==
    ASSUME NEW T, NEW s \in Seq(T), s # <<>>
    PROVE  /\ Head(s) \in T /\ Tail(s) \in Seq(T) /\ Len(Tail(s)) = Len(s) - 1
           /\ Len(s) \in Nat \ {0} /\ DOMAIN s = 1..Len(s) /\ Head(s) = s[1]
           /\ \A i \in DOMAIN Tail(s) : Tail(s)[i] = s[i + 1] /\ i + 1 \in DOMAIN s
           /\ DOMAIN Tail(s) = 1..(Len(s) - 1)
           /\ ToSet(s) = {Head(s)} \cup ToSet(Tail(s))
           /\ Tail(s) # <<>> => Last(Tail(s)) = Last(s)
           /\ Tail(s) = <<>> => Head(s) = Last(s)
<1>1. /\ Head(s) \in T /\ Tail(s) \in Seq(T) /\ Len(Tail(s)) = Len(s) - 1
      /\ \A i \in 1..Len(Tail(s)) : Tail(s)[i] = s[i + 1]
      /\ Len(s) \in Nat \ {0} /\ DOMAIN s = 1..Len(s) /\ Head(s) = s[1]
      /\ DOMAIN Tail(s) = 1..(Len(s) - 1)
  BY HeadTailProperties, LenProperties, EmptySeq
<1>2. ToSet(s) = {Head(s)} \cup ToSet(Tail(s))
  <2>1. ASSUME NEW x \in ToSet(s) PROVE x \in {Head(s)} \cup ToSet(Tail(s))
    <3>1. PICK i \in 1..Len(s) : x = s[i]
      BY <1>1, <2>1 DEF ToSet
    <3>2. CASE i = 1
      BY <1>1, <3>1, <3>2
    <3>3. CASE i # 1
      <4>1. i - 1 \in 1..(Len(s) - 1) /\ (i - 1) + 1 = i
        BY <1>1, <3>1, <3>3
      <4>2. Tail(s)[i - 1] = x
        BY <1>1, <3>1, <4>1
      <4> QED
        BY <1>1, <4>1, <4>2 DEF ToSet
    <3> QED
      BY <3>2, <3>3
  <2>2. ASSUME NEW x \in {Head(s)} \cup ToSet(Tail(s)) PROVE x \in ToSet(s)
    <3>1. CASE x = Head(s)
      BY <1>1, <3>1 DEF ToSet
    <3>2. CASE x \in ToSet(Tail(s))
      <4>1. PICK i \in 1..(Len(s) - 1) : x = Tail(s)[i]
        BY <1>1, <3>2 DEF ToSet
      <4>2. x = s[i + 1] /\ i + 1 \in 1..Len(s)
        BY <1>1, <4>1
      <4> QED
        BY <1>1, <4>2 DEF ToSet
    <3> QED
      BY <2>2, <3>1, <3>2
  <2> QED
    BY <2>1, <2>2
<1>3. /\ Tail(s) # <<>> => Last(Tail(s)) = Last(s)
      /\ Tail(s) = <<>> => Head(s) = Last(s)
  <2>1. CASE Tail(s) # <<>>
    <3>1. Len(s) - 1 \in 1..Len(Tail(s)) /\ (Len(s) - 1) + 1 = Len(s)
      BY <1>1, <2>1, EmptySeq
    <3> QED
      BY <1>1, <2>1, <3>1 DEF Last
  <2>2. CASE Tail(s) = <<>>
    <3>1. Len(s) = 1
      BY <1>1, <2>2, EmptySeq
    <3> QED
      BY <1>1, <2>2, <3>1 DEF Last
  <2> QED
    BY <2>1, <2>2
<1> QED
  BY <1>1, <1>2, <1>3

LEMMA TwoStates ==
    ASSUME TypeOK, NEW m, m = <<State("Connecting"), State("Authenticating")>>
    PROVE  /\ m \in Seq(Broadcasts) /\ m # <<>> /\ Last(m) = State("Authenticating")
           /\ ToSet(m) = {State("Connecting"), State("Authenticating")}
<1>1. PICK x, y : x = State("Connecting") /\ y = State("Authenticating")
  OBVIOUS
<1>2. x \in Broadcasts /\ y \in Broadcasts
  BY <1>1, StateIs DEF UiStates
<1>3. m \in Seq(Broadcasts) /\ Len(m) = 2 /\ m[1] = x /\ m[2] = y /\ DOMAIN m = {1, 2} /\ m # <<>>
  BY <1>1, <1>2
<1>4. Last(m) = y /\ ToSet(m) = {x, y}
  BY <1>3 DEF Last, ToSet
<1> QED
  BY <1>1, <1>3, <1>4

\* Every message of the broadcast: what a send comes to.
LEMMA Emits ==
    ASSUME DeliveryAssumption, TypeOK, NEW m \in Seq(Broadcasts), m # <<>>, Emit(m)
    PROVE  /\ broadcast' \in Seq(Broadcasts) /\ Len(broadcast') <= BroadcastCapacity
           /\ broadcast' # <<>> /\ Last(broadcast') = Last(m)
           /\ skipped' \in BOOLEAN /\ (skipped => skipped')
           /\ ToSet(broadcast') \subseteq ToSet(broadcast) \cup ToSet(m)
           /\ \A x \in ToSet(broadcast) \cup ToSet(m) : x \in ToSet(broadcast') \/ skipped'
BY EmitSays DEF TypeOK

\* The four steps in which the supervisor or the session announces a state.
Announces(s) ==
    /\ s \in UiStates /\ Emit(<<State(s)>>)
    /\ UNCHANGED <<attempt, active, committed, pathVars, uiVars>>

LEMMA AnnounceIs ==
    ASSUME DeliveryAssumption, TypeOK, NEW s, Announces(s)
    PROVE  /\ broadcast' \in Seq(Broadcasts) /\ Len(broadcast') <= BroadcastCapacity
           /\ broadcast' # <<>> /\ Last(broadcast') = State(s)
           /\ skipped' \in BOOLEAN /\ (skipped => skipped')
           /\ ToSet(broadcast') \subseteq ToSet(broadcast) \cup {State(s)}
           /\ \A x \in ToSet(broadcast) \cup {State(s)} : x \in ToSet(broadcast') \/ skipped'
<1>1. PICK m : m = <<State(s)>>
  OBVIOUS
<1>2. m \in Seq(Broadcasts) /\ m # <<>> /\ Last(m) = State(s) /\ ToSet(m) = {State(s)} /\ Emit(m)
  BY <1>1, StateIs DEF Announces
<1> QED
  BY <1>2, Emits

LEMMA Announcers ==
    /\ ConnectFails => Announces(StateFor(error'))
    /\ ConnectOk => Announces("Online")
    /\ SnapshotFails => Announces("Offline")
    /\ SessionEnds => Announces(StateFor(error'))
    /\ Retry => Announces("Reconnecting")
BY StateForIs DEF ConnectFails, ConnectOk, SnapshotFails, SessionEnds, Retry, Announces, UiStates

LEMMA CommitIs ==
    ASSUME DeliveryAssumption, TypeOK, Commit
    PROVE  /\ broadcast' \in Seq(Broadcasts) /\ Len(broadcast') <= BroadcastCapacity
           /\ broadcast' # <<>> /\ committed' = committed + 1 /\ committed' \in 1..MaxEvents
           /\ skipped' \in BOOLEAN /\ (skipped => skipped')
           /\ ToSet(broadcast') \subseteq ToSet(broadcast) \cup {Event(committed')}
           /\ \A x \in ToSet(broadcast) \cup {Event(committed')} :
                x \in ToSet(broadcast') \/ skipped'
<1>1. PICK n \in 1..MaxEvents : n = committed + 1 /\ committed' = n
  BY DEF Commit, TypeOK, DeliveryAssumption
<1>2. PICK x : x = Event(n)
  OBVIOUS
<1>3. x \in Broadcasts
  BY <1>2 DEF Event, Broadcasts
<1>4. PICK m : m = <<x>>
  OBVIOUS
<1>5. m \in Seq(Broadcasts) /\ m # <<>> /\ Len(m) = 1 /\ m[1] = x /\ DOMAIN m = {1}
  BY <1>3, <1>4
<1>6. ToSet(m) = {x} /\ Emit(m)
  BY <1>1, <1>2, <1>4, <1>5 DEF ToSet, Commit
<1> QED
  BY <1>1, <1>2, <1>5, <1>6, Emits

LEMMA ApplyIs ==
    ASSUME TypeOK, ApplyEvent
    PROVE  /\ channel # <<>> /\ channel' = Tail(channel) /\ Head(channel) \in Messages
           /\ UNCHANGED <<supVars, clientVars, held>>
           /\ \/ ApplyState(Head(channel))
              \/ ApplyTimelineEvent(Head(channel))
              \/ ApplySnapshot(Head(channel))
              \/ ApplyHealth(Head(channel))
              \/ ApplyError(Head(channel))
<1>1. channel # <<>> /\ channel' = Tail(channel) /\ UNCHANGED <<supVars, clientVars, held>>
  BY DEF ApplyEvent
<1>2. Head(channel) \in Messages
  BY <1>1, TakeIs DEF TypeOK
<1> QED
  BY <1>1, <1>2 DEF ApplyEvent

LEMMA InitType == DeliveryAssumption /\ Init => TypeOK
<1> SUFFICES ASSUME DeliveryAssumption, Init PROVE TypeOK
  OBVIOUS
<1>1. /\ broadcast \in Seq(Broadcasts) /\ Len(broadcast) = 0
      /\ channel \in Seq(Messages) /\ Len(channel) = 0
  BY EmptySeq DEF Init
<1>2. /\ Len(broadcast) <= BroadcastCapacity /\ Len(channel) <= ChannelCapacity
      /\ attempt \in 1..MaxAttempts /\ shown \in 1..MaxAttempts
      /\ active \in 0..MaxAttempts /\ snapshot \in 0..MaxAttempts
      /\ committed \in 0..MaxEvents
  BY <1>1 DEF Init, DeliveryAssumption
<1>3. state \in UiStates
  BY DEF Init, UiStates
<1>4. /\ stage = "health" /\ error = "none" /\ driver = "none" /\ held = Nothing
      /\ skipped \in BOOLEAN /\ applied \subseteq 1..MaxEvents /\ reported \in BOOLEAN
  BY DEF Init
<1> QED
  BY <1>1, <1>2, <1>3, <1>4 DEF TypeOK

LEMMA TypeStep ==
    ASSUME DeliveryAssumption, TypeOK, [Next]_vars
    PROVE  TypeOK'
<1> USE DEF supVars, clientVars, pathVars, uiVars
<1>1. CASE HealthFails \/ HealthOk \/ SnapshotArrives \/ NoticeEnd \/ NextAttempt
  <2>1. attempt' \in 1..MaxAttempts
    BY <1>1 DEF HealthFails, HealthOk, SnapshotArrives, NoticeEnd, NextAttempt, TypeOK,
                DeliveryAssumption
  <2>2. error' \in Classes \cup {"none"} /\ active' \in 0..MaxAttempts
        /\ driver' \in {"none", "running", "ended"}
    BY <1>1 DEF HealthFails, HealthOk, SnapshotArrives, NoticeEnd, NextAttempt, TypeOK, Classes,
                DeliveryAssumption
  <2>3. stage' \in {"health", "checked", "arrived", "failed"}
    BY <1>1 DEF HealthFails, HealthOk, SnapshotArrives, NoticeEnd, NextAttempt
  <2>4. UNCHANGED <<committed, broadcast, skipped, held, channel, state, shown, snapshot,
                    applied, reported>>
    BY <1>1 DEF HealthFails, HealthOk, SnapshotArrives, NoticeEnd, NextAttempt
  <2> QED
    BY <2>1, <2>2, <2>3, <2>4 DEF TypeOK
<1>2. CASE StartConnecting
  <2>1. PICK m : m = <<State("Connecting"), State("Authenticating")>>
    OBVIOUS
  <2>2. Emit(m) /\ m \in Seq(Broadcasts) /\ m # <<>>
    BY <1>2, <2>1, TwoStates DEF StartConnecting
  <2>3. broadcast' \in Seq(Broadcasts) /\ Len(broadcast') <= BroadcastCapacity
        /\ skipped' \in BOOLEAN
    BY <2>2, Emits
  <2>4. channel' \in Seq(Messages) /\ Len(channel') <= ChannelCapacity
    BY <1>2, PutIs, MessageKinds DEF StartConnecting, Put
  <2> QED
    BY <1>2, <2>3, <2>4 DEF StartConnecting, TypeOK
<1>3. CASE ConnectFails \/ ConnectOk \/ SnapshotFails \/ SessionEnds \/ Retry
  <2>1. PICK s : Announces(s)
    BY <1>3, Announcers
  <2>2. broadcast' \in Seq(Broadcasts) /\ Len(broadcast') <= BroadcastCapacity
        /\ skipped' \in BOOLEAN
    BY <2>1, AnnounceIs
  <2> QED
    BY <1>3, <2>2
    DEF ConnectFails, ConnectOk, SnapshotFails, SessionEnds, Retry, TypeOK, Classes
<1>4. CASE SnapshotOk \/ DeliverSnapshot
  <2>1. Snap(attempt) \in Messages
    BY DEF TypeOK, Snap, Messages
  <2>2. UNCHANGED channel \/ (Room /\ channel' = Append(channel, Snap(attempt)))
    BY <1>4 DEF SnapshotOk, DeliverSnapshot, SendSnapshot, Put
  <2>3. channel' \in Seq(Messages) /\ Len(channel') <= ChannelCapacity
    <3>1. CASE UNCHANGED channel
      BY <3>1 DEF TypeOK
    <3>2. CASE Room /\ channel' = Append(channel, Snap(attempt))
      BY <2>1, <3>2, PutIs
    <3> QED
      BY <2>2, <3>1, <3>2
  <2>4. active' \in 0..MaxAttempts /\ stage' \in {"serving", "deliver"}
    <3>1. attempt \in 0..MaxAttempts
      BY DEF TypeOK, DeliveryAssumption
    <3> QED
      BY <1>4, <3>1 DEF SnapshotOk, DeliverSnapshot, SendSnapshot, TypeOK
  <2>5. UNCHANGED <<attempt, error, clientVars, held, uiVars>>
    BY <1>4 DEF SnapshotOk, DeliverSnapshot
  <2> QED
    BY <2>3, <2>4, <2>5 DEF TypeOK
<1>5. CASE GiveUp
  <2>1. channel' \in Seq(Messages) /\ Len(channel') <= ChannelCapacity
    BY <1>5, PutIs, MessageKinds DEF GiveUp, Put
  <2> QED
    BY <1>5, <2>1 DEF GiveUp, TypeOK
<1>6. CASE Commit
  <2>1. broadcast' \in Seq(Broadcasts) /\ Len(broadcast') <= BroadcastCapacity
        /\ skipped' \in BOOLEAN /\ committed' \in 1..MaxEvents
    BY <1>6, CommitIs
  <2> QED
    BY <1>6, <2>1 DEF Commit, TypeOK
<1>7. CASE Receive
  <2>1. CASE skipped
    BY <1>7, <2>1 DEF Receive, TypeOK
  <2>2. CASE ~skipped
    <3>1. /\ Head(broadcast) \in Broadcasts /\ Tail(broadcast) \in Seq(Broadcasts)
          /\ Len(Tail(broadcast)) = Len(broadcast) - 1 /\ Len(broadcast) \in Nat
      BY <1>7, <2>2, TakeIs DEF Receive, TypeOK
    <3>2. Len(Tail(broadcast)) <= BroadcastCapacity
      BY <3>1 DEF TypeOK, DeliveryAssumption
    <3> QED
      BY <1>7, <2>2, <3>1, <3>2 DEF Receive, TypeOK
  <2> QED
    BY <2>1, <2>2
<1>8. CASE Forward
  <2>1. held \in Messages
    BY <1>8, MessageKinds DEF Forward, TypeOK
  <2>2. channel' \in Seq(Messages) /\ Len(channel') <= ChannelCapacity
    BY <1>8, <2>1, PutIs DEF Forward, Put
  <2> QED
    BY <1>8, <2>2 DEF Forward, TypeOK
<1>9. CASE ApplyEvent
  <2>1. channel' \in Seq(Messages) /\ Len(channel') <= ChannelCapacity
    <3>1. channel' \in Seq(Messages) /\ Len(channel') = Len(channel) - 1 /\ Len(channel) \in Nat
      <4>1. channel # <<>> /\ channel' = Tail(channel) /\ channel \in Seq(Messages)
        BY <1>9, ApplyIs DEF TypeOK
      <4> QED
        BY <4>1, TakeIs
    <3> QED
      BY <3>1 DEF TypeOK, DeliveryAssumption
  <2>2. PICK m \in Messages :
          \/ ApplyState(m) \/ ApplyTimelineEvent(m) \/ ApplySnapshot(m) \/ ApplyHealth(m)
          \/ ApplyError(m)
    BY <1>9, ApplyIs
  <2>3. /\ state' \in UiStates /\ shown' \in 1..MaxAttempts /\ snapshot' \in 0..MaxAttempts
        /\ applied' \subseteq 1..MaxEvents /\ reported' \in BOOLEAN
    <3>1. CASE ApplyState(m)
      <4>1. m.state \in UiStates /\ m.attempt \in 1..MaxAttempts
        BY <3>1, MessageIs DEF ApplyState
      <4>2. snapshot' \in 0..MaxAttempts
        BY <3>1 DEF ApplyState, TypeOK, DeliveryAssumption
      <4> QED
        BY <3>1, <4>1, <4>2 DEF ApplyState, TypeOK
    <3>2. CASE ApplyTimelineEvent(m)
      BY <3>2, MessageIs DEF ApplyTimelineEvent, TypeOK
    <3>3. CASE ApplySnapshot(m)
      BY <3>3, MessageIs DEF ApplySnapshot, TypeOK
    <3>4. CASE ApplyHealth(m)
      BY <3>4 DEF ApplyHealth, TypeOK
    <3>5. CASE ApplyError(m)
      <4>1. state' \in UiStates /\ snapshot' \in 0..MaxAttempts
        BY <3>5 DEF ApplyError, TypeOK, UiStates, DeliveryAssumption
      <4>2. reported' \in BOOLEAN /\ UNCHANGED <<shown, applied>>
        BY <3>5 DEF ApplyError
      <4> QED
        BY <4>1, <4>2 DEF TypeOK
    <3> QED
      BY <2>2, <3>1, <3>2, <3>3, <3>4, <3>5
  <2> QED
    BY <1>9, <2>1, <2>3, ApplyIs DEF TypeOK
<1>10. CASE UNCHANGED vars
  BY <1>10 DEF vars, TypeOK
<1> QED
  BY <1>1, <1>2, <1>3, <1>4, <1>5, <1>6, <1>7, <1>8, <1>9, <1>10 DEF Next, RuntimeStep

\* Type correctness, for channels of every capacity.
THEOREM TypeCorrect ==
    ASSUME DeliveryAssumption
    PROVE  Spec => []TypeOK
<1>1. Init => TypeOK
  BY InitType
<1>2. TypeOK /\ [Next]_vars => TypeOK'
  BY TypeStep
<1> QED
  BY <1>1, <1>2, PTL DEF Spec

(***************************************************************************)
(* A session that serves is the one published for RPCs.                    *)
(***************************************************************************)

Published == stage \in {"deliver", "serving"} => active = attempt

\* A snapshot of the attempt that serves is one whose session can be called:
\* run_attempt publishes the session before it sends the snapshot.
THEOREM SnapshotHasSession ==
    ASSUME DeliveryAssumption
    PROVE  Spec => []SnapshotMeansSession
<1>1. Init => Published
  BY DEF Init, Published
<1>2. Published /\ [Next]_vars => Published'
  <2> SUFFICES ASSUME Published, [Next]_vars PROVE Published'
    OBVIOUS
  <2> USE DEF Published, supVars, clientVars, pathVars, uiVars
  <2>1. CASE HealthOk \/ HealthFails \/ StartConnecting \/ ConnectOk \/ ConnectFails
    BY <2>1 DEF HealthOk, HealthFails, StartConnecting, ConnectOk, ConnectFails
  <2>2. CASE SnapshotArrives \/ SnapshotOk \/ SnapshotFails \/ DeliverSnapshot
    BY <2>2 DEF SnapshotArrives, SnapshotOk, SendSnapshot, SnapshotFails, DeliverSnapshot
  <2>3. CASE NoticeEnd \/ Retry \/ NextAttempt \/ GiveUp
    BY <2>3 DEF NoticeEnd, Retry, NextAttempt, GiveUp
  <2>4. CASE SessionEnds \/ Commit \/ Receive \/ Forward \/ ApplyEvent
    BY <2>4 DEF SessionEnds, Commit, Receive, Forward, ApplyEvent
  <2>5. CASE UNCHANGED vars
    BY <2>5 DEF vars
  <2> QED
    BY <2>1, <2>2, <2>3, <2>4, <2>5 DEF Next, RuntimeStep
<1>3. Published => SnapshotMeansSession
  BY DEF Published, SnapshotMeansSession
<1> QED
  BY <1>1, <1>2, <1>3, PTL DEF Spec

(***************************************************************************)
(* No event is lost in silence: every committed one is applied, on its     *)
(* way, or there is a report, given or on its way.                         *)
(***************************************************************************)

Carried == ToSet(broadcast) \cup {held} \cup ToSet(channel)
Told == skipped \/ held = Error("skipped") \/ Error("skipped") \in ToSet(channel) \/ reported
LossInv == \A e \in 1..committed : e \in applied \/ Event(e) \in Carried \/ Told

\* Between two states nothing on its way disappears, unless that is told.
Keeps ==
    /\ \A e \in 1..MaxEvents : Event(e) \in Carried => Event(e) \in Carried' \/ e \in applied' \/ Told'
    /\ Told => Told'
    /\ applied \subseteq applied'

LEMMA KeepsLoss ==
    ASSUME DeliveryAssumption, TypeOK, LossInv, Keeps, UNCHANGED committed
    PROVE  LossInv'
<1>1. \A e \in 1..committed : e \in 1..MaxEvents
  BY DEF TypeOK, DeliveryAssumption
<1>2. SUFFICES ASSUME NEW e \in 1..committed
               PROVE  e \in applied' \/ Event(e) \in Carried' \/ Told'
  BY DEF LossInv, Event
<1>3. e \in applied \/ Event(e) \in Carried \/ Told
  BY <1>2 DEF LossInv
<1> QED
  BY <1>1, <1>3 DEF Keeps

LEMMA PutKeeps ==
    ASSUME DeliveryAssumption, TypeOK, NEW m \in Messages, Put(m),
           UNCHANGED <<broadcast, skipped, held, uiVars>>
    PROVE  Keeps
<1>1. ToSet(channel') = ToSet(channel) \cup {m}
  BY PutIs DEF Put
<1> QED
  BY <1>1 DEF Keeps, Carried, Told, uiVars

LEMMA AnnounceKeeps ==
    ASSUME DeliveryAssumption, TypeOK, NEW s, Announces(s)
    PROVE  Keeps
<1>1. /\ skipped => skipped'
      /\ \A x \in ToSet(broadcast) \cup {State(s)} : x \in ToSet(broadcast') \/ skipped'
  BY AnnounceIs
<1>2. UNCHANGED <<held, channel, applied, reported>>
  BY DEF Announces, pathVars, uiVars
<1> QED
  BY <1>1, <1>2 DEF Keeps, Carried, Told

LEMMA InitLoss == DeliveryAssumption /\ Init => LossInv
<1> SUFFICES ASSUME Init, DeliveryAssumption PROVE LossInv
  OBVIOUS
<1>1. 1..committed = {}
  BY DEF Init
<1> QED
  BY <1>1 DEF LossInv

LEMMA LossStep ==
    ASSUME DeliveryAssumption, TypeOK, LossInv, [Next]_vars
    PROVE  LossInv'
<1> USE DEF supVars, clientVars, pathVars, uiVars
<1>1. CASE HealthFails \/ HealthOk \/ SnapshotArrives \/ NoticeEnd \/ NextAttempt \/ UNCHANGED vars
  <2>1. UNCHANGED <<committed, broadcast, skipped, held, channel, applied, reported>>
    BY <1>1 DEF HealthFails, HealthOk, SnapshotArrives, NoticeEnd, NextAttempt, vars
  <2>2. Keeps
    BY <2>1 DEF Keeps, Carried, Told
  <2> QED
    BY <2>1, <2>2, KeepsLoss
<1>2. CASE StartConnecting
  <2>1. PICK m : m = <<State("Connecting"), State("Authenticating")>>
    OBVIOUS
  <2>2. Emit(m) /\ m \in Seq(Broadcasts) /\ m # <<>>
    BY <1>2, <2>1, TwoStates DEF StartConnecting
  <2>3. /\ skipped => skipped'
        /\ \A x \in ToSet(broadcast) : x \in ToSet(broadcast') \/ skipped'
    BY <2>2, Emits
  <2>4. ToSet(channel') = ToSet(channel) \cup {Health}
    BY <1>2, PutIs, MessageKinds DEF StartConnecting, Put
  <2>5. UNCHANGED <<committed, held, applied, reported>>
    BY <1>2 DEF StartConnecting
  <2>6. Keeps
    BY <2>3, <2>4, <2>5 DEF Keeps, Carried, Told
  <2> QED
    BY <2>5, <2>6, KeepsLoss
<1>3. CASE ConnectFails \/ ConnectOk \/ SnapshotFails \/ SessionEnds \/ Retry
  <2>1. PICK s : Announces(s)
    BY <1>3, Announcers
  <2> QED
    BY <2>1, AnnounceKeeps, KeepsLoss DEF Announces
<1>4. CASE SnapshotOk \/ DeliverSnapshot \/ GiveUp
  <2>1. Snap(attempt) \in Messages
    BY DEF TypeOK, Snap, Messages
  <2>2. UNCHANGED <<committed, broadcast, skipped, held, uiVars>>
    BY <1>4 DEF SnapshotOk, DeliverSnapshot, GiveUp
  <2>3. UNCHANGED channel \/ Put(Snap(attempt)) \/ Put(Error("final"))
    BY <1>4 DEF SnapshotOk, DeliverSnapshot, SendSnapshot, GiveUp, Put
  <2>4. Keeps
    <3>1. CASE UNCHANGED channel
      BY <2>2, <3>1 DEF Keeps, Carried, Told
    <3>2. CASE Put(Snap(attempt))
      BY <2>1, <2>2, <3>2, PutKeeps
    <3>3. CASE Put(Error("final"))
      BY <2>2, <3>3, PutKeeps, MessageKinds
    <3> QED
      BY <2>3, <3>1, <3>2, <3>3
  <2> QED
    BY <2>2, <2>4, KeepsLoss
<1>5. CASE Commit
  <2>1. /\ committed' = committed + 1 /\ (skipped => skipped')
        /\ \A x \in ToSet(broadcast) \cup {Event(committed')} : x \in ToSet(broadcast') \/ skipped'
    BY <1>5, CommitIs
  <2>2. UNCHANGED <<held, channel, applied, reported>>
    BY <1>5 DEF Commit
  <2>3. ASSUME NEW e \in 1..committed' PROVE e \in applied' \/ Event(e) \in Carried' \/ Told'
    <3>1. CASE e = committed'
      BY <2>1, <3>1 DEF Carried, Told
    <3>2. CASE e # committed'
      <4>1. e \in 1..committed
        BY <2>1, <2>3, <3>2 DEF TypeOK
      <4>2. e \in applied \/ Event(e) \in Carried \/ Told
        BY <4>1 DEF LossInv
      <4> QED
        BY <2>1, <2>2, <4>2 DEF Carried, Told
    <3> QED
      BY <3>1, <3>2
  <2> QED
    BY <2>3 DEF LossInv, Event
<1>6. CASE Receive
  <2>1. UNCHANGED <<committed, channel, applied, reported>> /\ held = Nothing
    BY <1>6 DEF Receive
  <2>2. \A e : Event(e) # held
    BY <2>1 DEF Event, Nothing
  <2>3. CASE skipped
    <3>1. held' = Error("skipped") /\ UNCHANGED broadcast
      BY <1>6, <2>3 DEF Receive
    <3>2. Keeps
      BY <2>1, <2>3, <3>1 DEF Keeps, Told
    <3> QED
      BY <2>1, <3>2, KeepsLoss
  <2>4. CASE ~skipped
    <3>1. broadcast # <<>> /\ held' = Head(broadcast) /\ broadcast' = Tail(broadcast)
          /\ UNCHANGED skipped
      BY <1>6, <2>4 DEF Receive
    <3>2. ToSet(broadcast) = {held'} \cup ToSet(broadcast')
      BY <3>1, TakeIs DEF TypeOK
    <3>3. held # Error("skipped")
      BY <2>1 DEF Error, Nothing
    <3>4. \A e \in 1..MaxEvents : Event(e) \in Carried => Event(e) \in Carried'
      BY <2>1, <2>2, <3>2 DEF Carried
    <3>5. Told => Told'
      BY <2>1, <3>1, <3>3 DEF Told
    <3>6. Keeps
      BY <2>1, <3>4, <3>5 DEF Keeps
    <3> QED
      BY <2>1, <3>6, KeepsLoss
  <2> QED
    BY <2>3, <2>4
<1>7. CASE Forward
  <2>1. held \in Messages
    BY <1>7, MessageKinds DEF Forward, TypeOK
  <2>2. ToSet(channel') = ToSet(channel) \cup {held}
    BY <1>7, <2>1, PutIs DEF Forward, Put
  <2>3. UNCHANGED <<committed, broadcast, skipped, applied, reported>>
    BY <1>7 DEF Forward
  <2>4. Keeps
    BY <2>2, <2>3 DEF Keeps, Carried, Told
  <2> QED
    BY <2>3, <2>4, KeepsLoss
<1>8. CASE ApplyEvent
  <2>1. PICK m \in Messages : m = Head(channel)
    BY <1>8, ApplyIs
  <2>2. ToSet(channel) = {m} \cup ToSet(channel')
    <3>1. channel # <<>> /\ channel' = Tail(channel) /\ channel \in Seq(Messages)
      BY <1>8, ApplyIs DEF TypeOK
    <3> QED
      BY <2>1, <3>1, TakeIs
  <2>3. UNCHANGED <<committed, broadcast, skipped, held>>
    BY <1>8, ApplyIs
  <2>4. applied \subseteq applied' /\ (reported => reported')
        /\ (m = Error("skipped") => reported')
        /\ (m.kind = "event" => m.event \in applied')
    <3>1. \/ ApplyState(m) \/ ApplyTimelineEvent(m) \/ ApplySnapshot(m) \/ ApplyHealth(m)
          \/ ApplyError(m)
      BY <1>8, <2>1, ApplyIs
    <3>2. CASE ApplyError(m)
      BY <3>2, MessageKinds DEF ApplyError
    <3>3. CASE ApplyTimelineEvent(m)
      BY <3>3, MessageKinds DEF ApplyTimelineEvent
    <3>4. CASE ApplyState(m) \/ ApplySnapshot(m) \/ ApplyHealth(m)
      BY <3>4, MessageKinds DEF ApplyState, ApplySnapshot, ApplyHealth
    <3> QED
      BY <3>1, <3>2, <3>3, <3>4
  <2>5. \A e \in 1..MaxEvents : Event(e) = m => e \in applied'
    BY <2>4, MessageKinds
  <2>6. \A e \in 1..MaxEvents : Event(e) \in Carried => Event(e) \in Carried' \/ e \in applied'
    BY <2>2, <2>3, <2>5 DEF Carried
  <2>7. Told => Told'
    BY <2>2, <2>3, <2>4 DEF Told
  <2>8. Keeps
    BY <2>4, <2>6, <2>7 DEF Keeps
  <2> QED
    BY <2>3, <2>8, KeepsLoss
<1> QED
  BY <1>1, <1>2, <1>3, <1>4, <1>5, <1>6, <1>7, <1>8 DEF Next, RuntimeStep

\* A committed event that never reaches the timeline was told to the UI,
\* whatever the capacities: the forwarder's lag becomes an error message.
THEOREM LossIsTold ==
    ASSUME DeliveryAssumption
    PROVE  Spec => []LossIsReported
<1>1. Init => TypeOK /\ LossInv
  BY InitType, InitLoss
<1>2. TypeOK /\ LossInv /\ [Next]_vars => TypeOK' /\ LossInv'
  BY TypeStep, LossStep
<1>3. TypeOK /\ LossInv => LossIsReported
  <2> SUFFICES ASSUME LossInv, Drained, NEW e \in 1..committed, e \notin applied PROVE reported
    BY DEF LossIsReported
  <2>1. Carried = {Nothing} /\ ~skipped /\ held = Nothing /\ ToSet(channel) = {}
    BY DEF Drained, Carried, ToSet
  <2>2. Event(e) # Nothing /\ Nothing # Error("skipped")
    BY DEF Event, Nothing, Error
  <2>3. Told
    BY <2>1, <2>2 DEF LossInv
  <2> QED
    BY <2>1, <2>2, <2>3 DEF Told
<1> QED
  BY <1>1, <1>2, <1>3, PTL DEF Spec

(***************************************************************************)
(* The reason for which the runtime ended is what the UI shows.            *)
(***************************************************************************)

Final == {"AuthenticationFailed", "Incompatible"}
FinalErrors == {"auth", "incompatible"}

\* How far the supervisor is, whether there is a session, and the error.
StageInv ==
    /\ driver = "running" => error = "none" /\ stage \in {"snapshot", "arrived", "deliver", "serving"}
    /\ stage \in {"health", "checked", "connecting"} => error = "none" /\ driver = "none"
    /\ stage = "snapshot" => driver # "none"
    /\ stage \in {"failed", "over", "backoff"} => driver # "running" /\ error # "none"
    /\ stage = "backoff" => error = "retry"
    /\ stage = "over" => error # "retry"
    /\ driver = "ended" => error # "none"

\* m is the last state the UI will hear of, or the one it shows.
Said(m) ==
    \/ broadcast # <<>> /\ Last(broadcast) = m
    \/ broadcast = <<>> /\ ~skipped /\ held = m
    \/ /\ broadcast = <<>> /\ ~skipped /\ held = Nothing
       /\ \E i \in DOMAIN channel :
            channel[i] = m /\ \A q \in DOMAIN channel : i < q => channel[q].kind # "state"
    \/ /\ broadcast = <<>> /\ ~skipped /\ held = Nothing
       /\ \A q \in DOMAIN channel : channel[q].kind # "state"
       /\ state = m.state

\* The state to which an error leads, once the final error is applied: its own,
\* or any that is not final.
Suits(m, e) ==
    m.kind = "state" /\ IF e \in FinalErrors THEN m.state = StateFor(e) ELSE m.state \notin Final

\* Before an attempt and after an error that ends the runtime nothing is told.
Silent(at, e) == at \in {"backoff", "health"} \/ e \notin {"none", "retry"}
SaidInv == Silent(stage, error) => \E m \in Messages : Suits(m, error) /\ Said(m)

OverInv ==
    stage = "over" =>
        /\ broadcast = <<>> /\ ~skipped /\ held = Nothing
        /\ channel # <<>> => Last(channel) = Error("final")
        /\ channel = <<>> => state \in Final \cup {"Offline"}

ReasonInv == StageInv /\ SaidInv /\ OverInv

LEMMA StageStep ==
    ASSUME StageInv, TypeOK, [Next]_vars PROVE StageInv'
<1> USE DEF StageInv, supVars, clientVars, pathVars, uiVars, Classes
<1>1. CASE HealthOk \/ HealthFails \/ StartConnecting
  BY <1>1 DEF HealthOk, HealthFails, StartConnecting
<1>2. CASE ConnectOk \/ ConnectFails
  BY <1>2 DEF ConnectOk, ConnectFails
<1>3. CASE SnapshotArrives \/ SnapshotOk
  BY <1>3 DEF SnapshotArrives, SnapshotOk, SendSnapshot
<1>4. CASE SnapshotFails \/ DeliverSnapshot
  BY <1>4 DEF SnapshotFails, DeliverSnapshot
<1>5. CASE NoticeEnd \/ Retry
  BY <1>5 DEF NoticeEnd, Retry
<1>6. CASE NextAttempt \/ GiveUp
  BY <1>6 DEF NextAttempt, GiveUp
<1>7. CASE SessionEnds
  BY <1>7 DEF SessionEnds
<1>8. CASE Commit \/ Receive \/ Forward \/ ApplyEvent
  BY <1>8 DEF Commit, Receive, Forward, ApplyEvent
<1>9. CASE UNCHANGED vars
  BY <1>9 DEF vars
<1> QED
  BY <1>1, <1>2, <1>3, <1>4, <1>5, <1>6, <1>7, <1>8, <1>9 DEF Next, RuntimeStep

\* What is said stays said, by a channel that gets another message ...
LEMMA SaidThenPut ==
    ASSUME DeliveryAssumption, TypeOK, NEW m, Said(m), NEW x \in Messages, x.kind # "state",
           Put(x), UNCHANGED <<broadcast, skipped, held, uiVars>>
    PROVE  Said(m)'
<1>1. /\ Len(channel') = Len(channel) + 1 /\ \A i \in DOMAIN channel : channel'[i] = channel[i]
      /\ channel'[Len(channel) + 1] = x /\ channel' \in Seq(Messages)
  BY PutIs DEF Put
<1>2. /\ DOMAIN channel = 1..Len(channel) /\ DOMAIN channel' = 1..(Len(channel) + 1)
      /\ Len(channel) \in Nat
  BY <1>1, LenProperties DEF TypeOK
<1>3. \A q \in DOMAIN channel' : q \in DOMAIN channel \/ channel'[q].kind # "state"
  BY <1>1, <1>2
<1>4. CASE broadcast # <<>> \/ held # Nothing
  BY <1>4 DEF Said, uiVars
<1>5. CASE \E i \in DOMAIN channel :
            channel[i] = m /\ \A q \in DOMAIN channel : i < q => channel[q].kind # "state"
  <2>1. PICK i \in DOMAIN channel :
            channel[i] = m /\ \A q \in DOMAIN channel : i < q => channel[q].kind # "state"
    BY <1>5
  <2>2. i \in DOMAIN channel' /\ channel'[i] = m
        /\ \A q \in DOMAIN channel' : i < q => channel'[q].kind # "state"
    BY <1>1, <1>2, <1>3, <2>1
  <2> QED
    BY <2>2 DEF Said, uiVars
<1>6. CASE (\A q \in DOMAIN channel : channel[q].kind # "state") /\ state = m.state
  <2>1. \A q \in DOMAIN channel' : channel'[q].kind # "state"
    BY <1>1, <1>3, <1>6
  <2> QED
    BY <1>6, <2>1 DEF Said, uiVars
<1> QED
  BY <1>4, <1>5, <1>6 DEF Said

\* ... by the forwarder that takes a message from the broadcast channel ...
LEMMA SaidThenReceive ==
    ASSUME TypeOK, NEW m \in Messages, Said(m), Receive
    PROVE  Said(m)'
<1>1. held = Nothing /\ UNCHANGED channel
  BY DEF Receive
<1>2. Nothing # m
  BY MessageKinds
<1>3. CASE skipped
  <2>1. broadcast # <<>> /\ Last(broadcast) = m /\ UNCHANGED broadcast
    BY <1>1, <1>2, <1>3 DEF Said, Receive
  <2> QED
    BY <2>1 DEF Said
<1>4. CASE ~skipped
  <2>1. broadcast # <<>> /\ held' = Head(broadcast) /\ broadcast' = Tail(broadcast) /\ ~skipped'
    BY <1>4 DEF Receive
  <2>2. Last(broadcast) = m
    BY <2>1 DEF Said
  <2>3. /\ Tail(broadcast) # <<>> => Last(Tail(broadcast)) = m
        /\ Tail(broadcast) = <<>> => Head(broadcast) = m
    BY <2>1, <2>2, TakeIs DEF TypeOK
  <2> QED
    BY <2>1, <2>3 DEF Said
<1> QED
  BY <1>3, <1>4

\* ... and puts it into the channel to the UI ...
LEMMA SaidThenForward ==
    ASSUME DeliveryAssumption, TypeOK, NEW m \in Messages, Said(m), Forward
    PROVE  Said(m)'
<1>1. held # Nothing /\ held' = Nothing /\ UNCHANGED <<broadcast, skipped>> /\ held \in Messages
      /\ Room /\ channel' = Append(channel, held)
  BY MessageKinds DEF Forward, Put, clientVars, TypeOK
<1>2. CASE broadcast # <<>> /\ Last(broadcast) = m
  BY <1>1, <1>2 DEF Said
<1>3. CASE broadcast = <<>> /\ ~skipped /\ held = m
  <2>1. Len(channel') = Len(channel) + 1 /\ channel'[Len(channel) + 1] = m
        /\ channel' \in Seq(Messages)
    BY <1>1, <1>3, PutIs
  <2>2. DOMAIN channel' = 1..(Len(channel) + 1) /\ Len(channel) \in Nat
    BY <2>1, LenProperties DEF TypeOK
  <2>3. /\ Len(channel) + 1 \in DOMAIN channel'
        /\ \A q \in DOMAIN channel' : ~(Len(channel) + 1 < q)
    BY <2>2
  <2> QED
    BY <1>1, <1>3, <2>1, <2>3 DEF Said
<1> QED
  BY <1>1, <1>2, <1>3 DEF Said

\* ... and by the UI, which shows a final state until there is a newer one, and
\* turns another one only into "Offline".
LEMMA SaidThenApply ==
    ASSUME TypeOK, NEW e, NEW m \in Messages, Suits(m, e), Said(m), ApplyEvent
    PROVE  \E n \in Messages : Suits(n, e) /\ Said(n)'
<1>0. m.kind = "state"
  BY DEF Suits
<1>1. /\ channel # <<>> /\ channel' = Tail(channel)
      /\ UNCHANGED <<broadcast, skipped, held>>
  BY ApplyIs DEF clientVars
<1>2. PICK h \in Messages : h = Head(channel)
  BY ApplyIs
<1>3. /\ Len(channel) \in Nat \ {0} /\ DOMAIN channel = 1..Len(channel) /\ h = channel[1]
      /\ DOMAIN channel' = 1..(Len(channel) - 1)
      /\ \A i \in DOMAIN channel' : channel'[i] = channel[i + 1] /\ i + 1 \in DOMAIN channel
  BY <1>1, <1>2, TakeIs DEF TypeOK
<1>4. \/ ApplyState(h) \/ ApplyTimelineEvent(h) \/ ApplySnapshot(h) \/ ApplyHealth(h)
      \/ ApplyError(h)
  BY <1>2, ApplyIs
<1>5. CASE broadcast # <<>> \/ held # Nothing
  BY <1>1, <1>5 DEF Said
<1>6. CASE broadcast = <<>> /\ ~skipped /\ held = Nothing
            /\ \E i \in DOMAIN channel :
                channel[i] = m /\ \A q \in DOMAIN channel : i < q => channel[q].kind # "state"
  <2>1. PICK i \in DOMAIN channel :
            channel[i] = m /\ \A q \in DOMAIN channel : i < q => channel[q].kind # "state"
    BY <1>6
  <2>2. CASE i = 1
    <3>1. h = m
      BY <1>3, <2>1, <2>2
    <3>2. state' = m.state
      BY <1>0, <1>4, <3>1
      DEF ApplyState, ApplyTimelineEvent, ApplySnapshot, ApplyHealth, ApplyError
    <3>3. \A q \in DOMAIN channel' : channel'[q].kind # "state"
      <4>1. ASSUME NEW q \in DOMAIN channel' PROVE channel'[q] = channel[q + 1]
                                                   /\ q + 1 \in DOMAIN channel /\ i < q + 1
        BY <1>3, <2>2
      <4> QED
        BY <2>1, <4>1
    <3> QED
      BY <1>1, <1>6, <3>2, <3>3 DEF Said
  <2>3. CASE i # 1
    <3>1. i - 1 \in DOMAIN channel' /\ (i - 1) + 1 = i
      BY <1>3, <2>3
    <3>2. channel'[i - 1] = m
      BY <1>3, <2>1, <3>1
    <3>3. ASSUME NEW q \in DOMAIN channel', i - 1 < q PROVE channel'[q].kind # "state"
      <4>1. channel'[q] = channel[q + 1] /\ q + 1 \in DOMAIN channel /\ i < q + 1
        BY <1>3, <3>3
      <4> QED
        BY <2>1, <4>1
    <3> QED
      BY <1>1, <1>6, <3>1, <3>2, <3>3 DEF Said
  <2> QED
    BY <2>2, <2>3
<1>7. CASE broadcast = <<>> /\ ~skipped /\ held = Nothing /\ state = m.state
            /\ \A q \in DOMAIN channel : channel[q].kind # "state"
  <2>1. h.kind # "state"
    BY <1>3, <1>7
  <2>2. state' = state \/ (state \notin Final /\ state' = "Offline")
    BY <1>4, <2>1
    DEF ApplyState, ApplyTimelineEvent, ApplySnapshot, ApplyHealth, ApplyError, uiVars, Final
  <2>3. \A q \in DOMAIN channel' : channel'[q].kind # "state"
    BY <1>3, <1>7
  <2>4. CASE state' = state
    BY <1>1, <1>7, <2>3, <2>4 DEF Said
  <2>5. CASE state \notin Final /\ state' = "Offline"
    <3>1. PICK n \in Messages : n.kind = "state" /\ n.state = "Offline"
      <4>1. PICK x : x = State("Offline")
        OBVIOUS
      <4>2. x \in Messages /\ x.kind = "state" /\ x.state = "Offline"
        BY <4>1, StateIs, MessageKinds DEF UiStates
      <4> QED
        BY <4>2
    <3>2. e \notin FinalErrors
      BY <1>7, <2>5 DEF Suits, StateFor, FinalErrors, Final
    <3>3. Suits(n, e)
      BY <3>1, <3>2 DEF Suits, Final
    <3>4. Said(n)'
      BY <1>1, <1>7, <2>3, <2>5, <3>1 DEF Said
    <3> QED
      BY <3>3, <3>4
  <2> QED
    BY <2>2, <2>4, <2>5
<1>8. Nothing # m
  BY MessageKinds
<1> QED
  BY <1>5, <1>6, <1>7, <1>8 DEF Said

\* An error that ends the runtime is said; after it nothing else is.
LEMMA SaidStep ==
    ASSUME DeliveryAssumption, TypeOK, StageInv, SaidInv, [Next]_vars PROVE SaidInv'
<1> USE DEF supVars, clientVars, pathVars, uiVars
<1> SUFFICES ASSUME Silent(stage', error')
             PROVE  \E m \in Messages : Suits(m, error') /\ Said(m)'
  BY DEF SaidInv
<1>1. CASE ConnectFails \/ SessionEnds \/ SnapshotFails \/ Retry
  <2>1. PICK s : Announces(s) /\ IF error' \in FinalErrors THEN s = StateFor(error') ELSE s \notin Final
    <3>1. CASE ConnectFails \/ SessionEnds
      <4>1. Announces(StateFor(error')) /\ error' \in Classes
        BY <3>1, Announcers DEF ConnectFails, SessionEnds
      <4>2. error' \notin FinalErrors => StateFor(error') \notin Final
        BY <4>1 DEF Classes, StateFor, FinalErrors, Final
      <4> QED
        BY <4>1, <4>2
    <3>2. CASE SnapshotFails
      <4>1. error' \notin FinalErrors /\ "Offline" \notin Final
        BY <3>2 DEF SnapshotFails, FinalErrors, Final
      <4> QED
        BY <3>2, <4>1, Announcers
    <3>3. CASE Retry
      <4>1. error' \notin FinalErrors /\ "Reconnecting" \notin Final
        BY <3>3 DEF Retry, FinalErrors, Final
      <4> QED
        BY <3>3, <4>1, Announcers
    <3> QED
      BY <1>1, <3>1, <3>2, <3>3
  <2>2. broadcast' # <<>> /\ Last(broadcast') = State(s)
    BY <2>1, AnnounceIs
  <2>3. State(s) \in Messages /\ State(s).kind = "state" /\ State(s).state = s
    BY <2>1, StateIs, MessageKinds DEF Announces
  <2>4. PICK m \in Messages : m.kind = "state" /\ m.state = s /\ Last(broadcast') = m
    BY <2>2, <2>3
  <2>5. Suits(m, error')
    BY <2>1, <2>4 DEF Suits
  <2>6. Said(m)'
    BY <2>2, <2>4 DEF Said
  <2> QED
    BY <2>5, <2>6
<1>2. CASE ~(ConnectFails \/ SessionEnds \/ SnapshotFails \/ Retry)
  <2>1. ~(HealthOk \/ StartConnecting \/ ConnectOk \/ SnapshotArrives \/ Commit)
    <3>1. ~(HealthOk \/ StartConnecting)
      BY DEF HealthOk, StartConnecting, StageInv, Silent
    <3>2. ~(ConnectOk \/ SnapshotArrives \/ Commit)
      BY DEF ConnectOk, SnapshotArrives, Commit, StageInv, Silent
    <3> QED
      BY <3>1, <3>2
  <2>2. Silent(stage, error)
        /\ (error' = error \/ (error \notin FinalErrors /\ error' \notin FinalErrors))
    <3>1. CASE HealthFails \/ NextAttempt
      BY <3>1 DEF HealthFails, NextAttempt, StageInv, Silent, FinalErrors
    <3>2. CASE NoticeEnd
      BY <3>2 DEF NoticeEnd, Silent
    <3>3. CASE SnapshotOk \/ DeliverSnapshot \/ GiveUp
      BY <3>3 DEF SnapshotOk, SendSnapshot, DeliverSnapshot, GiveUp, StageInv, Silent
    <3>4. CASE Receive \/ Forward \/ ApplyEvent \/ UNCHANGED vars
      BY <3>4 DEF Receive, Forward, ApplyEvent, vars, Silent
    <3> QED
      BY <1>2, <2>1, <3>1, <3>2, <3>3, <3>4 DEF Next, RuntimeStep
  <2>3. PICK m \in Messages : Suits(m, error) /\ Said(m)
    BY <2>2 DEF SaidInv
  <2>4. Suits(m, error')
    BY <2>2, <2>3 DEF Suits
  <2>5. m.kind = "state"
    BY <2>3 DEF Suits
  <2>6. CASE HealthFails \/ NextAttempt \/ NoticeEnd \/ UNCHANGED vars
    <3>1. UNCHANGED <<broadcast, skipped, held, channel, state>>
      BY <2>6 DEF HealthFails, NextAttempt, NoticeEnd, vars
    <3>2. Said(m)'
      BY <2>3, <3>1 DEF Said
    <3> QED
      BY <2>4, <3>2
  <2>7. CASE SnapshotOk \/ DeliverSnapshot \/ GiveUp
    <3>1. PICK x : x = Snap(attempt)
      OBVIOUS
    <3>2. x \in Messages /\ x.kind = "snapshot"
      BY <3>1, MessageKinds DEF TypeOK, Snap, Messages
    <3>3. UNCHANGED <<broadcast, skipped, held, uiVars>>
      BY <2>7 DEF SnapshotOk, DeliverSnapshot, GiveUp
    <3>4. UNCHANGED channel \/ Put(x) \/ Put(Error("final"))
      BY <2>7, <3>1 DEF SnapshotOk, DeliverSnapshot, SendSnapshot, GiveUp, Put
    <3>5. Said(m)'
      <4>1. CASE UNCHANGED channel
        BY <2>3, <3>3, <4>1 DEF Said
      <4>2. CASE Put(x)
        BY <2>3, <3>2, <3>3, <4>2, SaidThenPut
      <4>3. CASE Put(Error("final"))
        BY <2>3, <3>3, <4>3, SaidThenPut, MessageKinds
      <4> QED
        BY <3>4, <4>1, <4>2, <4>3
    <3> QED
      BY <2>4, <3>5
  <2>8. CASE Receive
    BY <2>3, <2>4, <2>8, SaidThenReceive
  <2>9. CASE Forward
    BY <2>3, <2>4, <2>9, SaidThenForward
  <2>10. CASE ApplyEvent
    <3>1. PICK e : e = error /\ error' = e
      BY <2>10 DEF ApplyEvent
    <3>2. \E n \in Messages : Suits(n, e) /\ Said(n)'
      BY <2>3, <2>10, <3>1, SaidThenApply
    <3> QED
      BY <3>1, <3>2
  <2> QED
    BY <1>2, <2>1, <2>6, <2>7, <2>8, <2>9, <2>10 DEF Next, RuntimeStep
<1> QED
  BY <1>1, <1>2

LEMMA OverStep ==
    ASSUME DeliveryAssumption, TypeOK, StageInv, OverInv, [Next]_vars PROVE OverInv'
<1> USE DEF supVars, clientVars, pathVars, uiVars
<1> SUFFICES ASSUME stage' = "over"
             PROVE  /\ broadcast' = <<>> /\ ~skipped' /\ held' = Nothing
                    /\ channel' # <<>> => Last(channel') = Error("final")
                    /\ channel' = <<>> => state' \in Final \cup {"Offline"}
  BY DEF OverInv, Error, Nothing
<1>1. CASE GiveUp
  <2>1. channel' # <<>> /\ Last(channel') = Error("final")
    BY <1>1, PutIs, MessageKinds DEF GiveUp, Put
  <2> QED
    BY <1>1, <2>1 DEF GiveUp
<1>2. CASE stage = "over" /\ ApplyEvent
  <2>1. /\ channel # <<>> /\ channel' = Tail(channel) /\ channel \in Seq(Messages)
        /\ UNCHANGED <<broadcast, skipped, held>>
    BY <1>2, ApplyIs DEF TypeOK
  <2>2. broadcast = <<>> /\ ~skipped /\ held = Nothing /\ Last(channel) = Error("final")
    BY <1>2, <2>1 DEF OverInv
  <2>3. /\ Tail(channel) # <<>> => Last(Tail(channel)) = Error("final")
        /\ Tail(channel) = <<>> => Head(channel) = Error("final")
    BY <2>1, <2>2, TakeIs
  <2>4. ASSUME Head(channel) = Error("final") PROVE state' \in Final \cup {"Offline"}
    <3>1. ApplyError(Head(channel))
      BY <1>2, <2>4, ApplyIs, MessageKinds
      DEF ApplyState, ApplyTimelineEvent, ApplySnapshot, ApplyHealth
    <3> QED
      BY <3>1 DEF ApplyError, Final
  <2> QED
    BY <2>1, <2>2, <2>3, <2>4
<1>3. CASE stage = "over" /\ UNCHANGED vars
  BY <1>3 DEF vars, OverInv
<1>4. CASE ~GiveUp /\ stage # "over"
  BY <1>4 DEF Next, RuntimeStep, HealthOk, HealthFails, StartConnecting, ConnectOk, ConnectFails,
              SnapshotArrives, SnapshotOk, SendSnapshot, SnapshotFails, DeliverSnapshot, NoticeEnd,
              Retry, NextAttempt, SessionEnds, Commit, Receive, Forward, ApplyEvent, vars
<1>5. CASE stage = "over" /\ ~ApplyEvent /\ ~UNCHANGED vars
  <2>1. ~RuntimeStep
    BY <1>5 DEF RuntimeStep, HealthOk, HealthFails, StartConnecting, ConnectOk, ConnectFails,
              SnapshotArrives, SnapshotOk, SnapshotFails, DeliverSnapshot, NoticeEnd,
              Retry, NextAttempt, GiveUp
  <2>2. ~SessionEnds /\ ~Commit
    BY <1>5 DEF StageInv, SessionEnds, Commit
  <2>3. ~Receive /\ ~Forward
    BY <1>5 DEF OverInv, Receive, Forward
  <2> QED
    BY <1>5, <2>1, <2>2, <2>3 DEF Next
<1> QED
  BY <1>1, <1>2, <1>3, <1>4, <1>5

LEMMA InitReason == DeliveryAssumption /\ Init => ReasonInv
<1> SUFFICES ASSUME DeliveryAssumption, Init PROVE ReasonInv
  OBVIOUS
<1>1. StageInv /\ OverInv
  BY DEF Init, StageInv, OverInv, FinalErrors
<1>2. PICK m : m = State("Connecting")
  OBVIOUS
<1>3. m \in Messages /\ m.kind = "state" /\ m.state = "Connecting"
  BY <1>2, InitType, StateIs, MessageKinds DEF UiStates
<1>4. Suits(m, error) /\ Said(m)
  BY <1>3 DEF Init, Suits, Said, Final, FinalErrors
<1>5. SaidInv
  BY <1>3, <1>4 DEF SaidInv
<1> QED
  BY <1>1, <1>5 DEF ReasonInv

LEMMA ReasonStep ==
    ASSUME DeliveryAssumption PROVE TypeOK /\ ReasonInv /\ [Next]_vars => ReasonInv'
BY StageStep, SaidStep, OverStep DEF ReasonInv

\* When the runtime is over and its messages have arrived, the UI shows the
\* state of the error that ended it, whatever the channels lost before.
THEOREM ReasonIsShown ==
    ASSUME DeliveryAssumption
    PROVE  Spec => []FinalStateIsReason
<1>1. Init => TypeOK /\ ReasonInv
  BY InitType, InitReason
<1>2. TypeOK /\ ReasonInv /\ [Next]_vars => TypeOK' /\ ReasonInv'
  BY TypeStep, ReasonStep
<1>3. TypeOK /\ ReasonInv => FinalStateIsReason
  <2> SUFFICES ASSUME TypeOK, ReasonInv, stage = "over", Drained PROVE state = StateFor(error)
    BY DEF FinalStateIsReason
  <2>1. channel = <<>> /\ held = Nothing /\ broadcast = <<>> /\ ~skipped
        /\ error \in Classes \ {"retry"}
    BY DEF Drained, ReasonInv, StageInv, TypeOK
  <2>2. PICK m \in Messages : Suits(m, error) /\ Said(m)
    BY <2>1 DEF ReasonInv, SaidInv, Silent, Classes
  <2>3. Nothing # m /\ DOMAIN channel = {}
    BY <2>1, MessageKinds
  <2>4. state = m.state
    BY <2>1, <2>2, <2>3 DEF Said
  <2>5. CASE error \in FinalErrors
    BY <2>2, <2>4, <2>5 DEF Suits
  <2>6. CASE error \notin FinalErrors
    <3>1. state = "Offline"
      BY <2>1, <2>2, <2>4, <2>6 DEF ReasonInv, Suits, OverInv
    <3> QED
      BY <2>6, <3>1 DEF StateFor, FinalErrors
  <2> QED
    BY <2>5, <2>6
<1> QED
  BY <1>1, <1>2, <1>3, PTL DEF Spec

(***************************************************************************)
(* Whatever the channels lose and whatever overtakes what, the UI never    *)
(* combines the state of a session with the snapshot of an earlier one.    *)
(***************************************************************************)

\* A message after which the UI shows nothing of a session, one that shows
\* something of it, and a snapshot of a session before a.
Resets(m) == (m.kind = "state" /\ m.state # "Online") \/ m.kind = "error"
Online(m) == m.kind = "state" /\ m.state = "Online"
Newer(m, a) == (Online(m) \/ m.kind = "snapshot") /\ a < m.attempt
Old(m, a) == m.kind = "snapshot" /\ m.attempt < a

\* Together they would show an outdated snapshot, whichever comes first.
Outdated(x, y) == x.kind = "snapshot" /\ Online(y) /\ x.attempt < y.attempt
Clash(x, y) == Outdated(x, y) \/ Outdated(y, x)

\* What the UI shows of a session, as the messages that brought it.
UiMarks ==
    {m \in {Snap(snapshot)} : snapshot # 0}
        \cup {m \in {[kind |-> "state", state |-> "Online", attempt |-> shown]} : state = "Online"}

\* After the messages s the UI shows no snapshot of a session before a; none of
\* what it shows on the way is of one after a ...
Ready(u, s, a) ==
    /\ \A i \in DOMAIN s : ~Newer(s[i], a)
    /\ \A i \in DOMAIN s : Old(s[i], a) => \E r \in DOMAIN s : i < r /\ Resets(s[r])
    /\ \A x \in u : ~Newer(x, a)
    /\ \A x \in u : Old(x, a) => \E r \in DOMAIN s : Resets(s[r])

\* ... and it never shows an outdated snapshot.
Good(u, s) ==
    /\ \A x, y \in u : ~Clash(x, y)
    /\ \A j \in DOMAIN s :
        /\ \A i \in DOMAIN s : i < j /\ Clash(s[i], s[j]) =>
              \E r \in DOMAIN s : i < r /\ r < j /\ Resets(s[r])
        /\ \A x \in u : Clash(x, s[j]) => \E r \in DOMAIN s : r < j /\ Resets(s[r])

\* A message of the session a, from the broadcast and past it.
Fits(m, a) == ~Newer(m, a) /\ ~Old(m, a) /\ \A x : Clash(x, m) => Old(x, a) \/ Newer(x, a)
Harmless(m, a) == ~Newer(m, a) /\ ~Old(m, a) /\ \A x : Clash(x, m) => Newer(x, a)

LEMMA ClashesAreMutual ==
    /\ \A x, y : Clash(x, y) <=> Clash(y, x)
    /\ \A x, y : Resets(x) => ~Clash(x, y) /\ ~Clash(y, x)
BY DEF Clash, Outdated, Online, Resets

\* More messages, of the session a.
LEMMA MoreMessages ==
    ASSUME NEW T, NEW s \in Seq(T), NEW t \in Seq(T), NEW u, NEW a, Good(u, s), Ready(u, s, a),
           Len(s) <= Len(t), \A i \in DOMAIN s : t[i] = s[i],
           \A i \in DOMAIN t : i \in DOMAIN s \/ Fits(t[i], a)
    PROVE  Good(u, t) /\ Ready(u, t, a)
<1>1. /\ DOMAIN s = 1..Len(s) /\ DOMAIN t = 1..Len(t) /\ Len(s) \in Nat /\ Len(t) \in Nat
      /\ DOMAIN s \subseteq DOMAIN t
  BY LenProperties
<1>2. \A r \in DOMAIN s : Resets(s[r]) => Resets(t[r])
  OBVIOUS
<1>3. Ready(u, t, a)
  <2>1. ASSUME NEW i \in DOMAIN t
        PROVE  ~Newer(t[i], a)
               /\ (Old(t[i], a) => \E r \in DOMAIN t : i < r /\ Resets(t[r]))
    <3>1. CASE i \in DOMAIN s
      BY <1>1, <1>2, <3>1 DEF Ready
    <3>2. CASE Fits(t[i], a)
      BY <3>2 DEF Fits
    <3> QED
      BY <2>1, <3>1, <3>2
  <2>2. ASSUME NEW x \in u
        PROVE  ~Newer(x, a) /\ (Old(x, a) => \E r \in DOMAIN t : Resets(t[r]))
    BY <1>1, <1>2 DEF Ready
  <2> QED
    BY <2>1, <2>2 DEF Ready
<1>4. ASSUME NEW j \in DOMAIN t
      PROVE  /\ \A i \in DOMAIN t : i < j /\ Clash(t[i], t[j]) =>
                  \E r \in DOMAIN t : i < r /\ r < j /\ Resets(t[r])
             /\ \A x \in u : Clash(x, t[j]) => \E r \in DOMAIN t : r < j /\ Resets(t[r])
  <2>1. CASE j \in DOMAIN s
    <3>1. t[j] = s[j] /\ \A i \in DOMAIN t : i < j => i \in DOMAIN s
      BY <1>1, <2>1
    <3>2. ASSUME NEW i \in DOMAIN t, i < j, Clash(t[i], t[j])
          PROVE  \E r \in DOMAIN t : i < r /\ r < j /\ Resets(t[r])
      <4>1. PICK r \in DOMAIN s : i < r /\ r < j /\ Resets(s[r])
        BY <2>1, <3>1, <3>2 DEF Good
      <4> QED
        BY <1>1, <1>2, <4>1
    <3>3. ASSUME NEW x \in u, Clash(x, t[j]) PROVE \E r \in DOMAIN t : r < j /\ Resets(t[r])
      <4>1. PICK r \in DOMAIN s : r < j /\ Resets(s[r])
        BY <2>1, <3>1, <3>3 DEF Good
      <4> QED
        BY <1>1, <1>2, <4>1
    <3> QED
      BY <3>2, <3>3
  <2>2. CASE j \notin DOMAIN s
    <3>1. Fits(t[j], a) /\ \A r \in DOMAIN s : r < j
      BY <1>1, <2>2
    <3>2. ASSUME NEW i \in DOMAIN t, i < j, Clash(t[i], t[j])
          PROVE  \E r \in DOMAIN t : i < r /\ r < j /\ Resets(t[r])
      <4>1. Old(t[i], a) /\ i \in DOMAIN s
        BY <1>3, <3>1, <3>2 DEF Fits, Ready
      <4>2. PICK r \in DOMAIN s : i < r /\ Resets(s[r])
        BY <4>1 DEF Ready
      <4> QED
        BY <1>1, <1>2, <3>1, <4>2
    <3>3. ASSUME NEW x \in u, Clash(x, t[j]) PROVE \E r \in DOMAIN t : r < j /\ Resets(t[r])
      <4>1. PICK r \in DOMAIN s : Resets(s[r])
        BY <3>1, <3>3 DEF Fits, Ready
      <4> QED
        BY <1>1, <1>2, <3>1, <4>1
    <3> QED
      BY <3>2, <3>3
  <2> QED
    BY <2>1, <2>2
<1>5. Good(u, t)
  <2>1. \A x, y \in u : ~Clash(x, y)
    BY DEF Good
  <2> QED
    BY <1>4, <2>1 DEF Good
<1> QED
  BY <1>3, <1>5

\* The messages k+1 to e are replaced by a report, or a message goes in between.
LEMMA OneForSome ==
    ASSUME NEW T, NEW s \in Seq(T), NEW t \in Seq(T), NEW u, NEW a, NEW k \in Nat, NEW e \in Nat,
           k <= e, e <= Len(s), Len(t) = k + 1 + Len(s) - e,
           \A i \in 1..k : t[i] = s[i],
           Harmless(t[k + 1], a), Resets(t[k + 1]) \/ e = k,
           \A i \in 1..(Len(s) - e) : t[k + 1 + i] = s[e + i],
           Good(u, s), Ready(u, s, a)
    PROVE  Good(u, t) /\ Ready(u, t, a)
<1>1. /\ DOMAIN s = 1..Len(s) /\ DOMAIN t = 1..Len(t) /\ Len(s) \in Nat /\ Len(t) \in Nat
      /\ k + 1 \in DOMAIN t
  BY LenProperties
<1>2. ASSUME NEW i \in DOMAIN t, k + 1 < i
      PROVE  (i - (k + 1)) + e \in DOMAIN s /\ t[i] = s[(i - (k + 1)) + e]
  <2>1. i - (k + 1) \in 1..(Len(s) - e)
    BY <1>1, <1>2
  <2>2. t[k + 1 + (i - (k + 1))] = s[e + (i - (k + 1))]
    BY <2>1
  <2>3. k + 1 + (i - (k + 1)) = i /\ e + (i - (k + 1)) = (i - (k + 1)) + e
    BY <1>1
  <2> QED
    BY <1>1, <2>1, <2>2, <2>3
<1>3. \A i \in 1..k : i \in DOMAIN s /\ i \in DOMAIN t /\ t[i] = s[i]
  BY <1>1
\* Where a message after the k-th went.
<1>4. ASSUME NEW r \in DOMAIN s, e < r
      PROVE  \E z \in DOMAIN t : k + 1 < z /\ (z - (k + 1)) + e = r /\ t[z] = s[r]
  <2>1. PICK z \in Nat : z = r - e + (k + 1)
    BY <1>1, <1>4
  <2>2. z \in DOMAIN t /\ k + 1 < z /\ (z - (k + 1)) + e = r
    BY <1>1, <1>4, <2>1
  <2> QED
    BY <1>2, <2>2
<1>5. ASSUME NEW i \in DOMAIN t
      PROVE  \/ i \in 1..k
             \/ i = k + 1
             \/ k + 1 < i /\ \E p \in DOMAIN s : p = (i - (k + 1)) + e /\ e < p /\ t[i] = s[p]
  <2>1. i \in 1..k \/ i = k + 1 \/ k + 1 < i
    BY <1>1
  <2>2. CASE k + 1 < i
    <3>1. PICK p \in DOMAIN s : p = (i - (k + 1)) + e /\ t[i] = s[p]
      BY <1>2, <2>2
    <3>2. e < p
      BY <1>1, <2>2, <3>1
    <3> QED
      BY <2>2, <3>1, <3>2
  <2> QED
    BY <2>1, <2>2
<1>6. \A i \in DOMAIN t : ~Newer(t[i], a)
  <2>1. \A i \in DOMAIN s : ~Newer(s[i], a)
    BY DEF Ready
  <2>2. ~Newer(t[k + 1], a)
    BY DEF Harmless
  <2>3. ASSUME NEW i \in DOMAIN t PROVE ~Newer(t[i], a)
    BY <1>3, <1>5, <2>1, <2>2
  <2> QED
    BY <2>3
<1>7. \A x \in u : ~Newer(x, a)
  BY DEF Ready
<1>8. ASSUME NEW j \in DOMAIN t
      PROVE  /\ \A i \in DOMAIN t : i < j /\ Clash(t[i], t[j]) =>
                    \E r \in DOMAIN t : i < r /\ r < j /\ Resets(t[r])
             /\ \A x \in u : Clash(x, t[j]) => \E r \in DOMAIN t : r < j /\ Resets(t[r])
  <2>1. CASE j \in 1..k
    <3>1. /\ t[j] = s[j] /\ j \in DOMAIN s
          /\ \A i \in DOMAIN t : i < j => i \in 1..k
          /\ \A i \in DOMAIN s : i < j => i \in 1..k
      BY <1>1, <1>3, <2>1
    <3>2. ASSUME NEW i \in DOMAIN t, i < j, Clash(t[i], t[j])
          PROVE  \E r \in DOMAIN t : i < r /\ r < j /\ Resets(t[r])
      <4>1. i \in DOMAIN s /\ t[i] = s[i]
        BY <1>3, <3>1, <3>2
      <4>2. PICK r \in DOMAIN s : i < r /\ r < j /\ Resets(s[r])
        BY <3>1, <3>2, <4>1 DEF Good
      <4> QED
        BY <1>3, <3>1, <4>2
    <3>3. ASSUME NEW x \in u, Clash(x, t[j]) PROVE \E r \in DOMAIN t : r < j /\ Resets(t[r])
      <4>1. PICK r \in DOMAIN s : r < j /\ Resets(s[r])
        BY <3>1, <3>3 DEF Good
      <4> QED
        BY <1>3, <3>1, <4>1
    <3> QED
      BY <3>2, <3>3
  <2>2. CASE j = k + 1
    <3>1. \A x : Clash(x, t[j]) => Newer(x, a)
      BY <2>2 DEF Harmless
    <3> QED
      BY <1>6, <1>7, <3>1
  <2>3. CASE k + 1 < j
    <3>1. PICK q \in DOMAIN s : q = (j - (k + 1)) + e /\ e < q /\ t[j] = s[q]
      BY <1>1, <1>5, <2>3
    \* A reset before message q is one before message j.
    <3>2. ASSUME NEW r \in DOMAIN s, r < q, Resets(s[r])
          PROVE  \E z \in DOMAIN t :
                    z < j /\ Resets(t[z]) /\ \A i \in 1..k : i < r => i < z
      <4>1. CASE r <= k
        <5>1. r \in 1..k /\ r < j /\ r \in DOMAIN t /\ t[r] = s[r]
          BY <1>1, <1>3, <2>3, <4>1
        <5> QED
          BY <3>2, <5>1
      <4>2. CASE e < r
        <5>1. PICK z \in DOMAIN t : k + 1 < z /\ (z - (k + 1)) + e = r /\ t[z] = s[r]
          BY <1>4, <4>2
        <5>2. z < j /\ \A i \in 1..k : i < z
          BY <1>1, <3>1, <3>2, <5>1
        <5> QED
          BY <3>2, <5>1, <5>2
      <4>3. CASE k < r /\ r <= e
        <5>1. Resets(t[k + 1])
          BY <1>1, <4>3
        <5>2. k + 1 < j /\ \A i \in 1..k : i < k + 1
          BY <2>3
        <5> QED
          BY <1>1, <5>1, <5>2
      <4> QED
        BY <1>1, <4>1, <4>2, <4>3
    <3>3. ASSUME NEW i \in DOMAIN t, i < j, Clash(t[i], t[j])
          PROVE  \E r \in DOMAIN t : i < r /\ r < j /\ Resets(t[r])
      <4>1. CASE i \in 1..k
        <5>1. i \in DOMAIN s /\ t[i] = s[i] /\ i < q
          BY <1>1, <1>3, <3>1, <4>1
        <5>2. PICK r \in DOMAIN s : i < r /\ r < q /\ Resets(s[r])
          BY <3>1, <3>3, <5>1 DEF Good
        <5>3. PICK z \in DOMAIN t : z < j /\ Resets(t[z]) /\ \A n \in 1..k : n < r => n < z
          BY <3>2, <5>2
        <5> QED
          BY <4>1, <5>2, <5>3
      <4>2. CASE i = k + 1
        <5>1. Clash(t[j], t[k + 1])
          BY <3>3, <4>2, ClashesAreMutual
        <5>2. Newer(t[j], a)
          BY <5>1 DEF Harmless
        <5> QED
          BY <1>6, <5>2
      <4>3. CASE k + 1 < i
        <5>1. PICK p \in DOMAIN s : p = (i - (k + 1)) + e /\ e < p /\ t[i] = s[p]
          BY <1>1, <1>5, <4>3
        <5>2. p < q
          BY <1>1, <3>1, <3>3, <5>1
        <5>3. PICK r \in DOMAIN s : p < r /\ r < q /\ Resets(s[r])
          BY <3>1, <3>3, <5>1, <5>2 DEF Good
        <5>4. PICK z \in DOMAIN t : k + 1 < z /\ (z - (k + 1)) + e = r /\ t[z] = s[r]
          <6>1. e < r
            BY <1>1, <5>1, <5>3
          <6> QED
            BY <1>4, <6>1
        <5>5. i < z /\ z < j
          <6>1. i \in Nat /\ j \in Nat /\ z \in Nat /\ r \in Nat /\ k \in Nat /\ e \in Nat
            BY <1>1
          <6>2. (i - (k + 1)) + e < r /\ r < (j - (k + 1)) + e
            BY <3>1, <5>1, <5>3
          <6>3. (z - (k + 1)) + e = r
            BY <5>4
          <6>4. i < z
            BY <6>1, <6>2, <6>3
          <6>5. z < j
            BY <6>1, <6>2, <6>3
          <6> QED
            BY <6>4, <6>5
        <5> QED
          BY <5>3, <5>4, <5>5
      <4> QED
        BY <1>5, <4>1, <4>2, <4>3
    <3>4. ASSUME NEW x \in u, Clash(x, t[j]) PROVE \E r \in DOMAIN t : r < j /\ Resets(t[r])
      <4>1. PICK r \in DOMAIN s : r < q /\ Resets(s[r])
        BY <3>1, <3>4 DEF Good
      <4> QED
        BY <3>2, <4>1
    <3> QED
      BY <3>3, <3>4
  <2> QED
    BY <1>5, <2>1, <2>2, <2>3
<1>9. ASSUME NEW r \in DOMAIN s, Resets(s[r])
      PROVE  \E z \in DOMAIN t : Resets(t[z]) /\ \A i \in 1..k : i < r => i < z
  <2>1. CASE r <= k
    <3>1. r \in 1..k /\ r \in DOMAIN t /\ t[r] = s[r]
      BY <1>1, <1>3, <2>1
    <3> QED
      BY <1>9, <3>1
  <2>2. CASE e < r
    <3>1. PICK z \in DOMAIN t : k + 1 < z /\ (z - (k + 1)) + e = r /\ t[z] = s[r]
      BY <1>4, <2>2
    <3>2. \A i \in 1..k : i < z
      BY <1>1, <3>1
    <3> QED
      BY <1>9, <3>1, <3>2
  <2>3. CASE k < r /\ r <= e
    <3>1. Resets(t[k + 1]) /\ \A i \in 1..k : i < k + 1
      BY <1>1, <2>3
    <3> QED
      BY <1>1, <3>1
  <2> QED
    BY <1>1, <2>1, <2>2, <2>3
<1>10. ASSUME NEW i \in DOMAIN t, Old(t[i], a) PROVE \E r \in DOMAIN t : i < r /\ Resets(t[r])
  <2>1. CASE i \in 1..k
    <3>1. i \in DOMAIN s /\ t[i] = s[i]
      BY <1>3, <2>1
    <3>2. PICK r \in DOMAIN s : i < r /\ Resets(s[r])
      BY <1>10, <3>1 DEF Ready
    <3> QED
      BY <1>9, <2>1, <3>2
  <2>2. CASE i = k + 1
    BY <1>10, <2>2 DEF Harmless
  <2>3. CASE k + 1 < i
    <3>1. PICK p \in DOMAIN s : p = (i - (k + 1)) + e /\ e < p /\ t[i] = s[p]
      BY <1>1, <1>5, <2>3
    <3>2. PICK r \in DOMAIN s : p < r /\ Resets(s[r])
      BY <1>10, <3>1 DEF Ready
    <3>3. e < r
      BY <1>1, <3>1, <3>2
    <3>4. PICK z \in DOMAIN t : k + 1 < z /\ (z - (k + 1)) + e = r /\ t[z] = s[r]
      BY <1>4, <3>3
    <3>5. i < z
      BY <1>1, <3>1, <3>2, <3>4
    <3> QED
      BY <3>2, <3>4, <3>5
  <2> QED
    BY <1>5, <2>1, <2>2, <2>3
<1>11. ASSUME NEW x \in u, Old(x, a) PROVE \E r \in DOMAIN t : Resets(t[r])
  <2>1. PICK r \in DOMAIN s : Resets(s[r])
    BY <1>11 DEF Ready
  <2> QED
    BY <1>9, <2>1
<1>12. \A x, y \in u : ~Clash(x, y)
  BY DEF Good
<1>13. Good(u, t)
  BY <1>8, <1>12 DEF Good
<1>14. Ready(u, t, a)
  BY <1>6, <1>7, <1>10, <1>11 DEF Ready
<1> QED
  BY <1>13, <1>14

\* A reset at the end, before the next session.
LEMMA EndsReset ==
    ASSUME NEW T, NEW s \in Seq(T), NEW u, NEW a \in Nat, s # <<>>, Resets(Last(s)),
           Ready(u, s, a), \A m \in T \cup u : m.kind = "snapshot" \/ Online(m) => m.attempt \in Nat
    PROVE  Ready(u, s, a + 1)
<1>1. Len(s) \in DOMAIN s /\ DOMAIN s = 1..Len(s) /\ Len(s) \in Nat /\ Last(s) = s[Len(s)]
  BY EmptySeq, LenProperties DEF Last
<1>2. \A i \in DOMAIN s : i = Len(s) \/ i < Len(s)
  BY <1>1
<1>3. \A m \in T \cup u : Newer(m, a + 1) => Newer(m, a)
  BY DEF Newer
<1>4. \A i \in DOMAIN s : s[i] \in T
  BY <1>1
<1>5. \A m : Resets(m) => ~Old(m, a + 1)
  BY DEF Resets, Old
<1>6. \A i \in DOMAIN s : ~Newer(s[i], a + 1)
  BY <1>3, <1>4 DEF Ready
<1>7. \A x \in u : ~Newer(x, a + 1)
  BY <1>3 DEF Ready
<1>8. \A i \in DOMAIN s : Old(s[i], a + 1) => \E r \in DOMAIN s : i < r /\ Resets(s[r])
  BY <1>1, <1>2, <1>5
<1>9. \E r \in DOMAIN s : Resets(s[r])
  BY <1>1
<1> QED
  BY <1>6, <1>7, <1>8, <1>9 DEF Ready

\* The UI takes the first message.
LEMMA FirstTaken ==
    ASSUME NEW T, NEW s \in Seq(T), NEW u, NEW v, s # <<>>, Good(u, s),
           Resets(s[1]) => v = {},
           ~Resets(s[1]) => v \subseteq u \cup {s[1]}
    PROVE  Good(v, Tail(s)) /\ \A a : Ready(u, s, a) => Ready(v, Tail(s), a)
<1>1. /\ Len(s) \in Nat \ {0} /\ DOMAIN s = 1..Len(s) /\ DOMAIN Tail(s) = 1..(Len(s) - 1)
      /\ \A i \in DOMAIN Tail(s) : Tail(s)[i] = s[i + 1] /\ i + 1 \in DOMAIN s
  BY TakeIs
<1>2. \A r \in DOMAIN s : r # 1 => r - 1 \in DOMAIN Tail(s) /\ Tail(s)[r - 1] = s[r]
  <2>1. ASSUME NEW r \in DOMAIN s, r # 1
        PROVE  r - 1 \in DOMAIN Tail(s) /\ (r - 1) + 1 = r
    BY <1>1, <2>1
  <2> QED
    BY <1>1, <2>1
<1>3. \A x, y \in v : ~Clash(x, y)
  <2>1. \A x \in u : ~Clash(x, s[1])
    <3>1. ASSUME NEW x \in u, Clash(x, s[1]) PROVE FALSE
      <4>1. \E r \in DOMAIN s : r < 1
        BY <1>1, <3>1 DEF Good
      <4> QED
        BY <1>1, <4>1
    <3> QED
      BY <3>1
  <2>2. \A x \in u : ~Clash(s[1], x)
    BY <2>1, ClashesAreMutual
  <2>3. ~Clash(s[1], s[1])
    BY DEF Clash, Outdated, Online
  <2>4. \A x, y \in u : ~Clash(x, y)
    BY DEF Good
  <2> QED
    BY <2>1, <2>2, <2>3, <2>4
<1>4. ASSUME NEW j \in DOMAIN Tail(s)
      PROVE  /\ \A i \in DOMAIN Tail(s) : i < j /\ Clash(Tail(s)[i], Tail(s)[j]) =>
                    \E r \in DOMAIN Tail(s) : i < r /\ r < j /\ Resets(Tail(s)[r])
             /\ \A x \in v : Clash(x, Tail(s)[j]) =>
                    \E r \in DOMAIN Tail(s) : r < j /\ Resets(Tail(s)[r])
  <2>1. PICK q \in DOMAIN s : q = j + 1 /\ Tail(s)[j] = s[q] /\ 1 < q
    BY <1>1
  <2>2. ASSUME NEW i \in DOMAIN Tail(s), i < j, Clash(Tail(s)[i], Tail(s)[j])
        PROVE  \E r \in DOMAIN Tail(s) : i < r /\ r < j /\ Resets(Tail(s)[r])
    <3>1. PICK p \in DOMAIN s : p = i + 1 /\ Tail(s)[i] = s[p] /\ p < q /\ 1 < p
      BY <1>1, <2>1, <2>2
    <3>2. PICK r \in DOMAIN s : p < r /\ r < q /\ Resets(s[r])
      BY <2>1, <2>2, <3>1 DEF Good
    <3>3. r # 1 /\ i < r - 1 /\ r - 1 < j
      BY <1>1, <2>1, <3>1, <3>2
    <3> QED
      BY <1>2, <3>2, <3>3
  <2>3. ASSUME NEW x \in v, Clash(x, Tail(s)[j])
        PROVE  \E r \in DOMAIN Tail(s) : r < j /\ Resets(Tail(s)[r])
    <3>1. ~Resets(s[1]) /\ x \in u \cup {s[1]}
      BY <2>3
    <3>2. PICK r \in DOMAIN s : r < q /\ Resets(s[r])
      <4>1. CASE x \in u
        BY <2>1, <2>3, <4>1 DEF Good
      <4>2. CASE x = s[1]
        <5>1. 1 \in DOMAIN s
          BY <1>1
        <5> QED
          BY <2>1, <2>3, <4>2, <5>1 DEF Good
      <4> QED
        BY <3>1, <4>1, <4>2
    <3>3. r # 1 /\ r - 1 < j
      BY <1>1, <2>1, <3>1, <3>2
    <3> QED
      BY <1>2, <3>2, <3>3
  <2> QED
    BY <2>2, <2>3
<1>5. ASSUME NEW a, Ready(u, s, a) PROVE Ready(v, Tail(s), a)
  <2>1. ASSUME NEW i \in DOMAIN Tail(s)
        PROVE  ~Newer(Tail(s)[i], a)
               /\ (Old(Tail(s)[i], a) => \E r \in DOMAIN Tail(s) : i < r /\ Resets(Tail(s)[r]))
    <3>1. ~Newer(Tail(s)[i], a)
      BY <1>1, <1>5 DEF Ready
    <3>2. ASSUME Old(Tail(s)[i], a) PROVE \E r \in DOMAIN Tail(s) : i < r /\ Resets(Tail(s)[r])
      <4>1. PICK r \in DOMAIN s : i + 1 < r /\ Resets(s[r])
        BY <1>1, <1>5, <3>2 DEF Ready
      <4>2. r # 1 /\ i < r - 1
        BY <1>1, <4>1
      <4> QED
        BY <1>2, <4>1, <4>2
    <3> QED
      BY <3>1, <3>2
  <2>2. ASSUME NEW x \in v
        PROVE  ~Newer(x, a) /\ (Old(x, a) => \E r \in DOMAIN Tail(s) : Resets(Tail(s)[r]))
    <3>1. ~Resets(s[1]) /\ x \in u \cup {s[1]} /\ 1 \in DOMAIN s
      BY <1>1, <2>2
    <3>2. ~Newer(x, a)
      BY <1>5, <3>1 DEF Ready
    <3>3. ASSUME Old(x, a) PROVE \E r \in DOMAIN Tail(s) : Resets(Tail(s)[r])
      <4>1. PICK r \in DOMAIN s : Resets(s[r])
        BY <1>5, <3>1, <3>3 DEF Ready
      <4>2. r # 1
        BY <3>1, <4>1
      <4> QED
        BY <1>2, <4>1, <4>2
    <3> QED
      BY <3>2, <3>3
  <2> QED
    BY <2>1, <2>2 DEF Ready
<1> QED
  BY <1>3, <1>4, <1>5 DEF Good

\* What is on its way to the UI, in the order in which it arrives.
HeldPart == IF held = Nothing THEN <<>> ELSE <<held>>
SkipPart == IF skipped THEN <<Error("skipped")>> ELSE <<>>
Queue(f, c, b) == f \o (c \o b)
Line(front) == Queue(front, SkipPart, broadcast)
Pend == Line(channel \o HeldPart)

OrderInv ==
    /\ Good(UiMarks, Pend)
    /\ Ready(UiMarks, Pend, attempt)
    /\ stage = "backoff" => Ready(UiMarks, Pend, attempt + 1)

LEMMA OneIsSeq ==
    ASSUME NEW T, NEW x \in T
    PROVE  <<x>> \in Seq(T) /\ Len(<<x>>) = 1 /\ <<x>>[1] = x /\ <<x>> # <<>>
OBVIOUS

LEMMA PendIs ==
    ASSUME TypeOK
    PROVE  /\ HeldPart \in Seq(Messages) /\ SkipPart \in Seq(Messages)
           /\ broadcast \in Seq(Messages) /\ channel \in Seq(Messages)
           /\ SkipPart \o broadcast \in Seq(Messages)
           /\ channel \o HeldPart \in Seq(Messages)
           /\ Pend \in Seq(Messages)
<1>1. broadcast \in Seq(Messages) /\ channel \in Seq(Messages) /\ <<>> \in Seq(Messages)
  BY MessageKinds, EmptySeq DEF TypeOK
<1>2. PICK e \in Messages : e = Error("skipped")
  BY MessageKinds
<1>3. SkipPart \in Seq(Messages)
  BY <1>1, <1>2, OneIsSeq DEF SkipPart
<1>4. held = Nothing \/ held \in Messages
  BY MessageKinds DEF TypeOK
<1>5. HeldPart \in Seq(Messages)
  BY <1>1, <1>4, OneIsSeq DEF HeldPart
<1>6. SkipPart \o broadcast \in Seq(Messages) /\ channel \o HeldPart \in Seq(Messages)
  BY <1>1, <1>3, <1>5, ConcatProperties
<1>7. Pend \in Seq(Messages)
  BY <1>6, ConcatProperties DEF Pend, Line, Queue
<1> QED
  BY <1>1, <1>3, <1>5, <1>6, <1>7

\* Concatenation does not depend on the order of its steps.
Associates(a, b, c) == (a \o b) \o c = a \o (b \o c)

LEMMA Regrouped ==
    ASSUME NEW T, NEW a \in Seq(T), NEW b \in Seq(T), NEW c \in Seq(T)
    PROVE  Associates(a, b, c)
<1>1. (a \o b) \o c = a \o (b \o c)
  BY ConcatAssociative
<1> QED
  BY <1>1, Zenon DEF Associates

\* A move of one message from the third part of the queue to the second.
Moves(a, x, t) == (a \o <<>>) \o (<<x>> \o t) = (a \o <<x>>) \o (<<>> \o t)

LEMMA MoveIs ==
    ASSUME NEW T, NEW a \in Seq(T), NEW x \in T, NEW t \in Seq(T)
    PROVE  Moves(a, x, t)
<1>1. PICK o : o = <<x>>
  OBVIOUS
<1>2. o \in Seq(T)
  BY <1>1, OneIsSeq
<1>3. a \o <<>> = a /\ <<>> \o t = t
  BY ConcatEmptySeq
<1>4. Associates(a, o, t)
  BY <1>2, Regrouped
<1>5. (a \o <<>>) \o (o \o t) = (a \o o) \o (<<>> \o t)
  BY <1>3, <1>4, Zenon DEF Associates
<1> QED
  BY <1>1, <1>5, Zenon DEF Moves

LEMMA HeadAndTail ==
    ASSUME NEW T, NEW s \in Seq(T), s # <<>>
    PROVE  Head(s) \in T /\ Tail(s) \in Seq(T) /\ <<Head(s)>> \o Tail(s) = s
<1>1. Head(s) \in T /\ Tail(s) \in Seq(T) /\ Len(Tail(s)) = Len(s) - 1
      /\ Len(s) \in Nat \ {0} /\ DOMAIN s = 1..Len(s) /\ Head(s) = s[1]
      /\ \A i \in 1..(Len(s) - 1) : Tail(s)[i] = s[i + 1]
  BY TakeIs
<1>2. PICK o : o = <<Head(s)>>
  OBVIOUS
<1>3. o \in Seq(T) /\ Len(o) = 1 /\ o[1] = s[1]
  BY <1>1, <1>2, OneIsSeq
<1>4. PICK c : c = o \o Tail(s)
  OBVIOUS
<1>5. /\ c \in Seq(T) /\ Len(c) = Len(s)
      /\ \A i \in 1..Len(s) : c[i] = IF i <= 1 THEN o[i] ELSE Tail(s)[i - 1]
  <2>1. PICK t \in Seq(T) : t = Tail(s)
    BY <1>1
  <2>2. /\ c \in Seq(T) /\ Len(c) = Len(o) + Len(t)
        /\ \A i \in 1..(Len(o) + Len(t)) : c[i] = IF i <= Len(o) THEN o[i] ELSE t[i - Len(o)]
    BY <1>3, <1>4, <2>1, ConcatProperties
  <2>3. Len(o) = 1 /\ Len(o) + Len(t) = Len(s)
    BY <1>1, <1>3, <2>1
  <2> QED
    BY <2>1, <2>2, <2>3
<1>6. \A i \in 1..Len(s) : c[i] = s[i]
  <2>1. ASSUME NEW i \in 1..Len(s), i # 1 PROVE c[i] = s[i]
    <3>1. i - 1 \in 1..(Len(s) - 1) /\ (i - 1) + 1 = i /\ ~(i <= 1)
      BY <1>1, <2>1
    <3> QED
      BY <1>1, <1>5, <3>1
  <2> QED
    BY <1>3, <1>5, <2>1
<1>7. c = s
  <2>1. \A i \in 1..Len(c) : c[i] = s[i]
    BY <1>5, <1>6
  <2> QED
    BY <1>5, <2>1, SeqEqual
<1> QED
  BY <1>1, <1>2, <1>4, <1>7

LEMMA ReceiveKeepsLine ==
    ASSUME TypeOK, Receive PROVE Pend' = Pend
<1>1. HeldPart = <<>> /\ UNCHANGED channel /\ held = Nothing
  BY DEF Receive, HeldPart
<1>2. CASE skipped
  <2>1. PICK e \in Messages : e = Error("skipped")
    BY MessageKinds
  <2>2. SkipPart = <<e>> /\ SkipPart' = <<>> /\ HeldPart' = <<e>> /\ broadcast' = broadcast
    <3>1. held' = e /\ skipped' = FALSE /\ e # Nothing /\ broadcast' = broadcast
      BY <1>2, <2>1, MessageKinds DEF Receive
    <3> QED
      BY <1>2, <2>1, <3>1 DEF SkipPart, HeldPart, Nothing
  <2>3. Moves(channel, e, broadcast)
    BY MoveIs, PendIs
  <2>4. Pend = (channel \o <<>>) \o (<<e>> \o broadcast)
    BY <1>1, <2>2, Zenon DEF Pend, Line, Queue
  <2>5. Pend' = (channel \o <<e>>) \o (<<>> \o broadcast)
    BY <1>1, <2>2 DEF Pend, Line, Queue
  <2> QED
    BY <2>3, <2>4, <2>5, Zenon DEF Moves
<1>3. CASE ~skipped
  <2>1. broadcast # <<>> /\ held' = Head(broadcast) /\ broadcast' = Tail(broadcast)
        /\ skipped' = skipped
    BY <1>3 DEF Receive
  <2>2. broadcast \in Seq(Messages)
    BY PendIs
  <2>3. PICK h \in Messages, t \in Seq(Messages) :
            h = Head(broadcast) /\ t = Tail(broadcast) /\ <<h>> \o t = broadcast
    BY <2>1, <2>2, HeadAndTail
  <2>4. h # Nothing
    BY MessageKinds
  <2>5. SkipPart = <<>> /\ SkipPart' = <<>> /\ HeldPart' = <<h>> /\ broadcast' = t
    BY <1>3, <2>1, <2>3, <2>4 DEF SkipPart, HeldPart, Nothing
  <2>6. (channel \o <<>>) \o (<<h>> \o t) = (channel \o <<h>>) \o (<<>> \o t)
    <3>1. PICK a \in Seq(Messages) : a = channel
      BY PendIs
    <3>2. (a \o <<>>) \o (<<h>> \o t) = (a \o <<h>>) \o (<<>> \o t)
      BY MoveIs
    <3> QED
      BY <3>1, <3>2
  <2>7. <<>> \o broadcast = broadcast
    BY <2>2, ConcatEmptySeq
  <2> QED
    BY <1>1, <2>3, <2>5, <2>6, <2>7 DEF Pend, Line, Queue
<1> QED
  BY <1>2, <1>3

LEMMA ForwardKeepsLine ==
    ASSUME TypeOK, Forward PROVE Pend' = Pend
<1>1. held # Nothing /\ held' = Nothing /\ channel' = Append(channel, held) /\ held \in Messages
      /\ UNCHANGED <<broadcast, skipped>>
  BY MessageKinds DEF Forward, Put, clientVars, TypeOK
<1>2. HeldPart = <<held>> /\ HeldPart' = <<>> /\ SkipPart' = SkipPart
  BY <1>1 DEF HeldPart, SkipPart, Nothing, Error
<1>3. channel \in Seq(Messages) /\ channel \o HeldPart \in Seq(Messages)
  BY PendIs
<1>4. channel' = channel \o <<held>>
  BY <1>1, <1>3, AppendIsConcat
<1>5. channel' = channel \o HeldPart /\ channel' \o <<>> = channel'
  BY <1>2, <1>3, <1>4, ConcatEmptySeq
<1> QED
  BY <1>1, <1>2, <1>5 DEF Pend, Line, Queue

LEMMA ApplyTakesFirst ==
    ASSUME TypeOK, ApplyEvent
    PROVE  Pend # <<>> /\ Pend[1] = Head(channel) /\ Pend' = Tail(Pend)
<1>1. channel # <<>> /\ channel' = Tail(channel) /\ UNCHANGED <<held, broadcast, skipped>>
  BY ApplyIs DEF clientVars
<1>2. channel \in Seq(Messages) /\ HeldPart \in Seq(Messages) /\ SkipPart \o broadcast \in Seq(Messages)
  BY PendIs
<1>3. PICK h \in Messages, t \in Seq(Messages) :
        h = Head(channel) /\ t = Tail(channel) /\ <<h>> \o t = channel
  BY <1>1, <1>2, HeadAndTail
<1>4. PICK o \in Seq(Messages) : o = <<h>> /\ Len(o) = 1 /\ o[1] = h
  BY OneIsSeq
<1>5. PICK b \in Seq(Messages), c \in Seq(Messages) : b = HeldPart /\ c = SkipPart \o broadcast
  BY <1>2
<1>6. HeldPart' = b /\ SkipPart' \o broadcast' = c
  BY <1>1, <1>5 DEF HeldPart, SkipPart, Nothing, Error
<1>7. PICK r \in Seq(Messages) : r = (t \o b) \o c
  BY ConcatProperties
<1>8. Pend = o \o r /\ Pend' = r
  <2>1. Pend = ((o \o t) \o b) \o c /\ Pend' = (t \o b) \o c
    <3>1. channel = o \o t /\ channel' = t
      BY <1>1, <1>3, <1>4, Zenon
    <3>2. Pend = ((o \o t) \o b) \o c
      BY <1>5, <3>1, Zenon DEF Pend, Line, Queue
    <3>3. Pend' = (t \o b) \o c
      BY <1>6, <3>1, Zenon DEF Pend, Line, Queue
    <3> QED
      BY <3>2, <3>3
  <2>2. (o \o t) \o b = o \o (t \o b)
    <3>1. Associates(o, t, b)
      BY Regrouped
    <3> QED
      BY <3>1, Zenon DEF Associates
  <2>3. (o \o (t \o b)) \o c = o \o ((t \o b) \o c)
    <3>1. PICK d \in Seq(Messages) : d = t \o b
      BY ConcatProperties
    <3>2. Associates(o, d, c)
      BY Regrouped
    <3> QED
      BY <3>1, <3>2 DEF Associates
  <2> QED
    BY <1>7, <2>1, <2>2, <2>3, Zenon
<1>9. /\ Pend \in Seq(Messages) /\ Len(Pend) = 1 + Len(r)
      /\ \A i \in 1..(1 + Len(r)) : Pend[i] = IF i <= 1 THEN o[i] ELSE r[i - 1]
  BY <1>4, <1>8, ConcatProperties
<1>10. Pend # <<>> /\ Pend[1] = h
  <2>1. Len(r) \in Nat
    BY LenProperties
  <2> QED
    BY <1>4, <1>9, <2>1, EmptySeq
<1>11. Tail(Pend) = r
  <2>1. /\ Tail(Pend) \in Seq(Messages) /\ Len(Tail(Pend)) = Len(Pend) - 1 /\ Len(r) \in Nat
        /\ \A i \in 1..Len(Tail(Pend)) : Tail(Pend)[i] = Pend[i + 1]
    BY <1>9, <1>10, HeadTailProperties, LenProperties
  <2>2. Len(Tail(Pend)) = Len(r)
    BY <1>9, <2>1
  <2>3. ASSUME NEW i \in 1..Len(Tail(Pend)) PROVE Tail(Pend)[i] = r[i]
    <3>1. i + 1 \in 1..(1 + Len(r)) /\ ~(i + 1 <= 1) /\ (i + 1) - 1 = i
      BY <2>1, <2>2, <2>3
    <3> QED
      BY <1>9, <2>1, <2>3, <3>1
  <2> QED
    BY <2>1, <2>2, <2>3, SeqEqual
<1> QED
  BY <1>3, <1>8, <1>10, <1>11

LEMMA ConcatLast ==
    ASSUME NEW T, NEW f \in Seq(T), NEW b \in Seq(T), b # <<>>
    PROVE  f \o b # <<>> /\ Last(f \o b) = Last(b)
<1>1. Len(f) \in Nat /\ Len(b) \in Nat \ {0}
  BY LenProperties, EmptySeq
<1>2. PICK c \in Seq(T) : c = f \o b
  BY ConcatProperties
<1>3. /\ Len(c) = Len(f) + Len(b)
      /\ \A i \in 1..(Len(f) + Len(b)) : c[i] = IF i <= Len(f) THEN f[i] ELSE b[i - Len(f)]
  BY <1>2, ConcatProperties
<1>4. Len(c) \in 1..(Len(f) + Len(b)) /\ ~(Len(c) <= Len(f)) /\ Len(c) - Len(f) = Len(b)
  BY <1>1, <1>3
<1>5. c[Len(c)] = b[Len(b)]
  BY <1>3, <1>4
<1>6. c # <<>>
  BY <1>1, <1>3, EmptySeq
<1> QED
  BY <1>2, <1>5, <1>6 DEF Last

\* A queue of three parts, by position.
Sequences(T, f, c, b, m) == f \in Seq(T) /\ c \in Seq(T) /\ b \in Seq(T) /\ m \in Seq(T)

LEMMA ThreeParts ==
    ASSUME NEW T, NEW f, NEW c, NEW b, Sequences(T, f, c, b, <<>>)
    PROVE  \E q \in Seq(T) :
            /\ q = Queue(f, c, b)
            /\ Len(q) = Len(f) + Len(c) + Len(b)
            /\ \A i \in 1..Len(f) : q[i] = f[i]
            /\ \A i \in 1..Len(c) : q[Len(f) + i] = c[i]
            /\ \A i \in 1..Len(b) : q[Len(f) + Len(c) + i] = b[i]
<1>0. f \in Seq(T) /\ c \in Seq(T) /\ b \in Seq(T)
  BY DEF Sequences
<1>1. Len(f) \in Nat /\ Len(c) \in Nat /\ Len(b) \in Nat
  BY <1>0, LenProperties
<1>2. PICK g \in Seq(T) : g = c \o b
  BY <1>0, ConcatProperties
<1>3. /\ Len(g) = Len(c) + Len(b)
      /\ \A i \in 1..(Len(c) + Len(b)) : g[i] = IF i <= Len(c) THEN c[i] ELSE b[i - Len(c)]
  BY <1>0, <1>2, ConcatProperties
<1>4. PICK h \in Seq(T) : h = f \o g
  BY <1>0, ConcatProperties
<1>5. /\ Len(h) = Len(f) + Len(g)
      /\ \A i \in 1..(Len(f) + Len(g)) : h[i] = IF i <= Len(f) THEN f[i] ELSE g[i - Len(f)]
  BY <1>0, <1>4, ConcatProperties
<1>6. ASSUME NEW i \in 1..Len(f) PROVE h[i] = f[i]
  BY <1>1, <1>3, <1>5
<1>7. ASSUME NEW i \in 1..Len(g) PROVE h[Len(f) + i] = g[i]
  <2>1. Len(f) + i \in 1..(Len(f) + Len(g)) /\ ~(Len(f) + i <= Len(f))
        /\ (Len(f) + i) - Len(f) = i
    BY <1>1, <1>3
  <2> QED
    BY <1>5, <2>1
<1>8. ASSUME NEW i \in 1..Len(c) PROVE h[Len(f) + i] = c[i]
  <2>1. i \in 1..Len(g) /\ g[i] = c[i]
    BY <1>1, <1>3
  <2> QED
    BY <1>7, <2>1
<1>9. ASSUME NEW i \in 1..Len(b) PROVE h[Len(f) + Len(c) + i] = b[i]
  <2>1. Len(c) + i \in 1..(Len(c) + Len(b)) /\ ~(Len(c) + i <= Len(c))
        /\ (Len(c) + i) - Len(c) = i
    BY <1>1
  <2>2. Len(c) + i \in 1..Len(g) /\ g[Len(c) + i] = b[i]
    BY <1>3, <2>1
  <2>3. h[Len(f) + (Len(c) + i)] = b[i]
    BY <1>7, <2>2
  <2>4. Len(f) + (Len(c) + i) = Len(f) + Len(c) + i
    BY <1>1
  <2> QED
    BY <2>3, <2>4
<1>10. Len(h) = Len(f) + Len(c) + Len(b)
  BY <1>1, <1>3, <1>5
<1>11. h = Queue(f, c, b)
  BY <1>2, <1>4 DEF Queue
<1> QED
  BY <1>6, <1>8, <1>9, <1>10, <1>11

Regroups(f, c, b, m) == Queue(f, c, b \o m) = Queue(f, c, b) \o m

LEMMA FourSequences ==
    ASSUME NEW T, NEW f \in Seq(T), NEW c \in Seq(T), NEW b \in Seq(T), NEW m \in Seq(T)
    PROVE  Regroups(f, c, b, m)
<1>1. PICK g \in Seq(T) : g = c \o b
  BY ConcatProperties
<1>2. Associates(c, b, m) /\ Associates(f, g, m)
  BY Regrouped
<1>3. Queue(f, c, b) = f \o g /\ Queue(f, c, b \o m) = f \o (g \o m)
  BY <1>1, <1>2, Zenon DEF Queue, Associates
<1> QED
  BY <1>2, <1>3, Zenon DEF Regroups, Associates

LEMMA FourParts ==
    ASSUME NEW T, NEW f, NEW c, NEW b, NEW m, Sequences(T, f, c, b, m)
    PROVE  Regroups(f, c, b, m)
BY FourSequences DEF Sequences

LEMMA MessagesFit ==
    ASSUME TypeOK
    PROVE  /\ \A a : Harmless(Health, a) /\ \A n : Harmless(Error(n), a) /\ Fits(Event(n), a)
           /\ Harmless(Snap(attempt), attempt)
           /\ \A q : Fits(State(q), attempt) /\ (q # "Online" => Resets(State(q)))
           /\ \A n : Resets(Error(n))
<1> USE DEF Newer, Old, Clash, Outdated, Online, Resets
<1>1. \A a : Harmless(Health, a) /\ \A n : Harmless(Error(n), a) /\ Fits(Event(n), a)
  BY MessageKinds DEF Harmless, Fits
<1>2. Harmless(Snap(attempt), attempt)
  <2>1. PICK m : m = Snap(attempt)
    OBVIOUS
  <2>2. m.kind = "snapshot" /\ m.attempt = attempt /\ attempt \in Nat
    BY <2>1, MessageKinds DEF TypeOK
  <2>3. Harmless(m, attempt)
    BY <2>2 DEF Harmless
  <2> QED
    BY <2>1, <2>3
<1>3. ASSUME NEW q PROVE Fits(State(q), attempt) /\ (q # "Online" => Resets(State(q)))
  <2>1. PICK m : m = State(q)
    OBVIOUS
  <2>2. m.kind = "state" /\ m.state = q /\ m.attempt = attempt /\ attempt \in Nat
    BY <2>1, MessageKinds DEF TypeOK
  <2>3. Fits(m, attempt) /\ (q # "Online" => Resets(m))
    BY <2>2 DEF Fits
  <2> QED
    BY <2>1, <2>3
<1>4. \A n : Resets(Error(n))
  BY MessageKinds
<1> QED
  BY <1>1, <1>2, <1>3, <1>4

LEMMA MoreBehind ==
    ASSUME NEW T, NEW f \in Seq(T), NEW c \in Seq(T), NEW b \in Seq(T), NEW m \in Seq(T),
           NEW u, NEW a, Good(u, Queue(f, c, b)), Ready(u, Queue(f, c, b), a),
           \A i \in DOMAIN m : Fits(m[i], a)
    PROVE  Good(u, Queue(f, c, b \o m)) /\ Ready(u, Queue(f, c, b \o m), a)
<1>1. PICK l \in Seq(T) : l = Queue(f, c, b)
  <2>1. Sequences(T, f, c, b, <<>>)
    BY EmptySeq DEF Sequences
  <2> QED
    BY <2>1, ThreeParts
<1>2. PICK s \in Seq(T) : s = l \o m
  BY ConcatProperties
<1>3. s = Queue(f, c, b \o m)
  <2>1. Sequences(T, f, c, b, m)
    BY DEF Sequences
  <2>2. Queue(f, c, b \o m) = Queue(f, c, b) \o m
    <3>1. Regroups(f, c, b, m)
      BY <2>1, FourParts
    <3> QED
      BY <3>1 DEF Regroups
  <2> QED
    BY <1>1, <1>2, <2>2
<1>4. /\ Len(s) = Len(l) + Len(m) /\ DOMAIN l = 1..Len(l) /\ DOMAIN s = 1..Len(s)
      /\ DOMAIN m = 1..Len(m) /\ Len(l) \in Nat /\ Len(m) \in Nat
      /\ \A i \in 1..(Len(l) + Len(m)) : s[i] = IF i <= Len(l) THEN l[i] ELSE m[i - Len(l)]
  BY <1>2, ConcatProperties, LenProperties
<1>5. Len(l) <= Len(s) /\ \A i \in DOMAIN l : s[i] = l[i]
  BY <1>4
<1>6. ASSUME NEW i \in DOMAIN s, i \notin DOMAIN l PROVE Fits(s[i], a)
  <2>1. i \in 1..(Len(l) + Len(m)) /\ ~(i <= Len(l))
    BY <1>4, <1>6
  <2>2. i - Len(l) \in 1..Len(m)
    BY <1>4, <2>1
  <2> QED
    BY <1>4, <2>1, <2>2
<1>7. Good(u, s) /\ Ready(u, s, a)
  BY <1>1, <1>5, <1>6, MoreMessages
<1> QED
  BY <1>3, <1>7

\* A send, behind what is in the channel, of messages of the session a.
LEMMA EmitGood ==
    ASSUME DeliveryAssumption, TypeOK, NEW f \in Seq(Messages), NEW u, NEW a,
           Good(u, Line(f)), Ready(u, Line(f), a),
           NEW m \in Seq(Broadcasts), m # <<>>, Emit(m),
           \A i \in DOMAIN m : Fits(m[i], a)
    PROVE  \E t \in Seq(Messages) :
            /\ t = Queue(f, SkipPart', broadcast')
            /\ Good(u, t) /\ Ready(u, t, a)
            /\ Resets(Last(m)) => t # <<>> /\ Resets(Last(t))
<1>1. PICK c \in Seq(Messages), b \in Seq(Messages) : c = SkipPart /\ b = broadcast
  BY PendIs
<1>2. m \in Seq(Messages) /\ DOMAIN m = 1..Len(m) /\ Len(m) \in Nat /\ Len(b) \in Nat
      /\ Len(f) \in Nat /\ Len(c) \in Nat /\ broadcast \in Seq(Broadcasts)
  BY MessageKinds, LenProperties DEF TypeOK
<1>3. PICK all \in Seq(Messages) : all = b \o m
  BY <1>2, ConcatProperties
<1>4. PICK s \in Seq(Messages) :
        /\ s = Queue(f, c, all)
        /\ Len(s) = Len(f) + Len(c) + Len(all)
        /\ \A i \in 1..Len(f) : s[i] = f[i]
        /\ \A i \in 1..Len(all) : s[Len(f) + Len(c) + i] = all[i]
  <2>1. Sequences(Messages, f, c, all, <<>>)
    BY EmptySeq DEF Sequences
  <2> QED
    BY <2>1, ThreeParts
<1>5. Good(u, s) /\ Ready(u, s, a)
  <2>1. Good(u, Queue(f, c, b)) /\ Ready(u, Queue(f, c, b), a)
    BY <1>1 DEF Line
  <2>2. PICK n \in Seq(Messages) : n = m
    BY <1>2
  <2>3. Good(u, Queue(f, c, b \o n)) /\ Ready(u, Queue(f, c, b \o n), a)
    BY <2>1, <2>2, MoreBehind
  <2> QED
    BY <1>3, <1>4, <2>2, <2>3
<1>6. PICK d \in Nat :
        /\ broadcast' \in Seq(Broadcasts)
        /\ Len(broadcast') = Len(b) + Len(m) - d
        /\ \A i \in 1..(Len(b) + Len(m) - d) : broadcast'[i] = all[i + d]
        /\ d < Len(b) + Len(m)
  <2>1. skipped \in BOOLEAN
    BY DEF TypeOK
  <2> QED
    BY <1>1, <1>2, <1>3, <2>1, EmitIs
<1>7. PICK b2 \in Seq(Messages) : b2 = broadcast'
  BY <1>6, MessageKinds
<1>8. Len(all) = Len(b) + Len(m)
  BY <1>2, <1>3, ConcatProperties
<1>9. PICK c2 \in Seq(Messages) : c2 = SkipPart'
  <2>1. PICK e \in Messages : e = Error("skipped")
    BY MessageKinds
  <2>2. <<e>> \in Seq(Messages) /\ <<>> \in Seq(Messages)
    BY OneIsSeq, EmptySeq
  <2> QED
    BY <2>1, <2>2 DEF SkipPart, Error
<1>10. PICK t \in Seq(Messages) :
        /\ t = Queue(f, c2, b2)
        /\ Len(t) = Len(f) + Len(c2) + Len(b2)
        /\ \A i \in 1..Len(f) : t[i] = f[i]
        /\ \A i \in 1..Len(c2) : t[Len(f) + i] = c2[i]
        /\ \A i \in 1..Len(b2) : t[Len(f) + Len(c2) + i] = b2[i]
  <2>1. Sequences(Messages, f, c2, b2, <<>>)
    BY EmptySeq DEF Sequences
  <2> QED
    BY <2>1, ThreeParts
<1>11. Good(u, t) /\ Ready(u, t, a)
  <2>0. /\ broadcast' = Newest(all, BroadcastCapacity)
        /\ skipped' = (skipped \/ Len(all) > BroadcastCapacity)
        /\ Len(all) \in Nat /\ BroadcastCapacity \in Nat /\ skipped \in BOOLEAN
    BY <1>1, <1>3, LenProperties DEF Emit, TypeOK, DeliveryAssumption
  <2>1. CASE Len(all) <= BroadcastCapacity
    <3>1. broadcast' = all /\ skipped' = skipped
      <4>1. ~(Len(all) > BroadcastCapacity)
        BY <2>0, <2>1
      <4>2. skipped' = skipped
        BY <2>0, <4>1
      <4> QED
        BY <2>0, <4>1, <4>2 DEF Newest
    <3>2. c2 = c /\ b2 = all
      BY <1>1, <1>7, <1>9, <3>1 DEF SkipPart, Error
    <3> QED
      BY <1>4, <1>5, <1>10, <3>2
  <2>2. CASE ~(Len(all) <= BroadcastCapacity)
    <3>1. skipped'
      <4>1. Len(all) > BroadcastCapacity
        BY <2>0, <2>2
      <4> QED
        BY <2>0, <4>1, Zenon
    <3>2. PICK e \in Messages : e = Error("skipped")
      BY MessageKinds
    <3>3. c2 = <<e>> /\ Len(c2) = 1 /\ c2[1] = e
      <4>1. c2 = <<e>>
        BY <1>9, <3>1, <3>2 DEF SkipPart, Error
      <4> QED
        BY <4>1, OneIsSeq
    <3>4. Resets(e) /\ Harmless(e, a)
      BY <3>2, MessagesFit
    <3>5. PICK k \in Nat, n \in Nat : k = Len(f) /\ n = Len(f) + Len(c) + d
      BY <1>2
    <3>6. /\ Len(s) = Len(f) + Len(c) + Len(all)
          /\ \A i \in 1..Len(f) : s[i] = f[i]
          /\ \A i \in 1..Len(all) : s[Len(f) + Len(c) + i] = all[i]
      BY <1>4
    <3>7. /\ Len(t) = Len(f) + 1 + Len(b2)
          /\ \A i \in 1..Len(f) : t[i] = f[i]
          /\ t[Len(f) + 1] = e
          /\ \A i \in 1..Len(b2) : t[Len(f) + 1 + i] = b2[i]
      <4>1. 1 \in 1..Len(c2) /\ Len(f) \in Nat /\ Len(b2) \in Nat
        BY <3>3, LenProperties
      <4>2. Len(t) = Len(f) + 1 + Len(b2) /\ t[Len(f) + 1] = c2[1]
        BY <1>10, <3>3, <4>1
      <4>3. \A i \in 1..Len(b2) : t[Len(f) + 1 + i] = b2[i]
        BY <1>10, <3>3
      <4> QED
        BY <1>10, <3>3, <4>2, <4>3
    <3>8. k <= n /\ n <= Len(s) /\ Len(t) = k + 1 + Len(s) - n
      <4>1. Len(s) = Len(f) + Len(c) + Len(b) + Len(m)
        BY <1>2, <1>8, <3>6
      <4>2. Len(t) = Len(f) + 1 + Len(b) + Len(m) - d
        BY <1>2, <1>6, <1>7, <3>7
      <4>3. PICK x \in Nat, y \in Nat, z \in Nat, w \in Nat :
              x = Len(f) /\ y = Len(c) /\ z = Len(b) /\ w = Len(m)
        BY <1>2
      <4>4. /\ k = x /\ n = x + y + d /\ d < z + w
            /\ Len(s) = x + y + z + w /\ Len(t) = x + 1 + z + w - d
        BY <1>6, <3>5, <4>1, <4>2, <4>3
      <4> QED
        BY <4>4
    <3>9. \A i \in 1..k : t[i] = s[i]
      BY <3>5, <3>6, <3>7
    <3>10. ASSUME NEW i \in 1..(Len(s) - n) PROVE t[k + 1 + i] = s[n + i]
      <4>1. Len(s) - n = Len(b) + Len(m) - d /\ Len(b2) = Len(b) + Len(m) - d
        BY <1>2, <1>6, <1>7, <1>8, <3>5, <3>6
      <4>2. i \in 1..Len(b2) /\ i + d \in 1..Len(all) /\ i \in 1..(Len(b) + Len(m) - d)
        BY <1>2, <1>8, <4>1
      <4>3. t[k + 1 + i] = all[i + d]
        BY <1>6, <1>7, <3>5, <3>7, <4>2
      <4>4. s[Len(f) + Len(c) + (i + d)] = all[i + d]
        BY <3>6, <4>2
      <4>5. Len(f) + Len(c) + (i + d) = n + i
        BY <1>2, <3>5
      <4> QED
        BY <4>3, <4>4, <4>5
    <3>11. Resets(t[k + 1]) /\ Harmless(t[k + 1], a)
      BY <3>4, <3>5, <3>7
    <3> QED
      BY <1>5, <3>8, <3>9, <3>10, <3>11, OneForSome
  <2> QED
    BY <2>1, <2>2
<1>12. ASSUME Resets(Last(m)) PROVE t # <<>> /\ Resets(Last(t))
  <2>1. b2 # <<>> /\ Last(b2) = Last(m)
    BY <1>7, Emits
  <2>2. PICK g \in Seq(Messages) : g = c2 \o b2
    BY ConcatProperties
  <2>3. g # <<>> /\ Last(g) = Last(m)
    BY <2>1, <2>2, ConcatLast
  <2>4. t = f \o g
    BY <1>10, <2>2 DEF Queue
  <2>5. t # <<>> /\ Last(t) = Last(m)
    BY <2>3, <2>4, ConcatLast
  <2> QED
    BY <1>12, <2>5
<1> QED
  BY <1>7, <1>9, <1>10, <1>11, <1>12

\* A message put into the channel, before what the forwarder holds.
LEMMA PutGood ==
    ASSUME DeliveryAssumption, TypeOK, NEW x \in Messages, Put(x), NEW u, NEW a, Harmless(x, a),
           Good(u, Pend), Ready(u, Pend, a)
    PROVE  \E f \in Seq(Messages) :
            f = channel' \o HeldPart /\ Good(u, Line(f)) /\ Ready(u, Line(f), a)
<1>1. PICK c \in Seq(Messages), d \in Seq(Messages), h \in Seq(Messages), g \in Seq(Messages) :
        c = channel /\ d = channel' /\ h = HeldPart /\ g = SkipPart \o broadcast
  BY PutIs, PendIs DEF Put
<1>2. Len(d) = Len(c) + 1 /\ (\A i \in DOMAIN c : d[i] = c[i]) /\ d[Len(c) + 1] = x
  BY <1>1, PutIs DEF Put
<1>3. PICK r \in Seq(Messages) : r = h \o g
  BY ConcatProperties
<1>4. PICK s \in Seq(Messages), t \in Seq(Messages) : s = c \o r /\ t = d \o r
  BY ConcatProperties
<1>5. Pend = s
  <2>1. Associates(c, h, g)
    BY Regrouped
  <2> QED
    BY <1>1, <1>3, <1>4, <2>1, Zenon DEF Associates, Pend, Line, Queue
<1>6. PICK f \in Seq(Messages) : f = d \o h
  BY ConcatProperties
<1>7. Line(f) = t
  <2>1. Associates(d, h, g)
    BY Regrouped
  <2> QED
    BY <1>1, <1>3, <1>4, <1>6, <2>1, Zenon DEF Associates, Line, Queue
<1>8. PICK k \in Nat, n \in Nat : k = Len(c) /\ n = Len(r)
  BY LenProperties
<1>9. /\ Len(s) = k + n /\ Len(t) = k + 1 + n /\ DOMAIN c = 1..k
      /\ \A i \in 1..(k + n) : s[i] = IF i <= k THEN c[i] ELSE r[i - k]
      /\ \A i \in 1..(k + 1 + n) : t[i] = IF i <= k + 1 THEN d[i] ELSE r[i - (k + 1)]
  <2>1. DOMAIN c = 1..Len(c)
    BY LenProperties
  <2>2. /\ Len(s) = Len(c) + Len(r)
        /\ \A i \in 1..(Len(c) + Len(r)) : s[i] = IF i <= Len(c) THEN c[i] ELSE r[i - Len(c)]
    BY <1>4, ConcatProperties
  <2>3. /\ Len(t) = Len(d) + Len(r)
        /\ \A i \in 1..(Len(d) + Len(r)) : t[i] = IF i <= Len(d) THEN d[i] ELSE r[i - Len(d)]
    BY <1>4, ConcatProperties
  <2>4. Len(d) = k + 1 /\ Len(c) = k /\ Len(r) = n
    BY <1>2, <1>8
  <2> QED
    BY <2>1, <2>2, <2>3, <2>4
<1>10. \A i \in 1..k : t[i] = s[i]
  <2>1. ASSUME NEW i \in 1..k PROVE t[i] = s[i]
    <3>1. i \in 1..(k + n) /\ i \in 1..(k + 1 + n) /\ i <= k /\ i <= k + 1 /\ i \in DOMAIN c
      BY <1>9
    <3> QED
      BY <1>2, <1>9, <3>1
  <2> QED
    BY <2>1
<1>11. t[k + 1] = x
  <2>1. k + 1 \in 1..(k + 1 + n) /\ k + 1 <= k + 1
    OBVIOUS
  <2> QED
    BY <1>2, <1>8, <1>9, <2>1
<1>12. \A i \in 1..(Len(s) - k) : t[k + 1 + i] = s[k + i]
  <2>1. ASSUME NEW i \in 1..(Len(s) - k) PROVE t[k + 1 + i] = s[k + i]
    <3>1. /\ k + i \in 1..(k + n) /\ ~(k + i <= k) /\ (k + i) - k = i
          /\ k + 1 + i \in 1..(k + 1 + n) /\ ~(k + 1 + i <= k + 1) /\ (k + 1 + i) - (k + 1) = i
      BY <1>9
    <3> QED
      BY <1>9, <3>1
  <2> QED
    BY <2>1
<1>13. Good(u, t) /\ Ready(u, t, a)
  <2>1. k <= k /\ k <= Len(s) /\ Len(t) = k + 1 + Len(s) - k
    BY <1>9
  <2>2. Good(u, s) /\ Ready(u, s, a)
    BY <1>5
  <2> QED
    BY <1>10, <1>11, <1>12, <2>1, <2>2, OneForSome
<1> QED
  BY <1>1, <1>6, <1>7, <1>13

LEMMA InitOrder == DeliveryAssumption /\ Init => OrderInv
<1> SUFFICES ASSUME DeliveryAssumption, Init PROVE OrderInv
  OBVIOUS
<1>1. UiMarks = {}
  BY DEF Init, UiMarks
<1>2. Pend = <<>>
  <2>1. HeldPart = <<>> /\ SkipPart = <<>> /\ broadcast = <<>> /\ channel = <<>>
    BY DEF Init, HeldPart, SkipPart
  <2>2. <<>> \o <<>> = <<>>
    <3>1. <<>> \in Seq({})
      BY EmptySeq
    <3> QED
      BY <3>1, ConcatEmptySeq
  <2> QED
    BY <2>1, <2>2 DEF Pend, Line, Queue
<1>3. Good(UiMarks, Pend) /\ Ready(UiMarks, Pend, attempt)
  BY <1>1, <1>2 DEF Good, Ready
<1> QED
  BY <1>3 DEF OrderInv, Init

LEMMA OrderSame ==
    ASSUME OrderInv, Pend' = Pend, UiMarks' = UiMarks, attempt' = attempt,
           stage' = "backoff" => stage = "backoff"
    PROVE  OrderInv'
BY DEF OrderInv

LEMMA MarksSame == ASSUME UNCHANGED <<state, shown, snapshot>> PROVE UiMarks' = UiMarks
BY DEF UiMarks, Snap

LEMMA PathSame == ASSUME UNCHANGED <<held, channel, broadcast, skipped>> PROVE Pend' = Pend
<1>1. HeldPart' = HeldPart /\ SkipPart' = SkipPart
  BY DEF HeldPart, SkipPart, Nothing, Error
<1> QED
  BY <1>1 DEF Pend, Line, Queue

\* Attempts are numbers.
LEMMA AttemptsAreNumbers ==
    ASSUME TypeOK, NEW m \in Messages \cup UiMarks, m.kind = "snapshot" \/ Online(m)
    PROVE  m.attempt \in Nat
<1>1. CASE m \in Messages
  BY <1>1, MessageIs DEF Online
<1>2. CASE m \in UiMarks
  <2>1. m = Snap(snapshot) \/ m = [kind |-> "state", state |-> "Online", attempt |-> shown]
    BY <1>2 DEF UiMarks
  <2>2. m.attempt \in {snapshot, shown}
    BY <2>1 DEF Snap
  <2> QED
    BY <2>2 DEF TypeOK
<1> QED
  BY <1>1, <1>2

\* A send behind everything, of messages of this attempt.
LEMMA EmitOrder ==
    ASSUME DeliveryAssumption, TypeOK, OrderInv,
           NEW m \in Seq(Broadcasts), m # <<>>, Emit(m),
           \A i \in DOMAIN m : Fits(m[i], attempt),
           UNCHANGED <<held, channel, uiVars, attempt>>,
           stage' = "backoff" => Resets(Last(m))
    PROVE  OrderInv'
<1>1. PICK f \in Seq(Messages) : f = channel \o HeldPart
  BY PendIs
<1>2. PICK u : u = UiMarks
  OBVIOUS
<1>3. PICK a \in Nat : a = attempt
  BY DEF TypeOK
<1>4. Good(u, Line(f)) /\ Ready(u, Line(f), a)
  BY <1>1, <1>2, <1>3 DEF OrderInv, Pend
<1>5. PICK t \in Seq(Messages) :
            /\ t = Queue(f, SkipPart', broadcast')
            /\ Good(u, t) /\ Ready(u, t, a)
            /\ Resets(Last(m)) => t # <<>> /\ Resets(Last(t))
  BY <1>3, <1>4, EmitGood
<1>6. Pend' = t
  <2>1. channel' \o HeldPart' = f
    BY <1>1 DEF HeldPart, Nothing
  <2> QED
    BY <1>5, <2>1 DEF Pend, Line
<1>7. UiMarks' = u
  BY <1>2, MarksSame DEF uiVars
<1>8. stage' = "backoff" => Ready(u, t, a + 1)
  <2>1. \A x \in Messages \cup u : x.kind = "snapshot" \/ Online(x) => x.attempt \in Nat
    BY <1>2, AttemptsAreNumbers
  <2> QED
    BY <1>5, <2>1, EndsReset
<1> QED
  BY <1>3, <1>5, <1>6, <1>7, <1>8 DEF OrderInv

LEMMA OrderStep ==
    ASSUME DeliveryAssumption, TypeOK, StageInv, OrderInv, [Next]_vars PROVE OrderInv'
<1> USE DEF supVars, clientVars, pathVars, uiVars
<1>1. CASE HealthOk \/ HealthFails \/ SnapshotArrives \/ NoticeEnd
  <2>1. Pend' = Pend /\ UiMarks' = UiMarks
    BY <1>1, PathSame, MarksSame DEF HealthOk, HealthFails, SnapshotArrives, NoticeEnd
  <2> QED
    BY <1>1, <2>1, OrderSame DEF HealthOk, HealthFails, SnapshotArrives, NoticeEnd
<1>2. CASE UNCHANGED vars
  <2>1. Pend' = Pend /\ UiMarks' = UiMarks /\ stage' = stage /\ attempt' = attempt
    BY <1>2, PathSame, MarksSame DEF vars
  <2> QED
    BY <2>1, OrderSame
<1>3. CASE NextAttempt
  <2>1. Pend' = Pend /\ UiMarks' = UiMarks /\ stage' = "health" /\ attempt' = attempt + 1
    BY <1>3, PathSame, MarksSame DEF NextAttempt
  <2>2. stage = "backoff"
    BY <1>3 DEF NextAttempt
  <2> QED
    BY <2>1, <2>2 DEF OrderInv
<1>4. CASE StartConnecting
  <2>1. PICK m : m = <<State("Connecting"), State("Authenticating")>>
    OBVIOUS
  <2>2. Emit(m) /\ m \in Seq(Broadcasts) /\ m # <<>>
    BY <1>4, <2>1, TwoStates DEF StartConnecting
  <2>3. \A i \in DOMAIN m : Fits(m[i], attempt)
    <3>1. PICK x, y : x = State("Connecting") /\ y = State("Authenticating")
      OBVIOUS
    <3>2. m = <<x, y>> /\ DOMAIN m = {1, 2}
      BY <2>1, <3>1
    <3>3. Fits(x, attempt) /\ Fits(y, attempt)
      BY <3>1, MessagesFit
    <3> QED
      BY <3>2, <3>3
  <2>4. PICK a, u : a = attempt /\ u = UiMarks
    OBVIOUS
  <2>5. PICK h \in Messages : h = Health /\ Put(h) /\ Harmless(h, a)
    BY <1>4, MessagesFit, MessageKinds DEF StartConnecting
  <2>6. PICK f \in Seq(Messages) :
            f = channel' \o HeldPart /\ Good(u, Line(f)) /\ Ready(u, Line(f), a)
    BY <2>4, <2>5, PutGood DEF OrderInv
  <2>7. PICK t \in Seq(Messages) :
            /\ t = Queue(f, SkipPart', broadcast')
            /\ Good(u, t) /\ Ready(u, t, a)
    BY <2>2, <2>3, <2>4, <2>6, EmitGood
  <2>8. Pend' = t
    <3>1. HeldPart' = HeldPart
      BY <1>4 DEF HeldPart, StartConnecting, Nothing
    <3> QED
      BY <2>6, <2>7, <3>1 DEF Pend, Line
  <2>9. UiMarks' = u /\ attempt' = a /\ stage' = "connecting"
    BY <1>4, <2>4, MarksSame DEF StartConnecting
  <2> QED
    BY <2>7, <2>8, <2>9 DEF OrderInv
<1>5. CASE ConnectFails \/ ConnectOk \/ SnapshotFails \/ SessionEnds \/ Retry
  <2>1. PICK s : Announces(s) /\ (stage' = "backoff" => s # "Online")
    <3>1. CASE Retry
      BY <3>1, Announcers
    <3>2. CASE ~Retry
      <4>1. stage' # "backoff"
        BY <1>5, <3>2 DEF ConnectFails, ConnectOk, SnapshotFails, SessionEnds, StageInv
      <4> QED
        BY <1>5, <3>2, <4>1, Announcers
    <3> QED
      BY <3>1, <3>2
  <2>2. PICK x, m : x = State(s) /\ m = <<x>>
    OBVIOUS
  <2>3. m \in Seq(Broadcasts) /\ m # <<>> /\ Last(m) = x /\ Emit(m)
    BY <2>1, <2>2, StateIs DEF Announces
  <2>4. \A i \in DOMAIN m : Fits(m[i], attempt)
    <3>1. DOMAIN m = {1} /\ m[1] = x
      BY <2>2
    <3> QED
      BY <2>2, <3>1, MessagesFit
  <2>5. stage' = "backoff" => Resets(x)
    BY <2>1, <2>2, MessagesFit
  <2> QED
    BY <2>1, <2>3, <2>4, <2>5, EmitOrder DEF Announces
<1>6. CASE Commit
  <2>1. PICK x, m : x = Event(committed') /\ m = <<x>>
    OBVIOUS
  <2>2. x \in Broadcasts
    <3>1. committed' \in 1..MaxEvents
      BY <1>6, CommitIs
    <3> QED
      BY <2>1, <3>1 DEF Event, Broadcasts
  <2>3. m \in Seq(Broadcasts) /\ m # <<>> /\ DOMAIN m = {1} /\ m[1] = x
    BY <2>1, <2>2
  <2>4. Emit(m)
    BY <1>6, <2>1 DEF Commit
  <2>5. \A i \in DOMAIN m : Fits(m[i], attempt)
    BY <2>1, <2>3, MessagesFit
  <2>6. stage' = stage /\ stage # "backoff"
    BY <1>6 DEF Commit, StageInv
  <2>7. UNCHANGED <<held, channel, uiVars, attempt>>
    BY <1>6 DEF Commit
  <2> QED
    BY <2>3, <2>4, <2>5, <2>6, <2>7, EmitOrder
<1>7. CASE SnapshotOk /\ ~Room
  <2>1. Pend' = Pend /\ UiMarks' = UiMarks
    BY <1>7, PathSame, MarksSame DEF SnapshotOk, SendSnapshot
  <2> QED
    BY <1>7, <2>1, OrderSame DEF SnapshotOk, SendSnapshot
<1>8. CASE (SnapshotOk /\ Room) \/ DeliverSnapshot \/ GiveUp
  <2>1. PICK a, u : a = attempt /\ u = UiMarks
    OBVIOUS
  <2>2. PICK x \in Messages : Put(x) /\ Harmless(x, a)
    <3>1. CASE (SnapshotOk /\ Room) \/ DeliverSnapshot
      <4>1. Snap(attempt) \in Messages
        BY DEF TypeOK, Snap, Messages
      <4>2. Put(Snap(attempt))
        BY <3>1 DEF SnapshotOk, SendSnapshot, DeliverSnapshot, Put
      <4> QED
        BY <2>1, <4>1, <4>2, MessagesFit
    <3>2. CASE GiveUp
      BY <3>2, MessagesFit, MessageKinds DEF GiveUp
    <3> QED
      BY <1>8, <3>1, <3>2
  <2>3. PICK f \in Seq(Messages) :
            f = channel' \o HeldPart /\ Good(u, Line(f)) /\ Ready(u, Line(f), a)
    BY <2>1, <2>2, PutGood DEF OrderInv
  <2>4. UNCHANGED <<held, broadcast, skipped, state, shown, snapshot, attempt>>
        /\ stage' \in {"serving", "over"}
    BY <1>8 DEF SnapshotOk, SendSnapshot, DeliverSnapshot, GiveUp
  <2>5. Pend' = Line(f)
    <3>1. HeldPart' = HeldPart /\ SkipPart' = SkipPart
      BY <2>4 DEF HeldPart, SkipPart, Nothing, Error
    <3> QED
      BY <2>3, <2>4, <3>1 DEF Pend, Line, Queue
  <2>6. UiMarks' = u
    BY <2>1, <2>4, MarksSame
  <2> QED
    BY <2>1, <2>3, <2>4, <2>5, <2>6 DEF OrderInv
<1>9. CASE Receive
  <2>1. Pend' = Pend /\ UiMarks' = UiMarks
    BY <1>9, ReceiveKeepsLine, MarksSame DEF Receive
  <2> QED
    BY <1>9, <2>1, OrderSame DEF Receive
<1>10. CASE Forward
  <2>1. Pend' = Pend /\ UiMarks' = UiMarks
    BY <1>10, ForwardKeepsLine, MarksSame DEF Forward
  <2> QED
    BY <1>10, <2>1, OrderSame DEF Forward
<1>11. CASE ApplyEvent
  <2>1. PICK h \in Messages : h = Head(channel)
    BY <1>11, ApplyIs
  <2>2. Pend # <<>> /\ Pend[1] = h /\ Pend' = Tail(Pend) /\ Pend \in Seq(Messages)
    BY <1>11, <2>1, ApplyTakesFirst, PendIs
  <2>3. \/ ApplyState(h) \/ ApplyTimelineEvent(h) \/ ApplySnapshot(h) \/ ApplyHealth(h)
        \/ ApplyError(h)
    BY <1>11, <2>1, ApplyIs
  <2>4. Resets(h) => UiMarks' = {}
    <3>1. CASE ApplyState(h)
      BY <3>1 DEF ApplyState, Resets, UiMarks
    <3>2. CASE ApplyError(h)
      BY <3>2 DEF ApplyError, Resets, UiMarks
    <3>3. CASE ApplyTimelineEvent(h) \/ ApplySnapshot(h) \/ ApplyHealth(h)
      BY <3>3 DEF ApplyTimelineEvent, ApplySnapshot, ApplyHealth, Resets
    <3> QED
      BY <2>3, <3>1, <3>2, <3>3
  <2>5. ASSUME ~Resets(h) PROVE UiMarks' \subseteq UiMarks \cup {h}
    <3>1. CASE ApplyState(h)
      <4>1. h = [kind |-> "state", state |-> "Online", attempt |-> h.attempt]
        <5>1. h.kind = "state" /\ h.state = "Online"
          BY <2>5, <3>1 DEF ApplyState, Resets
        <5> QED
          BY <5>1 DEF Messages, Broadcasts, Health, Error
      <4>2. state' = "Online" /\ shown' = h.attempt /\ snapshot' = snapshot
        BY <3>1, <4>1 DEF ApplyState
      <4> QED
        BY <4>1, <4>2 DEF UiMarks, Snap
    <3>2. CASE ApplySnapshot(h)
      <4>1. h = Snap(h.attempt)
        BY <3>2 DEF ApplySnapshot, Messages, Broadcasts, Health, Error, Snap
      <4>2. snapshot' = h.attempt /\ UNCHANGED <<state, shown>>
        BY <3>2 DEF ApplySnapshot
      <4> QED
        BY <4>1, <4>2 DEF UiMarks, Snap
    <3>3. CASE ApplyTimelineEvent(h) \/ ApplyHealth(h)
      <4>1. UiMarks' = UiMarks
        BY <3>3, MarksSame DEF ApplyTimelineEvent, ApplyHealth
      <4> QED
        BY <4>1
    <3>4. CASE ApplyError(h)
      BY <2>5, <3>4 DEF ApplyError, Resets
    <3> QED
      BY <2>3, <3>1, <3>2, <3>3, <3>4
  <2>6. PICK u, v, s : s \in Seq(Messages) /\ u = UiMarks /\ v = UiMarks' /\ s = Pend
    BY <2>2
  <2>7. Good(v, Tail(s)) /\ \A a : Ready(u, s, a) => Ready(v, Tail(s), a)
    <3>1. s # <<>> /\ Good(u, s) /\ s[1] = h
      BY <2>2, <2>6 DEF OrderInv
    <3>2. Resets(s[1]) => v = {}
      BY <2>4, <2>6, <3>1
    <3>3. ~Resets(s[1]) => v \subseteq u \cup {s[1]}
      BY <2>5, <2>6, <3>1
    <3> QED
      BY <2>6, <3>1, <3>2, <3>3, FirstTaken
  <2>8. stage' = stage /\ attempt' = attempt
    BY <1>11, ApplyIs
  <2> QED
    BY <2>2, <2>6, <2>7, <2>8 DEF OrderInv
<1> QED
  BY <1>1, <1>2, <1>3, <1>4, <1>5, <1>6, <1>7, <1>8, <1>9, <1>10, <1>11 DEF Next, RuntimeStep

\* Whatever the broadcast channel loses, and although the snapshot overtakes what
\* waits for room in the channel to the UI, the UI never combines the state of a
\* session with the snapshot of an earlier one.
THEOREM NoOlderSnapshot ==
    ASSUME DeliveryAssumption
    PROVE  Spec => []SnapshotIsNotOutdated
<1>1. Init => TypeOK /\ StageInv /\ OrderInv
  BY InitType, InitReason, InitOrder DEF ReasonInv
<1>2. TypeOK /\ StageInv /\ OrderInv /\ [Next]_vars => TypeOK' /\ StageInv' /\ OrderInv'
  BY TypeStep, StageStep, OrderStep
<1>3. TypeOK /\ OrderInv => SnapshotIsNotOutdated
  <2> SUFFICES ASSUME TypeOK, OrderInv, state = "Online", snapshot # 0 PROVE snapshot >= shown
    BY DEF SnapshotIsNotOutdated
  <2>1. PICK x, y : x = Snap(snapshot) /\ y = [kind |-> "state", state |-> "Online", attempt |-> shown]
    OBVIOUS
  <2>2. x \in UiMarks /\ y \in UiMarks
    BY <2>1 DEF UiMarks
  <2>3. ~Clash(x, y)
    BY <2>2 DEF OrderInv, Good
  <2>4. x.kind = "snapshot" /\ x.attempt = snapshot /\ Online(y) /\ y.attempt = shown
    BY <2>1 DEF Snap, Online
  <2>5. ~(snapshot < shown)
    BY <2>3, <2>4 DEF Clash, Outdated
  <2> QED
    BY <2>5 DEF TypeOK
<1> QED
  BY <1>1, <1>2, <1>3, PTL DEF Spec
=============================================================================
