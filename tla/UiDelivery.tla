----------------------------- MODULE UiDelivery -----------------------------
(***************************************************************************)
(* How what happens on the network thread reaches the views: supervise and *)
(* run_attempt (runtime.rs), the client's broadcast channel, the forwarder *)
(* task that moves it into the bounded channel to the UI, and apply_event  *)
(* of ConnectionView (mod.rs).  Two senders share that channel: the        *)
(* forwarder, and the supervisor itself, which sends HealthChecked, the    *)
(* snapshot and the final error past the broadcast.                        *)
(*                                                                         *)
(* The cursor protocol is EventSync's, the requests of one session are     *)
(* RpcSession's; here an event is its position in the order of commits.    *)
(***************************************************************************)
EXTENDS Naturals, Sequences, FiniteSets, SequencesExt

CONSTANTS
    BroadcastCapacity,  \* EVENT_CAPACITY of the broadcast channel
    ChannelCapacity,    \* EVENT_CAPACITY of the channel to the UI
    MaxAttempts,        \* bound on the connection attempts
    MaxEvents           \* bound on the events the daemon sends

DeliveryAssumption ==
    /\ BroadcastCapacity \in Nat \ {0}
    /\ ChannelCapacity \in Nat \ {0}
    /\ MaxAttempts \in Nat \ {0}
    /\ MaxEvents \in Nat

VARIABLES
    (* the supervisor, runtime.rs *)
    stage,      \* where run_attempt and supervise are
    attempt,    \* the number of this attempt
    error,      \* class of the error that ended it: "none", "retry", "auth",
                \* "incompatible" or "fatal"
    active,     \* the attempt whose session is published for RPCs, or 0
    (* the client and its session driver, client.rs *)
    driver,     \* "none", "running" or "ended"
    committed,  \* events committed to the cursor so far
    broadcast,  \* what the forwarder has not received
    skipped,    \* did the broadcast channel drop its oldest messages?
    (* the forwarder and the channel to the UI *)
    held,       \* the message the forwarder waits to put into the channel
    channel,
    (* ConnectionView, mod.rs *)
    state,      \* the connection state the UI shows
    shown,      \* the attempt that state belongs to
    snapshot,   \* the attempt the UI's snapshot comes from, or 0
    applied,    \* events applied to the timeline
    reported    \* was the UI told that something was skipped?

supVars    == <<stage, attempt, error, active>>
clientVars == <<driver, committed, broadcast, skipped>>
pathVars   == <<held, channel>>
uiVars     == <<state, shown, snapshot, applied, reported>>
vars == <<supVars, clientVars, pathVars, uiVars>>

-----------------------------------------------------------------------------
State(s)  == [kind |-> "state", state |-> s, attempt |-> attempt]
Event(n)  == [kind |-> "event", event |-> n]
Snap(a)   == [kind |-> "snapshot", attempt |-> a]
Health    == [kind |-> "health"]
Error(t)  == [kind |-> "error", text |-> t]
Nothing   == [kind |-> "nothing"]

UiStates == {"Offline", "Connecting", "Authenticating", "Online",
             "Reconnecting", "AuthenticationFailed", "Incompatible"}
Broadcasts == [kind : {"state"}, state : UiStates, attempt : 1..MaxAttempts]
                  \cup [kind : {"event"}, event : 1..MaxEvents]
Messages == Broadcasts \cup [kind : {"snapshot"}, attempt : 1..MaxAttempts]
                \cup {Health, Error("skipped"), Error("final")}

Init ==
    /\ stage = "health"
    /\ attempt = 1
    /\ error = "none"
    /\ active = 0
    /\ driver = "none"
    /\ committed = 0
    /\ broadcast = <<>>
    /\ skipped = FALSE
    /\ held = Nothing
    /\ channel = <<>>
    /\ state = "Connecting"
    /\ shown = 1
    /\ snapshot = 0
    /\ applied = {}
    /\ reported = FALSE

-----------------------------------------------------------------------------
(* Channels.                                                               *)

Newest(s, n) == IF Len(s) > n THEN SubSeq(s, Len(s) - n + 1, Len(s)) ELSE s

\* broadcast::send never waits: over capacity the oldest messages are lost.
Emit(messages) ==
    LET all == broadcast \o messages
    IN  /\ broadcast' = Newest(all, BroadcastCapacity)
        /\ skipped' = (skipped \/ Len(all) > BroadcastCapacity)

Room == Len(channel) < ChannelCapacity
Put(message) == Room /\ channel' = Append(channel, message)

\* The network thread is a single-threaded runtime: a task that can run does
\* so before the next frame is read.  When the supervisor hears from the
\* daemon, the forwarder has nothing to do or waits for room in the channel.
ForwarderParked ==
    \/ held = Nothing /\ broadcast = <<>> /\ ~skipped
    \/ held # Nothing /\ ~Room

\* Mutant: a lagging forwarder goes on without a word.
ReceiveIgnoringLag ==
    /\ held = Nothing
    /\ broadcast # <<>>
    /\ held' = Head(broadcast)
    /\ broadcast' = Tail(broadcast)
    /\ skipped' = FALSE
    /\ UNCHANGED <<supVars, driver, committed, channel, uiVars>>

\* The forwarder: the next message, or the report that some were skipped.
Receive ==
    /\ held = Nothing
    /\ IF skipped
       THEN held' = Error("skipped") /\ skipped' = FALSE /\ UNCHANGED broadcast
       ELSE /\ broadcast # <<>>
            /\ held' = Head(broadcast)
            /\ broadcast' = Tail(broadcast)
            /\ UNCHANGED skipped
    /\ UNCHANGED <<supVars, driver, committed, channel, uiVars>>

Forward ==
    /\ held # Nothing
    /\ Put(held)
    /\ held' = Nothing
    /\ UNCHANGED <<supVars, clientVars, uiVars>>

-----------------------------------------------------------------------------
(* supervise and run_attempt.                                              *)

\* What is_reconnectable says, and the state the client shows for an error.
Classes == {"retry", "auth", "incompatible", "fatal"}
StateFor(class) == CASE class = "auth"         -> "AuthenticationFailed"
                     [] class = "incompatible" -> "Incompatible"
                     [] OTHER                  -> "Offline"

\* GET /health fails: ConnectFailed.
HealthFails ==
    /\ stage = "health"
    /\ ForwarderParked
    /\ error' \in {"retry", "fatal"}
    /\ stage' = "failed"
    /\ UNCHANGED <<attempt, active, clientVars, pathVars, uiVars>>

\* It answers ok: HealthChecked goes to the UI (waiting for room in the
\* channel), and the client starts to connect.
HealthOk ==
    /\ stage = "health"
    /\ ForwarderParked
    /\ stage' = "checked"
    /\ UNCHANGED <<attempt, error, active, clientVars, pathVars, uiVars>>

StartConnecting ==
    /\ stage = "checked"
    /\ Put(Health)
    /\ Emit(<<State("Connecting"), State("Authenticating")>>)
    /\ stage' = "connecting"
    /\ UNCHANGED <<attempt, error, active, driver, committed, held, uiVars>>

ConnectFails ==
    /\ stage = "connecting"
    /\ ForwarderParked
    /\ error' \in Classes
    /\ Emit(<<State(StateFor(error'))>>)
    /\ stage' = "failed"
    /\ UNCHANGED <<attempt, active, driver, committed, pathVars, uiVars>>

\* Mutant: a connection without its online event.
ConnectOkUnannounced ==
    /\ stage = "connecting"
    /\ ForwarderParked
    /\ driver' = "running"
    /\ stage' = "snapshot"
    /\ UNCHANGED <<attempt, error, active, committed, broadcast, skipped, pathVars, uiVars>>

\* The driver is spawned, Online announced, the snapshot requested.
ConnectOk ==
    /\ stage = "connecting"
    /\ ForwarderParked
    /\ driver' = "running"
    /\ Emit(<<State("Online")>>)
    /\ stage' = "snapshot"
    /\ UNCHANGED <<attempt, error, active, committed, pathVars, uiVars>>

\* The driver routes the snapshot to the supervisor, which wakes up later.
SnapshotArrives ==
    /\ stage = "snapshot"
    /\ driver = "running"
    /\ stage' = "arrived"
    /\ UNCHANGED <<attempt, error, active, clientVars, pathVars, uiVars>>

\* events.send waits only if the channel has no room.
SendSnapshot ==
    IF Room
    THEN channel' = Append(channel, Snap(attempt)) /\ stage' = "serving"
    ELSE stage' = "deliver" /\ UNCHANGED channel

\* Publish the session, whatever became of it, then send the snapshot.
SnapshotOk ==
    /\ stage = "arrived"
    /\ ForwarderParked
    /\ active' = attempt
    /\ SendSnapshot
    /\ UNCHANGED <<attempt, error, clientVars, held, uiVars>>

\* It does not: close the session (RpcSession), whose driver says Offline.
SnapshotFails ==
    /\ stage = "snapshot"
    /\ driver = "running"
    /\ ForwarderParked
    /\ driver' = "ended"
    /\ error' \in {"retry", "fatal"}
    /\ Emit(<<State("Offline")>>)
    /\ stage' = "failed"
    /\ UNCHANGED <<attempt, active, committed, pathVars, uiVars>>

DeliverSnapshot ==
    /\ stage = "deliver"
    /\ Put(Snap(attempt))
    /\ stage' = "serving"
    /\ UNCHANGED <<attempt, error, active, clientVars, held, uiVars>>

\* The session driver ends, here or by the heartbeat's close, and says so.
SessionEnds ==
    /\ driver = "running"
    /\ driver' = "ended"
    /\ error' \in Classes \ {"incompatible"}
    /\ Emit(<<State(StateFor(error'))>>)
    /\ UNCHANGED <<stage, attempt, active, committed, pathVars, uiVars>>

\* wait_closed returns, or the pending snapshot request fails with the error of
\* the driver.  In the loop the heartbeat may tick first: its ping finds the
\* session gone and fails with NotConnected, which can be retried.
NoticeEnd ==
    /\ stage \in {"snapshot", "serving"}
    /\ driver = "ended"
    /\ error' \in {error} \cup (IF stage = "serving" THEN {"retry"} ELSE {})
    /\ active' = 0
    /\ stage' = "failed"
    /\ UNCHANGED <<attempt, clientVars, pathVars, uiVars>>

\* supervise: an error that can be retried is told and waited out ...
Retry ==
    /\ stage = "failed"
    /\ error = "retry"
    /\ Emit(<<State("Reconnecting")>>)
    /\ stage' = "backoff"
    /\ UNCHANGED <<attempt, error, active, driver, committed, pathVars, uiVars>>

NextAttempt ==
    /\ stage = "backoff"
    /\ attempt < MaxAttempts
    /\ ForwarderParked
    /\ attempt' = attempt + 1
    /\ error' = "none"
    /\ driver' = "none"
    /\ stage' = "health"
    /\ UNCHANGED <<active, committed, broadcast, skipped, pathVars, uiVars>>

\* ... any other one ends the runtime: the forwarder drains the broadcast,
\* then the error goes to the UI.
GiveUp ==
    /\ stage = "failed"
    /\ error # "retry"
    /\ held = Nothing /\ broadcast = <<>> /\ ~skipped
    /\ Put(Error("final"))
    /\ stage' = "over"
    /\ UNCHANGED <<attempt, error, active, clientVars, held, uiVars>>

\* route_event commits an event, in the synchronization or in the session,
\* and broadcasts it.  One read may bring several frames.
Commit ==
    /\ committed < MaxEvents
    /\ stage = "connecting" \/ driver = "running"
    /\ committed' = committed + 1
    /\ Emit(<<Event(committed')>>)
    /\ UNCHANGED <<supVars, driver, pathVars, uiVars>>

-----------------------------------------------------------------------------
(* ConnectionView::apply_event.  What clear_connection_bound_state drops   *)
(* is represented by the snapshot.                                         *)

\* Mutant: only a closed connection drops the snapshot.
ApplyStateKeepingSnapshot(message) ==
    /\ message.kind = "state"
    /\ state' = message.state
    /\ shown' = message.attempt
    /\ snapshot' = IF message.state = "Offline" THEN 0 ELSE snapshot
    /\ UNCHANGED <<applied, reported>>

ApplyState(message) ==
    /\ message.kind = "state"
    /\ state' = message.state
    /\ shown' = message.attempt
    /\ snapshot' = IF message.state = "Online" THEN snapshot ELSE 0
    /\ UNCHANGED <<applied, reported>>

ApplyTimelineEvent(message) ==
    /\ message.kind = "event"
    /\ applied' = applied \cup {message.event}
    /\ UNCHANGED <<state, shown, snapshot, reported>>

ApplySnapshot(message) ==
    /\ message.kind = "snapshot"
    /\ snapshot' = message.attempt
    /\ UNCHANGED <<state, shown, applied, reported>>

ApplyHealth(message) ==
    /\ message.kind = "health"
    /\ UNCHANGED uiVars

ApplyError(message) ==
    /\ message.kind = "error"
    /\ snapshot' = 0
    /\ state' = IF state \in {"AuthenticationFailed", "Incompatible"}
                THEN state ELSE "Offline"
    /\ reported' = (reported \/ message.text = "skipped")
    /\ UNCHANGED <<shown, applied>>

ApplyEvent ==
    /\ channel # <<>>
    /\ channel' = Tail(channel)
    /\ LET message == Head(channel)
       IN  \/ ApplyState(message)
           \/ ApplyTimelineEvent(message)
           \/ ApplySnapshot(message)
           \/ ApplyHealth(message)
           \/ ApplyError(message)
    /\ UNCHANGED <<supVars, clientVars, held>>

-----------------------------------------------------------------------------
RuntimeStep ==
    \/ HealthOk \/ HealthFails
    \/ StartConnecting
    \/ ConnectOk \/ ConnectFails
    \/ SnapshotArrives \/ SnapshotOk \/ SnapshotFails
    \/ DeliverSnapshot
    \/ NoticeEnd
    \/ Retry \/ NextAttempt \/ GiveUp

Next ==
    \/ RuntimeStep
    \/ SessionEnds
    \/ Commit
    \/ Receive \/ Forward
    \/ ApplyEvent

Spec == Init /\ [][Next]_vars

\* The tasks of the network thread and the UI's event task run; the network
\* and the daemon owe nothing but an answer or an error to every request.
FairSpec ==
    /\ Spec
    /\ WF_vars(RuntimeStep) /\ WF_vars(Receive) /\ WF_vars(Forward)
    /\ WF_vars(ApplyEvent)
    /\ SF_vars(StartConnecting) /\ SF_vars(DeliverSnapshot) /\ SF_vars(GiveUp)

-----------------------------------------------------------------------------
TypeOK ==
    /\ stage \in {"health", "checked", "connecting", "snapshot", "arrived",
                  "deliver", "serving", "failed", "backoff", "over"}
    /\ attempt \in 1..MaxAttempts
    /\ error \in Classes \cup {"none"}
    /\ active \in 0..MaxAttempts
    /\ driver \in {"none", "running", "ended"}
    /\ committed \in 0..MaxEvents
    /\ broadcast \in Seq(Broadcasts) /\ Len(broadcast) <= BroadcastCapacity
    /\ skipped \in BOOLEAN
    /\ held \in Broadcasts \cup {Nothing, Error("skipped")}
    /\ channel \in Seq(Messages) /\ Len(channel) <= ChannelCapacity
    /\ state \in UiStates
    /\ shown \in 1..MaxAttempts
    /\ snapshot \in 0..MaxAttempts
    /\ applied \subseteq 1..MaxEvents
    /\ reported \in BOOLEAN

Drained == channel = <<>> /\ held = Nothing /\ broadcast = <<>> /\ ~skipped

\* Events that are still on their way to the timeline.
InFlight == {e \in 1..MaxEvents :
                Event(e) \in ToSet(broadcast) \cup {held} \cup ToSet(channel)}

\* The cursor is committed before an event is handed on, so a skipped event
\* is never asked for again: every committed event must reach the timeline.
CommittedReachesTimeline == 1..committed \subseteq applied \cup InFlight

\* If one does not, the UI is told that something was skipped (README: a
\* lag is reported as an error).
LossIsReported ==
    Drained /\ ~(1..committed \subseteq applied) => reported

\* Nobody works with a snapshot whose session cannot be called: it is
\* published before the snapshot reaches the UI (comment in run_attempt),
\* and stays so until the session ends.
SnapshotMeansSession ==
    snapshot = attempt /\ stage \in {"deliver", "serving"} => active = attempt

\* After a reconnection the UI never shows the snapshot of an earlier session
\* (README: every session fetches its own, a disconnection drops the old one),
\* whatever the channels lose.  It may show a later one than its state: the
\* snapshot overtakes the states that wait in the forwarder for room.
SnapshotIsNotOutdated ==
    state = "Online" /\ snapshot # 0 => snapshot >= shown

\* What ended the runtime is what the UI shows in the end.
FinalStateIsReason ==
    stage = "over" /\ Drained => state = StateFor(error)

\* While a session serves, the UI comes to show it: online, with the snapshot
\* of this session.
ViewFollowsSession ==
    <>[](stage = "serving" /\ driver = "running")
        => <>[](state = "Online" /\ snapshot = attempt)
=============================================================================
