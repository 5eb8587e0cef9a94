------------------------------ MODULE EventSync ------------------------------
(***************************************************************************)
(* Event recovery of corbit-client: the cursor (server_id, last_sequence)  *)
(* that survives a connection, the hello / server_info / event_sync        *)
(* handshake that resumes it, the replay, and the live event stream        *)
(* (client.rs: connect_inner, synchronize_event_history, route_event,      *)
(* prepare_legacy_history).  The daemon is external: it is modelled from   *)
(* what the client and its tests expect of it.                             *)
(*                                                                         *)
(* "history" is what a subscriber of the client has been told since the    *)
(* last HistoryReset.  It holds every committed event; those of kind       *)
(* "timeline" (agent.timeline and agent.permission) were also broadcast,   *)
(* those of kind "other" only moved the cursor.                            *)
(***************************************************************************)
EXTENDS Naturals, Sequences

CONSTANTS
    Servers,            \* daemon identities (server_id)
    NoServer,           \* recovery.server_id = None
    Legacy,             \* identities without features.eventCursorRecovery
    MaxSequence,        \* bound: events one daemon numbers
    MaxFaults,          \* bound: drops, losses, duplicates, replacements, ...
    IdentitiesReturn,   \* may an earlier identity answer the endpoint again?
    TrustedDaemon       \* does the daemon keep its side of the protocol?

ASSUME ServersAssumption ==
    /\ NoServer \notin Servers
    /\ Legacy \subseteq Servers
ASSUME BoundsAssumption ==
    /\ MaxSequence \in Nat
    /\ MaxFaults \in Nat
    /\ IdentitiesReturn \in BOOLEAN
    /\ TrustedDaemon \in BOOLEAN

VARIABLES
    (* the daemon *)
    daemon,         \* the identity that answers the endpoint now
    retired,        \* identities that answered before
    log,            \* [Servers -> Seq(kind)]: the numbered events
    kept,           \* [Servers -> Nat]: events up to here are pruned
    wire,           \* frames on their way to the client, oldest first
    (* the client *)
    serverId,       \* recovery.server_id
    lastSequence,   \* recovery.last_sequence
    phase,          \* where connect_inner or the session driver is
    peer,           \* server_info.server_id of this attempt
    requested,      \* the cursor sent in hello
    sync,           \* metadata of event_sync begin
    (* history *)
    history,        \* events committed since the last HistoryReset
    origin,         \* whose log last_sequence really counts in
    cause,          \* has a daemon or the link given cause to stop for good?
    lost,           \* the latest event of this session the link lost
    faults          \* faults so far

daemonVars  == <<daemon, retired, log, kept>>
cursorVars  == <<serverId, lastSequence, history, origin>>
attemptVars == <<phase, peer, requested, sync, lost>>
vars == <<daemonVars, wire, cursorVars, attemptVars, cause, faults>>

-----------------------------------------------------------------------------
Decodable == {"timeline", "other"}
Kinds     == Decodable \cup {"malformed"}
Cursors   == [server : Servers \cup {NoServer}, after : Nat]
SyncData  == [after : Nat, from : Nat, latest : Nat, reset : BOOLEAN]
NoCursor  == [server |-> NoServer, after |-> 0]
NoSync    == [after |-> 0, from |-> 0, latest |-> 0, reset |-> FALSE]

Info           == [type |-> "info"]
Begin(data)    == [type |-> "begin", data |-> data]
Complete(data) == [type |-> "complete", data |-> data]
Event(n, kind) == [type |-> "event", seq |-> n, kind |-> kind]

Messages == [type : {"info"}]
                \cup [type : {"begin", "complete"}, data : SyncData]
                \cup [type : {"event"}, seq : Nat \ {0}, kind : Kinds]

Phases  == {"idle", "hello", "handshake", "begin", "replay", "live", "stopped"}
Attempt == {"hello", "handshake", "begin", "replay", "live"}

Init ==
    /\ daemon \in Servers
    /\ retired = {}
    /\ log = [s \in Servers |-> <<>>]
    /\ kept = [s \in Servers |-> 0]
    /\ wire = <<>>
    /\ serverId = NoServer
    /\ lastSequence = 0
    /\ phase = "idle"
    /\ peer = NoServer
    /\ requested = NoCursor
    /\ sync = NoSync
    /\ history = <<>>
    /\ origin = NoServer
    /\ cause = FALSE
    /\ lost = 0
    /\ faults = 0

-----------------------------------------------------------------------------
(* The daemon.                                                             *)

\* A daemon resumes a cursor that names it (or the cursor of a client that
\* never saw an event) and whose next event it still has.
MayResume(s, cursor) ==
    /\ cursor.server = s \/ (cursor.server = NoServer /\ cursor.after = 0)
    /\ kept[s] <= cursor.after
    /\ cursor.after <= Len(log[s])

Replay(s, from) == [i \in 1..(Len(log[s]) - from) |->
                        Event(from + i, log[s][from + i])]

\* The answer to hello: server_info, then the whole synchronization.
Answer(reset) ==
    LET from == IF reset THEN kept[peer] ELSE requested.after
        data == [after |-> requested.after, from |-> from,
                 latest |-> Len(log[peer]), reset |-> reset]
    IN  IF peer \in Legacy
        THEN <<Info>>
        ELSE <<Info, Begin(data)>> \o Replay(peer, from) \o <<Complete(data)>>

AnswerHello ==
    /\ TrustedDaemon
    /\ phase = "hello"
    /\ \E reset \in BOOLEAN :
        /\ ~reset => MayResume(peer, requested)
        /\ wire' = Answer(reset)
    /\ phase' = "handshake"
    /\ UNCHANGED <<daemonVars, cursorVars, peer, requested, sync, lost, cause, faults>>

\* The daemon numbers an event and, if it has answered hello, sends it.  (What
\* a daemon that breaks the protocol has in its log plays no part.)
Publish(kind) ==
    /\ TrustedDaemon
    /\ Len(log[daemon]) < MaxSequence
    /\ log' = [log EXCEPT ![daemon] = Append(@, kind)]
    /\ wire' = IF phase \in Attempt \ {"hello"}
               THEN Append(wire, Event(Len(log[daemon]) + 1, kind))
               ELSE wire
    /\ UNCHANGED <<daemon, retired, kept, cursorVars, attemptVars, cause, faults>>

\* A daemon that does not keep the protocol: any frame at any time.
SendAnything(m) ==
    /\ ~TrustedDaemon
    /\ phase \in Attempt
    /\ wire = <<>>
    /\ wire' = <<m>>
    /\ phase' = IF phase = "hello" THEN "handshake" ELSE phase
    /\ cause' = TRUE
    /\ UNCHANGED <<daemonVars, cursorVars, peer, requested, sync, lost, faults>>

-----------------------------------------------------------------------------
(* The client.                                                             *)

\* connect_inner: read the cursor, open the socket, send hello.
Connect ==
    /\ phase = "idle"
    /\ phase' = "hello"
    /\ peer' = daemon
    /\ requested' = [server |-> serverId, after |-> lastSequence]
    /\ UNCHANGED <<daemonVars, wire, cursorVars, sync, lost, cause, faults>>

Receive(type) == wire # <<>> /\ Head(wire).type = type
Consume       == wire' = Tail(wire)

\* The attempt or session is over.  A recoverable error leads back to
\* supervise's retry, any other one ends the runtime.
EndTo(p) ==
    /\ phase' = p
    /\ peer' = NoServer
    /\ requested' = NoCursor
    /\ sync' = NoSync
    /\ lost' = 0
    /\ wire' = <<>>

\* Mutant: server_info already replaces the identity of the cursor.
ReceiveServerInfoTakingIdentity ==
    /\ phase = "handshake"
    /\ Receive("info")
    /\ peer \notin Legacy
    /\ phase' = "begin"
    /\ serverId' = peer
    /\ Consume
    /\ UNCHANGED <<daemonVars, lastSequence, history, origin, peer, requested,
                   sync, lost, cause, faults>>

ReceiveServerInfo ==
    /\ phase = "handshake"
    /\ Receive("info")
    /\ peer \notin Legacy
    /\ phase' = "begin"
    /\ Consume
    /\ UNCHANGED <<daemonVars, cursorVars, peer, requested, sync, lost, cause, faults>>

\* prepare_legacy_history: no recovery, the cursor starts over.
ReceiveLegacyServerInfo ==
    /\ phase = "handshake"
    /\ Receive("info")
    /\ peer \in Legacy
    /\ phase' = "live"
    /\ Consume
    /\ history' = IF serverId # NoServer \/ lastSequence > 0 THEN <<>> ELSE history
    /\ serverId' = peer
    /\ lastSequence' = 0
    /\ origin' = peer
    /\ UNCHANGED <<daemonVars, peer, requested, sync, lost, cause, faults>>

\* Mutant: without the check of the identity.
BeginAcceptableFromAnyone(data) ==
    /\ data.after = requested.after
    /\ data.from <= data.latest
    /\ ~data.reset => data.from = requested.after

\* The checks of synchronize_event_history on event_sync begin.
BeginAcceptable(data) ==
    /\ data.after = requested.after
    /\ data.from <= data.latest
    /\ ~data.reset => data.from = requested.after
    /\ (requested.server # NoServer /\ requested.server # peer) => data.reset

\* Mutant: a reset without HistoryReset.
ReceiveBeginKeepingHistory ==
    /\ phase = "begin"
    /\ Receive("begin")
    /\ BeginAcceptable(Head(wire).data)
    /\ lastSequence' = Head(wire).data.from
    /\ sync' = Head(wire).data
    /\ origin' = peer
    /\ phase' = "replay"
    /\ Consume
    /\ UNCHANGED <<daemonVars, history, serverId, peer, requested, lost, cause, faults>>

\* The cursor moves before the first replayed event is read.
ReceiveBegin ==
    /\ phase = "begin"
    /\ Receive("begin")
    /\ LET data == Head(wire).data
       IN  /\ BeginAcceptable(data)
           /\ lastSequence' = data.from
           /\ sync' = data
           /\ history' = IF data.reset THEN <<>> ELSE history
    /\ origin' = peer
    /\ phase' = "replay"
    /\ Consume
    /\ UNCHANGED <<daemonVars, serverId, peer, requested, lost, cause, faults>>

RejectBegin ==
    /\ phase = "begin"
    /\ Receive("begin")
    /\ ~BeginAcceptable(Head(wire).data)
    /\ EndTo("stopped")
    /\ UNCHANGED <<daemonVars, cursorVars, cause, faults>>

\* Only here does the new identity become part of the cursor.
ReceiveComplete ==
    /\ phase = "replay"
    /\ Receive("complete")
    /\ Head(wire).data = sync
    /\ lastSequence = sync.latest
    /\ serverId' = peer
    /\ phase' = "live"
    /\ Consume
    /\ UNCHANGED <<daemonVars, lastSequence, history, origin, peer, requested,
                   sync, lost, cause, faults>>

RejectComplete ==
    /\ phase = "replay"
    /\ Receive("complete")
    /\ Head(wire).data # sync \/ lastSequence # sync.latest
    /\ EndTo("stopped")
    /\ UNCHANGED <<daemonVars, cursorVars, cause, faults>>

\* A frame the client does not expect where it is.
ReceiveUnexpected ==
    /\ wire # <<>>
    /\ \/ phase = "handshake" /\ Head(wire).type # "info"
       \/ phase = "begin"     /\ Head(wire).type # "begin"
       \/ phase = "replay"    /\ Head(wire).type \notin {"event", "complete"}
       \/ phase = "live"      /\ Head(wire).type # "event"
    /\ EndTo("stopped")
    /\ UNCHANGED <<daemonVars, cursorVars, cause, faults>>

-----------------------------------------------------------------------------
(* route_event, in the replay and in the live session.                     *)

Streaming == phase \in {"replay", "live"} /\ Receive("event")

\* strict_event_sequence: the session has cursor recovery.
Strict == peer \notin Legacy

\* The payload is decoded before the sequence is looked at.
RejectEvent ==
    /\ Streaming
    /\ Head(wire).kind \notin Decodable
    /\ EndTo("stopped")
    /\ cause' = TRUE
    /\ UNCHANGED <<daemonVars, cursorVars, faults>>

IgnoreEvent ==
    /\ Streaming
    /\ Head(wire).kind \in Decodable
    /\ Head(wire).seq <= lastSequence
    /\ Consume
    /\ UNCHANGED <<daemonVars, cursorVars, attemptVars, cause, faults>>

\* Mutant: a gap is skipped in silence.
SkipGap ==
    /\ Streaming
    /\ Head(wire).kind \in Decodable
    /\ Strict
    /\ Head(wire).seq > lastSequence + 1
    /\ Consume
    /\ UNCHANGED <<daemonVars, cursorVars, attemptVars, cause, faults>>

\* EventSequenceGap is recoverable: reconnect from the last committed event.
ReportGap ==
    /\ Streaming
    /\ Head(wire).kind \in Decodable
    /\ Strict
    /\ Head(wire).seq > lastSequence + 1
    /\ EndTo("idle")
    /\ UNCHANGED <<daemonVars, cursorVars, cause, faults>>

\* Mutants: gaps, and repeated events, are committed too.
CommitAcrossGap ==
    /\ Streaming
    /\ Head(wire).kind \in Decodable
    /\ Head(wire).seq > lastSequence
    /\ lastSequence' = Head(wire).seq
    /\ history' = Append(history, [server |-> peer, seq |-> Head(wire).seq,
                                   kind |-> Head(wire).kind])
    /\ Consume
    /\ UNCHANGED <<daemonVars, serverId, origin, attemptVars, cause, faults>>
CommitAgain ==
    /\ Streaming
    /\ Head(wire).kind \in Decodable
    /\ Strict => Head(wire).seq <= lastSequence + 1
    /\ lastSequence' = Head(wire).seq
    /\ history' = Append(history, [server |-> peer, seq |-> Head(wire).seq,
                                   kind |-> Head(wire).kind])
    /\ Consume
    /\ UNCHANGED <<daemonVars, serverId, origin, attemptVars, cause, faults>>

CommitEvent ==
    /\ Streaming
    /\ Head(wire).kind \in Decodable
    /\ Head(wire).seq > lastSequence
    /\ Strict => Head(wire).seq = lastSequence + 1
    /\ lastSequence' = Head(wire).seq
    /\ history' = Append(history, [server |-> peer, seq |-> Head(wire).seq,
                                   kind |-> Head(wire).kind])
    /\ Consume
    /\ UNCHANGED <<daemonVars, serverId, origin, attemptVars, cause, faults>>

-----------------------------------------------------------------------------
(* Faults, MaxFaults of them.                                              *)

Fault == faults < MaxFaults /\ faults' = faults + 1

\* The socket fails or a handshake read times out.
LoseConnection ==
    /\ Fault
    /\ phase \in Attempt
    /\ EndTo("idle")
    /\ UNCHANGED <<daemonVars, cursorVars, cause>>

\* A frame that carries an event is lost, or arrives twice.  A lost replay
\* event in front of complete is one of the two causes that may stop the client.
LoseEvent ==
    /\ Fault
    /\ Receive("event")
    /\ Consume
    /\ cause' = (cause \/ phase # "live")
    /\ lost' = Head(wire).seq
    /\ UNCHANGED <<daemonVars, cursorVars, phase, peer, requested, sync>>

DuplicateEvent ==
    /\ Fault
    /\ Receive("event")
    /\ wire' = <<Head(wire)>> \o wire
    /\ UNCHANGED <<daemonVars, cursorVars, attemptVars, cause>>

\* Another daemon answers the endpoint; open sockets break.
ReplaceDaemon(s) ==
    /\ Fault
    /\ s # daemon
    /\ IdentitiesReturn \/ s \notin retired
    /\ daemon' = s
    /\ retired' = retired \cup {daemon}
    /\ IF phase \in Attempt THEN EndTo("idle") ELSE UNCHANGED <<attemptVars, wire>>
    /\ UNCHANGED <<log, kept, cursorVars, cause>>

\* The daemon forgets its oldest events.
Prune(n) ==
    /\ Fault
    /\ n \in (kept[daemon] + 1)..Len(log[daemon])
    /\ kept' = [kept EXCEPT ![daemon] = n]
    /\ UNCHANGED <<daemon, retired, log, wire, cursorVars, attemptVars, cause>>

\* The user connects again: a new CorbitClient, and the views start empty.
NewClient ==
    /\ Fault
    /\ serverId' = NoServer
    /\ lastSequence' = 0
    /\ history' = <<>>
    /\ origin' = NoServer
    /\ EndTo("idle")
    /\ UNCHANGED <<daemonVars, cause>>

-----------------------------------------------------------------------------
ClientStep ==
    \/ Connect
    \/ ReceiveServerInfo \/ ReceiveLegacyServerInfo
    \/ ReceiveBegin \/ RejectBegin
    \/ ReceiveComplete \/ RejectComplete
    \/ ReceiveUnexpected
    \/ RejectEvent \/ IgnoreEvent \/ ReportGap \/ CommitEvent

FaultStep ==
    \/ LoseConnection \/ LoseEvent \/ DuplicateEvent
    \/ \E s \in Servers : ReplaceDaemon(s)
    \/ \E n \in 1..MaxSequence : Prune(n)
    \/ NewClient

BoundedSync == [after : 0..MaxSequence, from : 0..MaxSequence,
                latest : 0..MaxSequence, reset : BOOLEAN]
BoundedMessages == [type : {"info"}]
                       \cup [type : {"begin", "complete"}, data : BoundedSync]
                       \cup [type : {"event"}, seq : 1..MaxSequence, kind : Kinds]

Next ==
    \/ ClientStep
    \/ AnswerHello
    \/ \E kind \in Kinds : Publish(kind)
    \/ \E m \in BoundedMessages : SendAnything(m)
    \/ FaultStep

Spec == Init /\ [][Next]_vars

\* The runtime keeps retrying and reading, the daemon answers.  Nobody has to
\* publish, fail, prune or reconnect by hand.
FairSpec == Spec /\ WF_vars(ClientStep) /\ WF_vars(AnswerHello)

-----------------------------------------------------------------------------
TypeOK ==
    /\ daemon \in Servers
    /\ retired \subseteq Servers
    /\ log \in [Servers -> Seq(Kinds)]
    /\ kept \in [Servers -> Nat]
    /\ wire \in Seq(Messages)
    /\ serverId \in Servers \cup {NoServer}
    /\ lastSequence \in Nat
    /\ phase \in Phases
    /\ peer \in IF phase \in Attempt THEN Servers ELSE {NoServer}
    /\ requested \in Cursors
    /\ sync \in SyncData
    /\ history \in Seq([server : Servers, seq : Nat \ {0}, kind : Decodable])
    /\ origin \in Servers \cup {NoServer}
    /\ cause \in BOOLEAN
    /\ lost \in Nat
    /\ faults \in Nat

(***************************************************************************)
(* Correctness.                                                            *)
(***************************************************************************)

\* The views never mix the histories of two daemons: everything told since
\* the last HistoryReset comes from the log the cursor counts in (README:
\* short disconnections keep the timeline, a reset rebuilds it).
SingleIdentity == \A i \in DOMAIN history : history[i].server = origin

\* No event is skipped, repeated or reordered, over any number of broken
\* replays and reconnections, and the cursor is the last event told
\* (route_event).  A daemon without cursor recovery only promises order.
Contiguous ==
    /\ \A i \in DOMAIN history : i > 1 =>
        IF history[i].server \in Legacy
        THEN history[i].seq > history[i-1].seq
        ELSE history[i].seq = history[i-1].seq + 1
    /\ history # <<>> => history[Len(history)].seq = lastSequence

\* A cursor the daemon would resume counts in that daemon's log, even when
\* an earlier synchronization broke half way, between the assignment of
\* last_sequence (begin) and that of server_id (complete).
ResumeIsSound ==
    MayResume(daemon, [server |-> serverId, after |-> lastSequence])
        => origin = daemon \/ history = <<>>

(* The parts of the inductive invariants: why the properties above hold.  *)

\* Until begin is accepted, nobody moves the cursor that hello carried.
RequestedIsCurrent ==
    phase \in {"hello", "handshake", "begin"} =>
        requested = [server |-> serverId, after |-> lastSequence]

\* Without a connection no frame is on its way.
QuietWhenIdle == phase \notin Attempt => wire = <<>>

\* An attempt talks to the daemon that answers now; once its history is
\* accepted the cursor counts in that daemon's log.
PeerIsDaemon == phase \in Attempt => peer = daemon
OriginIsPeer == phase \in {"replay", "live"} => origin = peer

\* Every identity the client knows has answered already, and the confirmed
\* one can only be the current daemon if the cursor counts in its log.
KnownAnswered ==
    /\ daemon \notin retired
    /\ serverId \in retired \cup {daemon, NoServer}
    /\ origin \in retired \cup {daemon, NoServer}
ConfirmedIsOrigin == serverId = daemon => origin = daemon

\* A begin without reset on the wire answers a cursor the daemon may resume.
NoUnsoundResume ==
    \A i \in DOMAIN wire :
        (wire[i].type = "begin" /\ ~wire[i].data.reset) =>
            \/ requested.server = peer
            \/ requested.server = NoServer /\ requested.after = 0

\* What is on the wire is in the log of the daemon that sent it.
Told(frame, events) ==
    /\ frame.type = "event" =>
          frame.seq \in DOMAIN events /\ frame.kind = events[frame.seq]
    /\ frame.type = "begin" => frame.data.latest <= Len(events)
WireIsLog == \A i \in DOMAIN wire : Told(wire[i], log[peer])

OrderInv == TypeOK /\ RequestedIsCurrent /\ Contiguous
IdentityInv ==
    /\ OrderInv
    /\ QuietWhenIdle
    /\ PeerIsDaemon
    /\ OriginIsPeer
    /\ KnownAnswered
    /\ ConfirmedIsOrigin
    /\ NoUnsoundResume
    /\ SingleIdentity

\* Nothing but an undecodable payload, or a daemon or a link that broke the
\* synchronization, ends the runtime for good; all else is retried.
StopsOnlyOnCause == phase = "stopped" => cause

\* A client that has confirmed an identity takes no event of another one on
\* top of the old ones, whatever the daemon answers (the identity check of
\* synchronize_event_history).
IdentityChangeResets ==
    [][(serverId # NoServer /\ origin' # origin) => history' = <<>>]_vars

\* The cursor moves backwards only together with a HistoryReset: no event
\* can be told twice.
CursorMovesBackOnlyOnReset ==
    [][lastSequence' < lastSequence => history' = <<>>]_vars

\* Once faults cease, the client follows the log to its end, whatever state
\* the faults left the cursor in - unless it stopped for good.  One case is
\* out of its reach: an event lost behind the last one delivered leaves no
\* gap to see until the daemon numbers another.
EventuallyCaughtUp ==
    <>[](\/ phase = "stopped"
         \/ /\ phase = "live"
            /\ serverId = daemon
            /\ daemon \in Legacy \/ Len(log[daemon]) \in {lastSequence, lost})

\* The client implements the abstract replica.
Abstract ==
    INSTANCE EventHistory WITH
        Servers <- Servers, NoServer <- NoServer, Legacy <- Legacy,
        log <- log, origin <- origin, lastSequence <- lastSequence, history <- history
ImplementsEventHistory == Abstract!Spec
=============================================================================
