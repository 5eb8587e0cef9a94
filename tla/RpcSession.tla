----------------------------- MODULE RpcSession -----------------------------
(***************************************************************************)
(* One WebSocket session of corbit-client and everybody who waits on it:   *)
(* the callers of rpc and ping, the bounded command and cancellation       *)
(* queues, the session driver that alone owns the socket (client.rs:       *)
(* drive_session and what it calls), the dispatcher that hands calls to    *)
(* the active session, and the supervisor loop with its heartbeat          *)
(* (runtime.rs: dispatch_commands and the loop of run_attempt).            *)
(*                                                                         *)
(* A request id is a fresh UUID in the code.  Here an id may be taken      *)
(* again once no queue, table or frame mentions it: nothing can then tell  *)
(* it from a fresh one, and calls and heartbeats go on for ever.           *)
(***************************************************************************)
EXTENDS Naturals, Sequences, SequencesExt

CONSTANTS
    Calls,              \* request ids of RPCs
    Pings,              \* request ids of heartbeats
    NoRequest,          \* the driver is not writing
    CommandCapacity,    \* COMMAND_CAPACITY of the command queue
    CancelCapacity      \* COMMAND_CAPACITY of the cancellation queue

ASSUME IdsAssumption ==
    /\ Calls \cap Pings = {}
    /\ NoRequest \notin Calls \cup Pings
ASSUME CapacityAssumption ==
    /\ CommandCapacity \in Nat \ {0}
    /\ CancelCapacity \in Nat \ {0}

Ids == Calls \cup Pings

VARIABLES
    (* callers *)
    call,       \* [Ids -> {"idle", "blocked", "waiting"}]
    result,     \* what the last ping returned: "none", "ok" or "failed"
    (* client.rs *)
    queue,      \* commands: request ids and "close"
    cancels,    \* cancellations
    refused,    \* history: requests whose cancellation met a full queue
    pending,    \* pending_rpcs and pending_pings
    driver,     \* "select", "ended", or the write it awaits: "writing" (a
                \* request), "ponging" or "closing"
    writing,    \* the request being written to the socket
    end,        \* session_end: "none" or the reason
    (* the daemon and the socket *)
    serving,    \* requests the daemon has not answered
    replies,    \* answers on their way to the client
    peer,       \* "alive", "silent" (answers nothing), "stuck" (does not even
                \* read, and the buffers are full) or "gone" (the socket failed)
    (* runtime.rs *)
    active,     \* is the session published in active_session?
    sup,        \* the supervisor: "serving", "pinging", "closing",
                \* "awaitingEnd" or "left"
    shutdown    \* was the runtime handle dropped?

callerVars == <<call, result>>
tableVars  == <<queue, cancels, refused, pending>>
driverVars == <<driver, writing, end>>
daemonVars == <<serving, replies, peer>>
supVars    == <<active, sup, shutdown>>
vars == <<callerVars, tableVars, driverVars, daemonVars, supVars>>

Init ==
    /\ call = [c \in Ids |-> "idle"]
    /\ result = "none"
    /\ queue = <<>>
    /\ cancels = <<>>
    /\ refused = {}
    /\ pending = {}
    /\ driver = "select"
    /\ writing = NoRequest
    /\ end = "none"
    /\ serving = {}
    /\ replies = {}
    /\ peer = "alive"
    /\ active = TRUE
    /\ sup = "serving"
    /\ shutdown = FALSE

-----------------------------------------------------------------------------
(* Callers.                                                                *)

\* No queue, table or frame mentions c.
Unused(c) ==
    /\ call[c] = "idle"
    /\ c \notin ToSet(queue) \cup ToSet(cancels) \cup pending \cup serving \cup replies
    /\ writing # c

\* The future of c resolves; only the supervisor looks at what it returned.
Return(c, value) ==
    /\ call' = [call EXCEPT ![c] = "idle"]
    /\ result' = IF c \in Pings THEN value ELSE result

\* rpc and ping put a command into the bounded queue, or wait for room in it,
\* or learn at once that the driver is gone.
Submit(c) ==
  /\ refused' = refused \ {c}
  /\ \/ /\ driver = "ended"
        /\ Return(c, "failed")
        /\ UNCHANGED queue
     \/ /\ driver # "ended"
        /\ Len(queue) < CommandCapacity
        /\ queue' = Append(queue, c)
        /\ call' = [call EXCEPT ![c] = "waiting"]
        /\ UNCHANGED result
     \/ /\ driver # "ended"
        /\ Len(queue) >= CommandCapacity
        /\ call' = [call EXCEPT ![c] = "blocked"]
        /\ UNCHANGED <<queue, result>>

\* dispatch_commands: a command meets the session that is active when it is
\* dispatched, or none.
Dispatch(c) ==
    /\ Unused(c)
    /\ IF active
       THEN Submit(c)
       ELSE Return(c, "failed") /\ UNCHANGED <<queue, refused>>
    /\ UNCHANGED <<cancels, pending, driverVars, daemonVars, supVars>>

\* A blocked sender gets the next free place.
Unblock(c) ==
    /\ call[c] = "blocked"
    /\ Len(queue) < CommandCapacity
    /\ queue' = Append(queue, c)
    /\ call' = [call EXCEPT ![c] = "waiting"]
    /\ UNCHANGED <<result, cancels, refused, pending, driverVars, daemonVars, supVars>>

\* RequestCancellation::drop uses try_send: with a full queue the id is lost,
\* with no driver it does not matter.
Cancel(c) ==
    LET room == Len(cancels) < CancelCapacity
    IN  /\ cancels' = IF driver # "ended" /\ room THEN Append(cancels, c) ELSE cancels
        /\ refused' = IF driver # "ended" /\ ~room THEN refused \cup {c} ELSE refused

\* Mutant: the guard is disarmed before the answer is awaited.
TimeOutWithoutCancel(c) ==
    /\ call[c] = "waiting"
    /\ Return(c, "failed")
    /\ UNCHANGED <<tableVars, driverVars, daemonVars, supVars>>

\* rpc_timeout runs from the moment the command is queued.
TimeOut(c) ==
    /\ call[c] = "waiting"
    /\ Return(c, "failed")
    /\ Cancel(c)
    /\ UNCHANGED <<queue, pending, driverVars, daemonVars, supVars>>

\* The view drops the future of a call: before the command is queued nothing
\* remains, after that the guard cancels it.
DropCall(c) ==
    /\ call[c] # "idle"
    /\ Return(c, "failed")
    /\ IF call[c] = "waiting" THEN Cancel(c) ELSE UNCHANGED <<cancels, refused>>
    /\ UNCHANGED <<queue, pending, driverVars, daemonVars, supVars>>

-----------------------------------------------------------------------------
(* The session driver.  select! is biased: cancellations, then commands,   *)
(* then the socket.                                                        *)

Selecting == driver = "select"

\* Mutant: the command queue outlives the driver, and its blocked senders with it.
EndSessionStrandingSenders(reason) ==
    /\ driver' = "ended"
    /\ writing' = NoRequest
    /\ end' = reason
    /\ result' = IF \E p \in Pings : call[p] = "waiting" THEN "failed" ELSE result
    /\ call' = [c \in Ids |-> IF call[c] = "blocked" THEN "blocked" ELSE "idle"]
    /\ cancels' = <<>>
    /\ refused' = {}
    /\ pending' = {}
    /\ UNCHANGED queue

\* drive_session returned: fail_pending answers the table, and dropping the
\* receivers fails whoever is still queued, writing or blocked.
EndSession(reason) ==
    /\ driver' = "ended"
    /\ writing' = NoRequest
    /\ end' = reason
    /\ result' = IF \E p \in Pings : call[p] # "idle" THEN "failed" ELSE result
    /\ call' = [c \in Ids |-> "idle"]
    /\ queue' = <<>>
    /\ cancels' = <<>>
    /\ refused' = {}
    /\ pending' = {}

TakeCancel ==
    /\ Selecting
    /\ cancels # <<>>
    /\ pending' = pending \ {Head(cancels)}
    /\ cancels' = Tail(cancels)
    /\ UNCHANGED <<callerVars, queue, refused, driverVars, daemonVars, supVars>>

TakingCommand == Selecting /\ cancels = <<>> /\ queue # <<>>

\* A request whose caller has given up is not sent at all.
SkipCommand ==
    /\ TakingCommand
    /\ Head(queue) # "close"
    /\ call[Head(queue)] # "waiting"
    /\ queue' = Tail(queue)
    /\ UNCHANGED <<callerVars, cancels, refused, pending, driverVars, daemonVars, supVars>>

StartWrite ==
    /\ TakingCommand
    /\ Head(queue) # "close"
    /\ call[Head(queue)] = "waiting"
    /\ driver' = "writing"
    /\ writing' = Head(queue)
    /\ queue' = Tail(queue)
    /\ UNCHANGED <<callerVars, cancels, refused, pending, end, daemonVars, supVars>>

\* The driver awaits the write: the caller may give up meanwhile, and only a
\* caller that still waits enters the table.
FinishWrite ==
    /\ driver = "writing"
    /\ peer # "stuck"
    /\ driver' = "select"
    /\ writing' = NoRequest
    /\ pending' = IF call[writing] = "waiting" THEN pending \cup {writing} ELSE pending
    /\ serving' = serving \cup {writing}
    /\ UNCHANGED <<callerVars, queue, cancels, refused, end, replies, peer, supVars>>

\* A close frame is written to the socket before the driver returns, behind
\* whatever was queued first.
StartClose ==
    /\ TakingCommand
    /\ Head(queue) = "close"
    /\ driver' = "closing"
    /\ queue' = Tail(queue)
    /\ UNCHANGED <<callerVars, cancels, refused, pending, writing, end, daemonVars, supVars>>

FinishClose ==
    /\ driver = "closing"
    /\ peer # "stuck"
    /\ EndSession("graceful")
    /\ UNCHANGED <<daemonVars, supVars>>

ReadingSocket == Selecting /\ cancels = <<>> /\ queue = <<>>

\* rpc_response and pong: routed by id; an answer nobody waits for is ignored.
TakeReply(c) ==
    /\ ReadingSocket
    /\ c \in replies
    /\ replies' = replies \ {c}
    /\ IF c \in pending
       THEN /\ pending' = pending \ {c}
            /\ IF call[c] = "waiting" THEN Return(c, "ok") ELSE UNCHANGED callerVars
       ELSE UNCHANGED <<pending, callerVars>>
    /\ UNCHANGED <<queue, cancels, refused, driverVars, serving, peer, supVars>>

\* handle_frame answers a WebSocket ping at once, and awaits that write too; a
\* peer that answers no request may well send pings.
StartPong ==
    /\ ReadingSocket
    /\ peer # "gone"
    /\ driver' = "ponging"
    /\ UNCHANGED <<callerVars, tableVars, writing, end, daemonVars, supVars>>

FinishPong ==
    /\ driver = "ponging"
    /\ peer # "stuck"
    /\ driver' = "select"
    /\ UNCHANGED <<callerVars, tableVars, writing, end, daemonVars, supVars>>

\* The socket fails, the daemon closes it, or a frame breaks the protocol:
\* seen when the driver reads or writes.
SeeFailure ==
    /\ peer = "gone"
    /\ ReadingSocket \/ driver \in {"writing", "ponging", "closing"}
    /\ \E reason \in {"auth", "reconnectable", "fatal"} : EndSession(reason)
    /\ UNCHANGED <<daemonVars, supVars>>

-----------------------------------------------------------------------------
(* The daemon and the network.                                             *)

Answer(c) ==
    /\ peer = "alive"
    /\ c \in serving
    /\ serving' = serving \ {c}
    /\ replies' = replies \cup {c}
    /\ UNCHANGED <<callerVars, tableVars, driverVars, peer, supVars>>

\* The daemon hangs, or the host disappears without closing the connection; a
\* peer that does not read either fills the buffers and blocks every write.
FallSilent ==
    /\ peer \in {"alive", "silent"}
    /\ peer' \in {"silent", "stuck"} \ {peer}
    /\ UNCHANGED <<callerVars, tableVars, driverVars, serving, replies, supVars>>

Break ==
    /\ peer # "gone"
    /\ peer' = "gone"
    /\ UNCHANGED <<callerVars, tableVars, driverVars, serving, replies, supVars>>

-----------------------------------------------------------------------------
(* The supervisor: the loop at the end of run_attempt.                     *)

\* The heartbeat ticks; ping is awaited inside the handler, so neither the
\* shutdown request nor the end of the session is looked at meanwhile.
Tick(p) ==
    /\ sup = "serving"
    /\ Unused(p)
    /\ Submit(p)
    /\ sup' = "pinging"
    /\ UNCHANGED <<cancels, pending, driverVars, daemonVars, active, shutdown>>

PingAnswered ==
    /\ sup = "pinging"
    /\ result = "ok"
    /\ sup' = "serving"
    /\ result' = "none"
    /\ UNCHANGED <<call, tableVars, driverVars, daemonVars, active, shutdown>>

\* Mutant: a missed heartbeat is only reported.
PingFailedServesOn ==
    /\ sup = "pinging"
    /\ result = "failed"
    /\ sup' = "serving"
    /\ result' = "none"
    /\ UNCHANGED <<call, tableVars, driverVars, daemonVars, active, shutdown>>

PingFailed ==
    /\ sup = "pinging"
    /\ result = "failed"
    /\ active' = FALSE
    /\ sup' = "closing"
    /\ result' = "none"
    /\ UNCHANGED <<call, tableVars, driverVars, daemonVars, shutdown>>

DropRuntime ==
    /\ ~shutdown
    /\ shutdown' = TRUE
    /\ UNCHANGED <<callerVars, tableVars, driverVars, daemonVars, active, sup>>

SeeShutdown ==
    /\ sup = "serving"
    /\ shutdown
    /\ active' = FALSE
    /\ sup' = "closing"
    /\ UNCHANGED <<callerVars, tableVars, driverVars, daemonVars, shutdown>>

SeeEnd ==
    /\ sup = "serving"
    /\ end # "none"
    /\ active' = FALSE
    /\ sup' = "left"
    /\ UNCHANGED <<callerVars, tableVars, driverVars, daemonVars, shutdown>>

\* close: queue a Close command - behind every other one - and wait for the
\* driver, without a timeout.
SendClose ==
    /\ sup = "closing"
    /\ driver # "ended"
    /\ Len(queue) < CommandCapacity
    /\ queue' = Append(queue, "close")
    /\ sup' = "awaitingEnd"
    /\ UNCHANGED <<callerVars, cancels, refused, pending, driverVars, daemonVars, active, shutdown>>

\* Mutant: only a graceful end counts as closed.
ClosedGracefully ==
    /\ sup \in {"closing", "awaitingEnd"}
    /\ end = "graceful"
    /\ sup' = "left"
    /\ UNCHANGED <<callerVars, tableVars, driverVars, daemonVars, active, shutdown>>

Closed ==
    /\ sup \in {"closing", "awaitingEnd"}
    /\ end # "none"
    /\ sup' = "left"
    /\ UNCHANGED <<callerVars, tableVars, driverVars, daemonVars, active, shutdown>>

-----------------------------------------------------------------------------
DriverStep ==
    \/ TakeCancel \/ SkipCommand \/ StartWrite \/ FinishWrite
    \/ StartClose \/ FinishClose
    \/ \E c \in Ids : TakeReply(c)
    \/ StartPong \/ FinishPong \/ SeeFailure

SupervisorStep ==
    \/ \E p \in Pings : Tick(p)
    \/ PingAnswered \/ PingFailed
    \/ SeeShutdown \/ SeeEnd \/ SendClose \/ Closed

Next ==
    \/ \E c \in Calls : Dispatch(c)
    \/ \E c \in Calls : DropCall(c)
    \/ \E c \in Ids : Unblock(c) \/ TimeOut(c) \/ Answer(c)
    \/ DriverStep
    \/ SupervisorStep
    \/ FallSilent \/ Break \/ DropRuntime

Spec == Init /\ [][Next]_vars

\* The tokio tasks run, timers fire, the semaphore of a queue serves its
\* waiters in order, and the supervisor's select!, which picks at random among
\* the ready branches, does not pass over one of them for ever.  Nothing is
\* assumed of the daemon, of the network or of the user; a write that never
\* ends is no step, so fairness does not end it.
Fairness ==
    /\ WF_vars(DriverStep)
    /\ WF_vars(SupervisorStep)
    /\ \A c \in Ids : WF_vars(TimeOut(c)) /\ SF_vars(Unblock(c))
    /\ SF_vars(SendClose) /\ SF_vars(SeeShutdown) /\ SF_vars(SeeEnd)

FairSpec == Spec /\ Fairness

-----------------------------------------------------------------------------
TypeOK ==
    /\ call \in [Ids -> {"idle", "blocked", "waiting"}]
    /\ result \in {"none", "ok", "failed"}
    /\ queue \in Seq(Ids \cup {"close"}) /\ Len(queue) <= CommandCapacity
    /\ cancels \in Seq(Ids) /\ Len(cancels) <= CancelCapacity
    /\ refused \subseteq Ids
    /\ pending \subseteq Ids
    /\ driver \in {"select", "writing", "ponging", "closing", "ended"}
    /\ writing \in Ids \cup {NoRequest}
    /\ end \in {"none", "graceful", "auth", "reconnectable", "fatal"}
    /\ serving \subseteq Ids
    /\ replies \subseteq Ids
    /\ peer \in {"alive", "silent", "stuck", "gone"}
    /\ active \in BOOLEAN
    /\ sup \in {"serving", "pinging", "closing", "awaitingEnd", "left"}
    /\ shutdown \in BOOLEAN

\* The table holds no entry that everybody forgot: the caller still waits, or
\* its cancellation is on its way to the driver, or the full queue refused that
\* cancellation when the caller gave up (drive_session, RequestCancellation).
PendingHasAnOwner ==
    \A c \in pending : call[c] = "waiting" \/ c \in ToSet(cancels) \/ c \in refused

\* What README.md says instead: a call that timed out or was dropped leaves the
\* table.  The code does not keep that when 64 cancellations are queued already.
CancelledCallsLeave == \A c \in pending : call[c] = "waiting" \/ c \in ToSet(cancels)

\* The driver awaits a write that its peer does not let end.  No timeout in
\* client.rs covers it, and while it lasts the driver takes nothing from any queue.
StuckWrite == driver \in {"writing", "ponging", "closing"} /\ peer = "stuck"

\* An rpc or ping future whose command is queued resolves, whatever the daemon,
\* the socket and the other callers do: an answer, its timeout or the end of
\* the session.  One that still waits for room in the queue resolves too, unless
\* the driver is stuck in a write for ever.
EveryCallReturns ==
    \A c \in Ids : (call[c] # "idle")
                    ~> (call[c] = "idle" \/ [](StuckWrite /\ call[c] = "blocked"))

\* A peer that stops answering is noticed by the heartbeat, the session is
\* closed, and the supervisor goes on to the next attempt, unless the driver is
\* stuck in a write for ever: close waits for it (runtime.rs:1044).
HeartbeatRecovers == (peer # "alive") ~> (sup = "left" \/ []StuckWrite)

\* The runtime handle can be dropped at any time: the supervisor leaves the
\* session, also out of a heartbeat or a close that is already under way, with
\* the same exception.
ShutdownIsHeeded == shutdown ~> (sup = "left" \/ []StuckWrite)

\* What README.md says instead: a failed heartbeat always reconnects.
HeartbeatReconnects == (peer # "alive") ~> (sup = "left")
=============================================================================
