----------------------------- MODULE PromptQueue ----------------------------
(***************************************************************************)
(* Prompts between the composer and the daemon (timeline.rs: send_prompt,  *)
(* queue_prompt, submit_prompt_request, steer_active_turn,                 *)
(* start_next_queued_prompt): one queue for all agents, one request in     *)
(* flight, one remembered mutation id, and a queue that only moves when    *)
(* apply_timeline sees the first completion of a turn.                     *)
(*                                                                         *)
(* Timeline events and answers reach the view on different paths.  After a *)
(* disconnection the missed events are replayed before the state is Online *)
(* again (EventSync, UiDelivery).                                          *)
(***************************************************************************)
EXTENDS Naturals, Sequences, FiniteSets, SequencesExt

CONSTANTS
    Agents,
    Prompts,        \* what the user types, in one text per prompt
    AgentOf,        \* [Prompts -> Agents]
    NoPrompt,
    Steerable,      \* agents whose provider and preference steer a turn
    MaxTimeouts,    \* bound on answers that come too late
    MaxDisconnects, \* bound on disconnections
    MaxIds          \* bound on the mutation ids generated

PromptsAssumption ==
    /\ AgentOf \in [Prompts -> Agents]
    /\ NoPrompt \notin Prompts
    /\ Steerable \subseteq Agents
    /\ {MaxTimeouts, MaxDisconnects, MaxIds} \subseteq Nat

VARIABLES
    (* ConnectionView *)
    online,     \* is the state Online?
    turn,       \* [Agents -> BOOLEAN]: a turn in progress in the timeline
    draft,      \* prompts the composer still holds
    queue,      \* queued_prompts
    flight,     \* the request of prompt_task
    retry,      \* retry_prompt: the last signature and its mutation id
    ids,        \* mutation ids generated
    (* between the view and the daemon *)
    reply,      \* "none" or the answer to the request
    events,     \* [Agents -> timeline events not applied yet]
    (* the daemon *)
    running,    \* [Agents -> BOOLEAN]
    accepted,   \* mutation ids it has executed
    ran,        \* [Prompts -> how often the prompt was executed]
    (* history *)
    order,      \* prompts in the order in which they were queued
    cleared,    \* prompts the user removed from the queue
    timeouts, disconnects

viewVars   == <<online, turn, draft, queue, flight, retry, ids>>
daemonVars == <<running, accepted, ran>>
ghosts     == <<order, cleared>>
faultVars  == <<timeouts, disconnects>>
vars == <<viewVars, reply, events, daemonVars, ghosts, faultVars>>

Kinds == {"direct", "queued", "steer"}
NoRequest == [prompt |-> NoPrompt, kind |-> "direct", id |-> 0]
NoRetry   == [prompt |-> NoPrompt, kind |-> "direct", id |-> 0]

Init ==
    /\ online = TRUE
    /\ turn = [a \in Agents |-> FALSE]
    /\ draft = Prompts
    /\ queue = <<>>
    /\ flight = NoRequest
    /\ retry = NoRetry
    /\ ids = 0
    /\ reply = "none"
    /\ events = [a \in Agents |-> <<>>]
    /\ running = [a \in Agents |-> FALSE]
    /\ accepted = {}
    /\ ran = [p \in Prompts |-> 0]
    /\ order = <<>>
    /\ cleared = {}
    /\ timeouts = 0
    /\ disconnects = 0

-----------------------------------------------------------------------------
(* The view.                                                               *)

InFlight == flight.prompt # NoPrompt

\* The mutation id is that of the remembered request if the signature is the
\* same, a new one otherwise; either way it is remembered.  A steer has a
\* signature of its own, with the id of its turn: see ForgetSteer.
SameSignature(p, kind) ==
    retry.prompt = p /\ (retry.kind = "steer") = (kind = "steer")

\* submit_prompt_request and steer_active_turn.
Submit(p, kind) ==
    LET id == IF SameSignature(p, kind) THEN retry.id ELSE ids + 1
    IN  /\ id <= MaxIds
        /\ ids' = IF id > ids THEN id ELSE ids
        /\ flight' = [prompt |-> p, kind |-> kind, id |-> id]
        /\ retry' = flight'
        /\ reply' = "none"

\* send_prompt: no request in flight, the connection is online.
CanSend(p) == p \in draft /\ ~InFlight /\ online

SendDirectly(p) ==
    /\ CanSend(p)
    /\ ~turn[AgentOf[p]]
    /\ Submit(p, "direct")
    /\ UNCHANGED <<online, turn, draft, queue, events, daemonVars, ghosts, faultVars>>

\* A turn is active: steer it, or queue the prompt if the provider cannot (and
\* for the attachments it has, which are left out, also if it can).
Steer(p) ==
    /\ CanSend(p)
    /\ turn[AgentOf[p]]
    /\ AgentOf[p] \in Steerable
    /\ Submit(p, "steer")
    /\ UNCHANGED <<online, turn, draft, queue, events, daemonVars, ghosts, faultVars>>

Enqueue(p) ==
    /\ CanSend(p)
    /\ turn[AgentOf[p]]
    /\ queue' = Append(queue, p)
    /\ draft' = draft \ {p}
    /\ order' = Append(order, p)
    /\ UNCHANGED <<online, turn, flight, retry, ids, reply, events, daemonVars,
                   cleared, faultVars>>

\* clear_queued_prompts retains those of the other agents, in their order.
ClearQueue(a) ==
    LET kept == {i \in DOMAIN queue : AgentOf[queue[i]] # a}
    IN  /\ kept # DOMAIN queue
        /\ \E n \in 0..Len(queue) : \E places \in [1..n -> kept] :
              /\ Range(places) = kept
              /\ \A i, j \in 1..n : i < j => places[i] < places[j]
              /\ queue' = [i \in 1..n |-> queue[places[i]]]
        /\ cleared' = cleared \cup {queue[i] : i \in DOMAIN queue \ kept}
    /\ UNCHANGED <<online, turn, draft, flight, retry, ids, reply, events,
                   daemonVars, order, faultVars>>

Settle == flight' = NoRequest /\ reply' = "none"

\* The answer of the daemon: the prompt was accepted.
Accepted ==
    /\ InFlight
    /\ reply = "ok"
    /\ draft' = draft \ {flight.prompt}
    /\ retry' = NoRetry
    /\ Settle
    /\ UNCHANGED <<online, turn, queue, ids, events, daemonVars, ghosts, faultVars>>

\* Mutants: to the back; nowhere.
RequeueLast == queue' = IF flight.kind = "queued" THEN Append(queue, flight.prompt) ELSE queue
RequeueNot  == UNCHANGED queue

\* An error: a queued prompt goes back to the front, any other one is still
\* in the composer.
Requeue == queue' = IF flight.kind = "queued" THEN <<flight.prompt>> \o queue ELSE queue

Fail ==
    /\ InFlight
    /\ Requeue
    /\ Settle
    /\ UNCHANGED <<online, turn, draft, retry, ids, events, daemonVars, ghosts>>

Rejected ==
    /\ reply = "error"
    /\ Fail
    /\ UNCHANGED faultVars

\* The answer takes longer than rpc_timeout, whatever became of the request.
TimesOut ==
    /\ timeouts < MaxTimeouts
    /\ timeouts' = timeouts + 1
    /\ Fail
    /\ UNCHANGED disconnects

\* start_next_queued_prompt: once, when a turn of a completes.
StartNext(a) ==
    LET mine == {i \in DOMAIN queue : AgentOf[queue[i]] = a}
    IN  IF InFlight \/ ~online \/ mine = {}
        THEN UNCHANGED <<queue, flight, retry, ids, reply>>
        ELSE LET first == CHOOSE i \in mine : \A j \in mine : i <= j
             IN  /\ queue' = RemoveAt(queue, first)
                 /\ Submit(queue[first], "queued")

\* No steer of a later turn has the signature of one of an earlier turn.
ForgetSteer(a) ==
    retry' = IF retry.kind = "steer" /\ AgentOf[retry.prompt] = a THEN NoRetry ELSE retry

\* apply_timeline, of the events that matter here.  A turn's first event opens
\* it, and a completed turn is not opened again.
ApplyEvent(a) ==
    /\ events[a] # <<>>
    /\ events' = [events EXCEPT ![a] = Tail(@)]
    /\ turn' = [turn EXCEPT ![a] = Head(events[a]) = "started"]
    /\ IF Head(events[a]) = "completed"
       THEN StartNext(a)
       ELSE ForgetSteer(a) /\ UNCHANGED <<queue, flight, ids, reply>>
    /\ UNCHANGED <<online, draft, daemonVars, ghosts, faultVars>>

\* clear_connection_bound_state drops prompt_task; the queue stays.
Disconnect ==
    /\ disconnects < MaxDisconnects
    /\ disconnects' = disconnects + 1
    /\ online
    /\ online' = FALSE
    /\ Settle
    /\ UNCHANGED <<turn, draft, queue, retry, ids, events, daemonVars, ghosts, timeouts>>

\* Online comes after the replay.
Reconnect ==
    /\ ~online
    /\ \A a \in Agents : events[a] = <<>>
    /\ online' = TRUE
    /\ UNCHANGED <<turn, draft, queue, flight, retry, ids, reply, events,
                   daemonVars, ghosts, faultVars>>

-----------------------------------------------------------------------------
(* The daemon: one turn per agent, one execution per mutation id.          *)

Receive ==
    /\ InFlight
    /\ reply = "none"
    /\ LET p == flight.prompt
           a == AgentOf[p]
       IN  IF flight.id \in accepted
           THEN reply' = "ok" /\ UNCHANGED <<running, accepted, ran, events>>
           ELSE IF running[a] # (flight.kind = "steer")
           THEN reply' = "error" /\ UNCHANGED <<running, accepted, ran, events>>
           ELSE /\ reply' = "ok"
                /\ accepted' = accepted \cup {flight.id}
                /\ ran' = [ran EXCEPT ![p] = @ + 1]
                /\ running' = [running EXCEPT ![a] = TRUE]
                /\ events' = IF flight.kind = "steer" THEN events
                             ELSE [events EXCEPT ![a] = Append(@, "started")]
    /\ UNCHANGED <<viewVars, ghosts, faultVars>>

CompleteTurn(a) ==
    /\ running[a]
    /\ running' = [running EXCEPT ![a] = FALSE]
    /\ events' = [events EXCEPT ![a] = Append(@, "completed")]
    /\ UNCHANGED <<viewVars, reply, accepted, ran, ghosts, faultVars>>

-----------------------------------------------------------------------------
UserStep ==
    \/ \E p \in Prompts : SendDirectly(p) \/ Steer(p) \/ Enqueue(p)
    \/ \E a \in Agents : ClearQueue(a)

\* What happens without the user.
SystemStep ==
    \/ Accepted \/ Rejected
    \/ \E a \in Agents : ApplyEvent(a) \/ CompleteTurn(a)
    \/ Reconnect
    \/ Receive

Next == UserStep \/ SystemStep \/ TimesOut \/ Disconnect

Spec == Init /\ [][Next]_vars

\* Answers and events arrive, turns end, a lost connection comes back.
FairSpec == Spec /\ WF_vars(SystemStep)

-----------------------------------------------------------------------------
Requests == [prompt : Prompts \cup {NoPrompt}, kind : Kinds, id : 0..MaxIds]

TypeOK ==
    /\ online \in BOOLEAN
    /\ turn \in [Agents -> BOOLEAN]
    /\ draft \subseteq Prompts
    /\ queue \in Seq(Prompts) /\ IsInjective(queue)
    /\ flight \in Requests
    /\ retry \in Requests
    /\ ids \in 0..MaxIds
    /\ reply \in {"none", "ok", "error"}
    /\ events \in [Agents -> Seq({"started", "completed"})]
    /\ running \in [Agents -> BOOLEAN]
    /\ accepted \subseteq 1..ids
    /\ ran \in [Prompts -> Nat]
    /\ order \in Seq(Prompts)
    /\ cleared \subseteq Prompts

Kept(p) ==
    \/ p \in draft \cup ToSet(queue) \cup cleared
    \/ flight.prompt = p
    \/ ran[p] > 0

\* What the user wrote is never lost: it is in the composer, in the queue, on
\* its way or was executed, unless the user cleared it ("safely queued", says
\* queue_prompt).
NothingLost == \A p \in Prompts : Kept(p)

\* Answers, errors, timeouts, the user and the queue itself lose no prompt; only
\* a disconnection can, and only the queued prompt that is being sent.
OnlyDisconnectLoses ==
    [][\A p \in Prompts : Kept(p) /\ ~Kept(p)' =>
          /\ online /\ ~online'
          /\ flight.prompt = p /\ flight.kind = "queued"]_vars

\* The messages of an agent leave the queue in the order in which they were
\* queued, also after one of them failed and went back.
QueueKeepsOrder ==
    LET waiting == IF flight.kind = "queued" /\ InFlight
                   THEN <<flight.prompt>> \o queue
                   ELSE queue
        rank(p) == CHOOSE n \in DOMAIN order : order[n] = p
    IN  \A i, j \in DOMAIN waiting :
            i < j /\ AgentOf[waiting[i]] = AgentOf[waiting[j]]
                => rank(waiting[i]) < rank(waiting[j])

\* A prompt whose answer was uncertain is sent again under the same mutation
\* id, so the daemon executes it once (README: the id is reused).
RunsOnce == \A p \in Prompts : ran[p] <= 1

\* A queued message is sent when the current turn has ended (composer: "will
\* be sent after the current task"): it does not wait for ever while its
\* agent is idle.
QueueDrains ==
    \A p \in Prompts : (p \in ToSet(queue)) ~> (p \notin ToSet(queue))
=============================================================================
