------------------------------ MODULE Timeline ------------------------------
(***************************************************************************)
(* The timeline of the views: runtime events taken from the channel in     *)
(* batches of text deltas (event_batch.rs, the event task of mod.rs), the  *)
(* turns they build (timeline.rs: apply_timeline, timeline_turn_mut;       *)
(* timeline/lifecycle.rs), the index by agent and turn (timeline/model.rs: *)
(* TimelineIndex), the virtual list of the selected agent's turns, whose   *)
(* rows keep what was measured until they are spliced, and the sleep       *)
(* preventer.                                                              *)
(*                                                                         *)
(* The daemon's events come in the order of its log (EventSync), but the   *)
(* log may hold a turn's events in any order: a delayed start, a second    *)
(* completion, text of a turn that is over.                                *)
(***************************************************************************)
EXTENDS Naturals, Sequences, FiniteSets, SequencesExt

CONSTANTS
    Agents,
    Turns,          \* turn ids, which two agents may share
    NoAgent,        \* timeline_list_agent_id = None
    Unmeasured,     \* a row that has to be measured when it is rendered
    BatchLimit,     \* MAX_STREAMING_EVENTS_PER_BATCH
    MaxSent         \* bound on the events of one runtime

TimelineAssumption ==
    /\ NoAgent \notin Agents
    /\ BatchLimit \in Nat \ {0}
    /\ MaxSent \in Nat

VARIABLES
    channel,        \* runtime events the event task has not taken
    pending,        \* pending_event: the event that ended the last batch
    held,           \* the delta the event task holds for one interval
    timeline,       \* the turns in the order in which they appeared
    byTurn,         \* TimelineIndex::by_turn
    byAgent,        \* TimelineIndex::by_agent
    selected,       \* selected_agent_id
    listAgent,      \* timeline_list_agent_id
    rows,           \* timeline_list_state: what each row was measured with
    awake,          \* is there a sleep_preventer? (the user has it switched on)
    (* history *)
    sent,           \* every event of this runtime
    advanced        \* [Keys -> how often the completion advanced the queue]

pathVars == <<channel, pending, held>>
turnVars == <<timeline, byTurn, byAgent, advanced>>
listVars == <<selected, listAgent, rows>>
vars == <<pathVars, turnVars, listVars, awake, sent>>

Keys  == Agents \X Turns
Kinds == {"started", "delta", "completed", "failed"}
Final == {"completed", "failed"}
Reset == [kind |-> "reset"]

\* A delta is told from the others by its position among the events sent.
Events == [kind : Kinds, key : Keys, n : 1..MaxSent] \cup {Reset}

NewTurn(key) == [key |-> key, prompted |-> FALSE, text |-> <<>>,
                 step |-> "none", status |-> "running"]

Init ==
    /\ channel = <<>> /\ pending = <<>> /\ held = <<>>
    /\ timeline = <<>>
    /\ byTurn = <<>>
    /\ byAgent = [a \in Agents |-> <<>>]
    /\ selected \in Agents \cup {NoAgent}
    /\ listAgent = NoAgent
    /\ rows = <<>>
    /\ awake = FALSE
    /\ sent = <<>>
    /\ advanced = [k \in Keys |-> 0]

-----------------------------------------------------------------------------
(* The event task.                                                         *)

IsDelta(event) == event.kind = "delta"

Send(event) ==
    /\ Len(sent) < MaxSent
    /\ event # Reset => event.n = Len(sent) + 1
    /\ sent' = Append(sent, event)
    /\ channel' = Append(channel, event)
    /\ UNCHANGED <<pending, held, turnVars, listVars, awake>>

\* Mutant: the channel is read although an event is pending.
TakeFromChannel ==
    /\ held = <<>>
    /\ IF channel = <<>>
       THEN pending # <<>> /\ held' = pending /\ pending' = <<>> /\ UNCHANGED channel
       ELSE /\ held' = <<Head(channel)>>
            /\ channel' = Tail(channel)
            /\ UNCHANGED pending
    /\ UNCHANGED <<turnVars, listVars, awake, sent>>

\* The next event, which may be the one that ended the last batch, is taken;
\* a delta is then held for one interval.
Take ==
    /\ held = <<>>
    /\ IF pending # <<>>
       THEN held' = pending /\ pending' = <<>> /\ UNCHANGED channel
       ELSE /\ channel # <<>>
            /\ held' = <<Head(channel)>>
            /\ channel' = Tail(channel)
            /\ UNCHANGED pending
    /\ UNCHANGED <<turnVars, listVars, awake, sent>>

\* Deltas at the head of the channel ...
DeltaRun ==
    CHOOSE n \in 0..Len(channel) :
        /\ \A i \in 1..n : IsDelta(channel[i])
        /\ n < Len(channel) => ~IsDelta(channel[n + 1])

\* ... of which as many join the delta that is held as the limit allows.
Joining == IF DeltaRun < BatchLimit THEN DeltaRun ELSE BatchLimit - 1

-----------------------------------------------------------------------------
(* apply_timeline, on v = [timeline, byTurn, byAgent, advanced, dirty];    *)
(* dirty is timeline_dirty_turns, which every batch empties.               *)

View == [timeline |-> timeline, byTurn |-> byTurn, byAgent |-> byAgent,
         advanced |-> advanced, dirty |-> {}]

\* timeline_turn_mut and TimelineIndex::insert: an unknown turn is pushed.
WithTurn(v, key) ==
    IF key \in DOMAIN v.byTurn THEN v
    ELSE LET place == [turn |-> Len(v.timeline) + 1, row |-> Len(v.byAgent[key[1]]) + 1]
         IN  [v EXCEPT !.timeline = Append(@, NewTurn(key)),
                       !.byTurn = [k \in DOMAIN @ \cup {key} |->
                                      IF k = key THEN place ELSE v.byTurn[k]],
                       !.byAgent[key[1]] = Append(@, place.turn)]

\* apply_turn_started_event does not touch a turn that is over.
Started(turn) ==
    IF turn.status = "running" THEN [turn EXCEPT !.prompted = TRUE] ELSE turn

\* apply_turn_completed_event: the step that is running ends with the turn.
Completed(turn, status) ==
    [turn EXCEPT !.status = status, !.step = IF @ = "running" THEN status ELSE @]

Changed(turn, event) ==
    CASE event.kind = "started" -> Started(turn)
      [] event.kind = "delta"   ->
            [turn EXCEPT !.text = Append(@, event.n), !.step = "running"]
      [] event.kind \in Final   -> Completed(turn, event.kind)

\* Mutant: every completion advances the queue.
AdvancesAlways(v, event) == event.kind \in Final

\* turn_completion_actions: the queue is advanced unless the turn was over.
Advances(v, event) ==
    /\ event.kind \in Final
    /\ event.key \in DOMAIN v.byTurn =>
          v.timeline[v.byTurn[event.key].turn].status = "running"

ApplyTimeline(v, event) ==
    LET w == WithTurn(v, event.key)
    IN  [w EXCEPT !.timeline[w.byTurn[event.key].turn] = Changed(@, event),
                  !.advanced[event.key] = IF Advances(v, event) THEN @ + 1 ELSE @,
                  !.dirty = @ \cup {event.key}]

-----------------------------------------------------------------------------
(* The virtual list.                                                       *)

Blank(n) == [i \in 1..n |-> Unmeasured]

\* Mutant: rows that are appended hide the changes of the others.
FlushAppending(v) ==
    LET count == Len(v.byAgent[listAgent])
    IN  IF listAgent = NoAgent THEN rows
        ELSE [i \in 1..count |->
                 IF \/ i > Len(rows)
                    \/ /\ Len(rows) = count
                       /\ \E k \in v.dirty : k[1] = listAgent /\ v.byTurn[k].row = i
                 THEN Unmeasured
                 ELSE rows[i]]

\* flush_timeline_list_updates: new turns get rows, changed ones are spliced.
Flush(v) ==
    LET count == Len(v.byAgent[listAgent])
    IN  IF listAgent = NoAgent THEN rows
        ELSE [i \in 1..count |->
                 IF \/ i > Len(rows)
                    \/ \E k \in v.dirty : k[1] = listAgent /\ v.byTurn[k].row = i
                 THEN Unmeasured
                 ELSE rows[i]]

ClearTimeline ==
    /\ timeline' = <<>>
    /\ byTurn' = <<>>
    /\ byAgent' = [a \in Agents |-> <<>>]
    /\ advanced' = [k \in Keys |-> 0]
    /\ listAgent' = NoAgent
    /\ rows' = <<>>
    /\ awake' = FALSE

\* The event task applies a HistoryReset, which is a batch of its own ...
ApplyReset ==
    /\ held = <<Reset>>
    /\ held' = <<>>
    /\ ClearTimeline
    /\ UNCHANGED <<channel, pending, selected, sent>>

\* ... or a batch of timeline events, and then brings the list and the sleep
\* preventer up to date.  The event that ends the deltas waits for the next
\* batch.
ApplyBatch ==
    /\ held # <<>> /\ held # <<Reset>>
    /\ LET joining  == IF IsDelta(held[1]) THEN Joining ELSE 0
           boundary == IF IsDelta(held[1]) /\ joining < BatchLimit - 1
                             /\ joining < Len(channel)
                       THEN 1 ELSE 0
           v == FoldLeft(ApplyTimeline, View, held \o SubSeq(channel, 1, joining))
       IN  /\ held' = <<>>
           /\ pending' = SubSeq(channel, joining + 1, joining + boundary)
           /\ channel' = SubSeq(channel, joining + boundary + 1, Len(channel))
           /\ timeline' = v.timeline
           /\ byTurn' = v.byTurn
           /\ byAgent' = v.byAgent
           /\ advanced' = v.advanced
           /\ rows' = Flush(v)
           /\ awake' = \E i \in DOMAIN v.timeline : v.timeline[i].status = "running"
    /\ UNCHANGED <<selected, listAgent, sent>>

\* select_agent, and reconcile_selection, which may select no agent and leaves
\* the list alone.
Select(a) ==
    /\ selected' = a
    /\ listAgent' = a
    /\ rows' = Blank(Len(byAgent[a]))
    /\ UNCHANGED <<pathVars, turnVars, awake, sent>>

Reselect(a) ==
    /\ selected' = a
    /\ UNCHANGED <<pathVars, turnVars, listAgent, rows, awake, sent>>

\* sync_timeline_list_state, and the rows in view are measured.
Render ==
    LET turns == IF selected = NoAgent THEN <<>> ELSE byAgent[selected]
        keeps == listAgent = selected
    IN  \E visible \in SUBSET (1..Len(turns)) :
            /\ listAgent' = selected
            /\ rows' = [i \in 1..Len(turns) |->
                           IF keeps /\ i <= Len(rows) /\ rows[i] # Unmeasured
                           THEN rows[i]
                           ELSE IF i \in visible THEN timeline[turns[i]]
                           ELSE Unmeasured]
            /\ UNCHANGED <<pathVars, turnVars, selected, awake, sent>>

\* connect: the event task and the runtime are dropped; another runtime
\* starts without a cursor.
Connect ==
    /\ channel' = <<>> /\ pending' = <<>> /\ held' = <<>>
    /\ sent' = <<>>
    /\ ClearTimeline
    /\ UNCHANGED selected

Next ==
    \/ \E event \in Events : Send(event)
    \/ Take \/ ApplyReset \/ ApplyBatch
    \/ \E a \in Agents : Select(a)
    \/ \E a \in Agents \cup {NoAgent} : Reselect(a)
    \/ Render
    \/ Connect

Spec == Init /\ [][Next]_vars

-----------------------------------------------------------------------------
TurnRecords == [key : Keys, prompted : BOOLEAN, text : Seq(1..MaxSent),
                step : {"none", "running"} \cup Final,
                status : {"running"} \cup Final]

TypeOK ==
    /\ channel \in Seq(Events) /\ sent \in Seq(Events)
    /\ held \in Seq(Events) /\ Len(held) <= 1
    /\ pending \in Seq(Events) /\ Len(pending) <= 1
    /\ timeline \in Seq(TurnRecords)
    /\ DOMAIN byTurn \subseteq Keys
    /\ \A k \in DOMAIN byTurn :
          byTurn[k] \in [turn : 1..Len(timeline), row : 1..Len(timeline)]
    /\ byAgent \in [Agents -> Seq(1..Len(timeline))]
    /\ selected \in Agents \cup {NoAgent}
    /\ listAgent \in Agents \cup {NoAgent}
    /\ rows \in Seq(TurnRecords \cup {Unmeasured})
    /\ awake \in BOOLEAN
    /\ advanced \in [Keys -> Nat]

\* The positions of the events since the last reset among the first m of a log,
\* and those of one turn.
SinceReset(log, m) == {i \in 1..m : \A j \in i..m : log[j] # Reset}
EventsOf(log, m, k) == {i \in SinceReset(log, m) : log[i].key = k}

EndsIn(log, I) == {i \in I : log[i].kind \in Final}

\* A turn that shows the events at the positions I.
TurnShows(c, log, I) ==
    /\ ToSet(c.text) = {i \in I : IsDelta(log[i])}
    /\ \A p, q \in DOMAIN c.text : p < q => c.text[p] < c.text[q]
    /\ c.status = IF EndsIn(log, I) = {} THEN "running" ELSE log[Max(EndsIn(log, I))].kind
    /\ c.prompted <=> \E i \in I : log[i].kind = "started" /\ \A e \in EndsIn(log, I) : i < e

ShowsKey(v, log, m, k) ==
    IF EventsOf(log, m, k) = {} THEN k \notin DOMAIN v.byTurn
    ELSE k \in DOMAIN v.byTurn
         /\ TurnShows(v.timeline[v.byTurn[k].turn], log, EventsOf(log, m, k))

ShowsLog(v, log, m) == \A k \in Keys : ShowsKey(v, log, m, k)

\* The event task loses and reorders nothing: what it has applied and what it
\* has not make up what was sent, and each turn shows what its events since
\* the last reset say (README: no reordering across a batch's boundary).
ShowsWhatWasSent ==
    LET rest == held \o pending \o channel
        m    == Len(sent) - Len(rest)
    IN  /\ sent = SubSeq(sent, 1, m) \o rest
        /\ ShowsLog(View, sent, m)

\* The index and the timeline say the same: every turn is found under its key,
\* once, and in its agent's list at the row the index gives it.
IndexIsExact ==
    /\ DOMAIN byTurn = {timeline[i].key : i \in DOMAIN timeline}
    /\ \A k \in DOMAIN byTurn :
          /\ timeline[byTurn[k].turn].key = k
          /\ byTurn[k].row \in DOMAIN byAgent[k[1]]
          /\ byAgent[k[1]][byTurn[k].row] = byTurn[k].turn
    /\ \A a \in Agents : Len(byAgent[a]) = Cardinality({k \in DOMAIN byTurn : k[1] = a})

\* A row that was measured is measured again after its turn changed: the list
\* never lays out a row by what its turn was, or by another agent's turn.
RowsAreCurrent ==
    \A i \in DOMAIN rows :
        rows[i] = Unmeasured \/ rows[i] = timeline[byAgent[listAgent][i]]

\* A turn advances the queue exactly once, with its first completion (test
\* stale_first_completion_advances_queue_without_notifying).
FirstCompletionAdvances ==
    \A k \in Keys :
        advanced[k] = IF k \in DOMAIN byTurn /\ timeline[byTurn[k].turn].status # "running"
                      THEN 1 ELSE 0

\* The computer is kept awake exactly while a turn is running, as long as the
\* user has that switched on.
SleepFollowsTurns ==
    awake <=> \E i \in DOMAIN timeline : timeline[i].status = "running"
=============================================================================
