---------------------------- MODULE MCConversation ----------------------------
(***************************************************************************)
(* From the daemon's events to the conversation on the screen and back to  *)
(* the daemon, one component at a time: a channel to the views that is     *)
(* full all the time (UiDelivery), the timeline, the composer and the      *)
(* prompt queue.  `focus` says which one TLC explores.                     *)
(*                                                                         *)
(* Two agents, one of which can be steered, with the same turn ids.        *)
(***************************************************************************)
EXTENDS Timeline

CONSTANTS codex, claude, p1, p2, p3, t1, t2, none, blank
CONSTANTS Prompts, AgentOf, Steerable, MaxTimeouts, MaxDisconnects, MaxIds  \* PromptQueue
CONSTANTS MaxAttachments, MaxTexts, MaxSends, MaxAdded              \* Composer
CONSTANTS BroadcastCapacity, ChannelCapacity, MaxAttempts, MaxEvents    \* UiDelivery

TwoForOne == (p1 :> codex) @@ (p2 :> codex) @@ (p3 :> claude)

VARIABLES
    focus,
    online, turn, draft, queue, flight, retry, ids, reply, events, running, accepted, ran, order,
    cleared, timeouts, disconnects,
    cSelected, owner, text, drafts, files, clearFor, cFlight, adding, typed, sends, added,
    stage, attempt, error, active, driver, committed, broadcast, skipped, uHeld, uChannel, state,
    shown, snapshot, applied, reported

Que == INSTANCE PromptQueue WITH NoPrompt <- none
Cmp == INSTANCE Composer WITH Conversations <- Agents, None <- none, selected <- cSelected,
                              flight <- cFlight
Dlv == INSTANCE UiDelivery WITH held <- uHeld, channel <- uChannel

ASSUME ConversationAssumption ==
    /\ TimelineAssumption /\ Que!PromptsAssumption
    /\ Cmp!ComposerAssumption /\ Dlv!DeliveryAssumption

qV == <<online, turn, draft, queue, flight, retry, ids, reply, events, running, accepted, ran,
        order, cleared, timeouts, disconnects>>
tV == <<channel, pending, held, timeline, byTurn, byAgent, selected, listAgent, rows, awake, sent,
        advanced>>
cV == <<cSelected, owner, text, drafts, files, clearFor, cFlight, adding, typed, sends, added>>
uV == <<stage, attempt, error, active, driver, committed, broadcast, skipped, uHeld, uChannel,
        state, shown, snapshot, applied, reported>>
allVars == <<focus, qV, tV, cV, uV>>

\* Timeline and Composer do not tell the agents apart: one of them is the
\* first to be selected.
ConversationInit ==
    /\ focus \in {"queue", "timeline", "composer", "delivery"}
    /\ Init /\ Que!Init /\ Cmp!Init /\ Dlv!Init
    /\ selected = codex /\ cSelected = codex

ConversationNext ==
    \/ focus = "queue" /\ Que!Next /\ UNCHANGED <<focus, tV, cV, uV>>
    \/ focus = "timeline" /\ Next /\ UNCHANGED <<focus, qV, cV, uV>>
    \/ focus = "composer" /\ Cmp!Next /\ UNCHANGED <<focus, qV, tV, uV>>
    \/ focus = "delivery" /\ Dlv!Next /\ UNCHANGED <<focus, qV, tV, cV>>

ConversationSpec == ConversationInit /\ [][ConversationNext]_allVars
-----------------------------------------------------------------------------
\* UiDelivery: what a full channel drops is reported to the user, and a
\* snapshot on its way belongs to a session that can be called.
DeliveryIsHonest == Dlv!LossIsReported /\ Dlv!SnapshotMeansSession
\* UiDelivery: whatever is lost, the view never shows the snapshot of an earlier
\* session than its state, and in the end the reason why there is none.
NothingOutdated == Dlv!SnapshotIsNotOutdated /\ Dlv!FinalStateIsReason
\* Timeline: the index, the rows of the list and the sleep preventer, kept
\* beside the turns, follow them.
TurnsAreTracked == IndexIsExact /\ RowsAreCurrent /\ SleepFollowsTurns
\* PromptQueue: the prompts of an agent run in the order they were written,
\* and only a disconnection loses one.
QueueKeepsOrder == Que!QueueKeepsOrder
OnlyDisconnectLoses == Que!OnlyDisconnectLoses
\* Composer: nothing prepared for one agent is sent to another, no way of adding
\* attachments goes beyond the limit, and what is written for an agent is
\* cleared by an accepted or queued prompt of that agent alone.
HoldsItsOwn == Cmp!HoldsItsOwn /\ Cmp!AttachmentsFit
TextSurvives == Cmp!TextSurvives
=============================================================================
