------------------------------- MODULE Composer -------------------------------
(***************************************************************************)
(* The composer of a conversation (mod.rs, timeline.rs, integrations.rs):  *)
(* one input field and one list of attachments for all agents, a draft per *)
(* agent, and three operations that end after the user went elsewhere: a   *)
(* prompt, a file chooser and a window snapshot.                           *)
(*                                                                         *)
(* Selecting an agent changes selected_agent_id only.  The field follows   *)
(* when the next frame is drawn, where sync_prompt_editors runs; answers   *)
(* may come before it, the user acts on a drawn frame.  What becomes of a  *)
(* prompt is in PromptQueue.                                               *)
(***************************************************************************)
EXTENDS Naturals, FiniteSets

CONSTANTS
    Conversations,      \* agents
    None,
    MaxAttachments,     \* MAX_PROMPT_ATTACHMENTS
    MaxTexts,           \* bound on texts typed
    MaxSends,           \* bound on requests
    MaxAdded            \* bound on attachments ever added

ComposerAssumption ==
    /\ None \notin Conversations
    /\ {MaxAttachments, MaxTexts, MaxSends, MaxAdded} \subseteq Nat

VARIABLES
    selected,       \* selected_agent_id
    owner,          \* prompt_input_agent_id
    text,           \* what the field holds
    drafts,         \* prompt_drafts
    files,          \* prompt_attachments: whom each was added for, and a number
    clearFor,       \* prompt_clear_agent_id
    flight,         \* prompt_task: what is sent, and whether the answer clears
    adding,         \* the chooser or the snapshot under way
    typed, sends, added

vars == <<selected, owner, text, drafts, files, clearFor, flight, adding, typed, sends, added>>

Empty == [agent |-> None, n |-> 0]
NoFlight == [agent |-> None, clears |-> FALSE, text |-> Empty, files |-> {}]
NotAdding == [kind |-> "none", agent |-> None, slots |-> 0]

Init ==
    /\ selected \in Conversations /\ owner = selected
    /\ text = Empty
    /\ drafts = [a \in Conversations |-> Empty]
    /\ files = {} /\ clearFor = None
    /\ flight = NoFlight /\ adding = NotAdding
    /\ typed = 0 /\ sends = 0 /\ added = 0

InFlight == flight # NoFlight
Adding == adding # NotAdding

\* The frame shows the agent that is selected, and nothing waits to be cleared.
Drawn == owner = selected /\ clearFor # selected

Add(a, n) ==
    /\ added + n <= MaxAdded /\ added' = added + n
    /\ files' = files \cup {[agent |-> a, n |-> added + m] : m \in 1..n}

-----------------------------------------------------------------------------
(* The user.                                                                *)

\* The field stays editable while a prompt is on its way.
Type ==
    /\ Drawn /\ typed < MaxTexts
    /\ typed' = typed + 1
    /\ text' = [agent |-> owner, n |-> typed']
    /\ UNCHANGED <<selected, owner, drafts, files, clearFor, flight, adding, sends, added>>

Select(a) ==
    /\ Drawn /\ a # selected
    /\ selected' = a
    /\ UNCHANGED <<owner, text, drafts, files, clearFor, flight, adding, typed, sends, added>>

\* choose_prompt_attachments: the slots are counted when the chooser opens.
ChooseFiles ==
    /\ Drawn
    /\ ~InFlight /\ ~Adding /\ Cardinality(files) < MaxAttachments
    /\ adding' = [kind |-> "files", agent |-> selected,
                  slots |-> MaxAttachments - Cardinality(files)]
    /\ UNCHANGED <<selected, owner, text, drafts, files, clearFor, flight, typed, sends, added>>

\* capture_app_snapshot, a shortcut: also while a prompt is on its way.
TakeSnapshot ==
    /\ Drawn
    /\ ~Adding /\ Cardinality(files) < MaxAttachments
    /\ adding' = [kind |-> "snapshot", agent |-> selected, slots |-> 1]
    /\ UNCHANGED <<selected, owner, text, drafts, files, clearFor, flight, typed, sends, added>>

\* paste_prompt_image.
PasteImage ==
    /\ Drawn
    /\ ~InFlight /\ ~Adding /\ Cardinality(files) < MaxAttachments
    /\ Add(selected, 1)
    /\ UNCHANGED <<selected, owner, text, drafts, clearFor, flight, adding, typed, sends>>

RemoveAttachment(f) ==
    /\ Drawn /\ ~InFlight
    /\ f \in files /\ files' = files \ {f}
    /\ UNCHANGED <<selected, owner, text, drafts, clearFor, flight, adding, typed, sends, added>>

\* Mutant: the field is emptied at once, whoever is selected.
ClearField(a) ==
    /\ drafts' = [drafts EXCEPT ![a] = Empty]
    /\ text' = Empty
    /\ clearFor' = a
    /\ files' = {}

\* clear_submitted_composer; the field is emptied when a frame of a is drawn.
ClearSubmitted(a) ==
    /\ drafts' = [drafts EXCEPT ![a] = Empty]
    /\ clearFor' = a
    /\ files' = {}
    /\ UNCHANGED text

CanSend ==
    /\ Drawn /\ ~InFlight /\ ~Adding
    /\ text # Empty \/ files # {}
    /\ sends < MaxSends /\ sends' = sends + 1

\* submit_prompt_request, or a steer when nothing is attached: what was sent
\* stays in the composer until the answer.
SendPrompt ==
    /\ CanSend
    /\ flight' = [agent |-> selected, clears |-> TRUE, text |-> text, files |-> files]
    /\ UNCHANGED <<selected, owner, text, drafts, files, clearFor, adding, typed, added>>

\* queue_prompt: a turn is active.
QueuePrompt ==
    /\ CanSend
    /\ ClearSubmitted(selected)
    /\ UNCHANGED <<selected, owner, flight, adding, typed, added>>

-----------------------------------------------------------------------------
(* Answers and frames.                                                      *)

\* A queued prompt is submitted when a turn ends; it clears nothing.
SubmitQueued(a) ==
    /\ ~InFlight /\ sends < MaxSends /\ sends' = sends + 1
    /\ flight' = [NoFlight EXCEPT !.agent = a]
    /\ UNCHANGED <<selected, owner, text, drafts, files, clearFor, adding, typed, added>>

PromptAccepted ==
    /\ InFlight /\ flight' = NoFlight
    /\ IF flight.clears THEN ClearSubmitted(flight.agent)
                        ELSE UNCHANGED <<text, drafts, clearFor, files>>
    /\ UNCHANGED <<selected, owner, adding, typed, sends, added>>

\* Refused, or the session ended.
PromptFails ==
    /\ InFlight /\ flight' = NoFlight
    /\ UNCHANGED <<selected, owner, text, drafts, files, clearFor, adding, typed, sends, added>>

\* Mutant: the files go to whoever is selected now.
FilesForAnyone ==
    /\ adding.kind = "files" /\ adding' = NotAdding
    /\ \E n \in 0..adding.slots : Add(adding.agent, n)
    /\ UNCHANGED <<selected, owner, text, drafts, clearFor, flight, typed, sends>>

\* Cancelled, refused as too many, or loaded; dropped when another agent is
\* selected now.
FilesChosen ==
    /\ adding.kind = "files" /\ adding' = NotAdding
    /\ IF selected = adding.agent
       THEN \E n \in 0..adding.slots : Add(adding.agent, n)
       ELSE UNCHANGED <<files, added>>
    /\ UNCHANGED <<selected, owner, text, drafts, clearFor, flight, typed, sends>>

SnapshotTaken ==
    /\ adding.kind = "snapshot" /\ adding' = NotAdding
    /\ IF selected = adding.agent THEN Add(selected, 1) \/ UNCHANGED <<files, added>>
                                  ELSE UNCHANGED <<files, added>>
    /\ UNCHANGED <<selected, owner, text, drafts, clearFor, flight, typed, sends>>

\* reconcile_selection: the selected agent is gone from the snapshot.  Bound:
\* the selection changes once between two frames.
Reselect(a) ==
    /\ owner = selected
    /\ a # selected /\ selected' = a
    /\ UNCHANGED <<owner, text, drafts, files, clearFor, flight, adding, typed, sends, added>>

\* The field's text becomes the draft of the agent it was typed for.
SwapDraft ==
    /\ text' = drafts[selected]
    /\ drafts' = [drafts EXCEPT ![owner] = text]

\* sync_prompt_editors.
Draw ==
    /\ ~Drawn
    /\ owner' = selected
    /\ IF owner # selected
       THEN /\ files' = {}
            /\ IF clearFor = selected
               THEN text' = Empty /\ drafts' = [drafts EXCEPT ![owner] = text, ![selected] = Empty]
               ELSE SwapDraft
       ELSE /\ UNCHANGED files
            /\ text' = Empty /\ drafts' = [drafts EXCEPT ![selected] = Empty]
    /\ clearFor' = IF clearFor = selected THEN None ELSE clearFor
    /\ UNCHANGED <<selected, flight, adding, typed, sends, added>>

Next ==
    \/ Type \/ ChooseFiles \/ TakeSnapshot \/ PasteImage \/ SendPrompt \/ QueuePrompt
    \/ \E a \in Conversations : Select(a) \/ SubmitQueued(a) \/ Reselect(a)
    \/ \E f \in files : RemoveAttachment(f)
    \/ PromptAccepted \/ PromptFails \/ FilesChosen \/ SnapshotTaken
    \/ Draw

Spec == Init /\ [][Next]_vars

-----------------------------------------------------------------------------
\* No sequence of choosing, pasting and capturing goes beyond the limit.
AttachmentsFit == Cardinality(files) <= MaxAttachments

\* On a drawn frame the composer holds only what was added for its agent:
\* nothing the user prepared for one agent is sent to another.
HoldsItsOwn ==
    Drawn => /\ \A f \in files : f.agent = selected
             /\ text # Empty => text.agent = selected

Written(a) == IF owner = a THEN text ELSE drafts[a]

\* Nothing but the user, and an accepted or queued prompt of that very agent,
\* changes what was written for an agent: not a change of the selection, nor an
\* answer for another agent or to a queued prompt, nor a failed one.  An accepted
\* prompt clears its agent's field as it is then, with what was typed while it
\* was on its way (ClearsOnlyWhatWasSent).
TextSurvives ==
    [][\A a \in Conversations :
        Written(a)' # Written(a) /\ Written(a) # Empty =>
            \/ typed' # typed /\ owner = a
            \/ clearFor = a
            \/ clearFor' = a]_vars

\* Settings (settings.rs:1245): what was not sent is kept as a draft.  The code
\* clears the field and all attachments, also what was added or typed, for
\* whatever agent, while the prompt was on its way.
ClearsOnlyWhatWasSent ==
    [][flight.clears /\ flight' = NoFlight /\ clearFor' = flight.agent =>
        /\ Written(flight.agent) \in {Empty, flight.text}
        /\ files \subseteq flight.files \/ files' = files]_vars
=============================================================================
