------------------------------- MODULE Plugins -------------------------------
(***************************************************************************)
(* The two lists of plugins in the settings (plugins.rs), each with one    *)
(* slot for its task, a flag that disables its buttons, and confirmations  *)
(* that ask for a second click: Corbit's own plugins and its market, and   *)
(* the official catalog of Codex.  They do not touch each other; which one *)
(* is looked at is chosen at the start.                                    *)
(*                                                                         *)
(* The daemon has a clock of changes; a list is as old as its answer.      *)
(***************************************************************************)
EXTENDS Naturals

CONSTANTS
    PluginIds,
    MaxPluginOps,       \* bound on operations
    MaxPluginVisits,    \* bound on visits to the page and on sessions
    None

PluginsAssumption ==
    /\ None \notin PluginIds
    /\ MaxPluginOps \in Nat /\ MaxPluginVisits \in Nat

VARIABLES
    catalog,        \* "local": plugins and plugin_marketplace; "official"
    online,
    listed,         \* the list shown: [at, installed]
    slot,           \* plugin_task, codex_official_plugin_task
    busy,           \* the flag ..operation_in_flight
    armed,          \* what the next click on a plugin would confirm
    dialog,         \* the inspection dialog is open: it outlives the session
    accounts,       \* codex_official_apps_needing_auth is not empty
    installed, at,  \* the daemon's plugins and its clock
    wanted,         \* the clock of the last change the view was told of
    warned,         \* the last read failed and the user was told
    ops, pageVisits

shown  == <<listed, slot, busy, armed, dialog, accounts>>
server == <<installed, at>>
counts == <<ops, pageVisits>>
vars   == <<catalog, online, shown, server, wanted, warned, counts>>

Free       == [phase |-> "none"]
Arms       == {"install", "uninstall"}
NothingArmed == [a \in Arms |-> None]

Init ==
    /\ catalog \in {"local", "official"}
    /\ online = TRUE
    /\ listed = [at |-> 0, installed |-> {}]
    /\ slot = Free /\ busy = FALSE
    /\ armed = NothingArmed /\ dialog = FALSE /\ accounts = FALSE
    /\ installed \in SUBSET PluginIds /\ at = 1
    /\ wanted = 0 /\ warned = FALSE
    /\ ops = 0 /\ pageVisits = 0

-----------------------------------------------------------------------------
(* Reading: load_plugins asks for the plugins and for the market, which are *)
(* one answer here, load_codex_official_plugins for the catalog; both only  *)
(* into a free slot.                                                        *)

Reading(force) == [phase |-> "read", force |-> force]

Load(force) ==
    IF slot = Free /\ online THEN slot' = Reading(force) /\ busy' = TRUE
    ELSE UNCHANGED <<slot, busy>>

\* set_resource_section, and a session's snapshot while the page is shown.
ShowPage ==
    /\ pageVisits < MaxPluginVisits /\ pageVisits' = pageVisits + 1
    /\ Load(FALSE)
    /\ UNCHANGED <<catalog, online, listed, armed, dialog, accounts, server, wanted, warned, ops>>

\* The refresh buttons are disabled while busy.
Refresh ==
    /\ pageVisits < MaxPluginVisits /\ pageVisits' = pageVisits + 1
    /\ online /\ ~busy
    /\ Load(catalog = "official")
    /\ UNCHANGED <<catalog, online, listed, armed, dialog, accounts, server, wanted, warned, ops>>

DaemonAnswersRead ==
    /\ slot.phase = "read"
    /\ slot' = [phase |-> "answer", force |-> slot.force, at |-> at, installed |-> installed]
    /\ UNCHANGED <<catalog, online, listed, busy, armed, dialog, accounts, server, wanted,
                   warned, counts>>

Release == slot' = Free /\ busy' = FALSE

\* A list that arrives disarms what was armed, of the market only updates.
ListArrives ==
    /\ slot.phase = "answer"
    /\ Release
    /\ listed' = [at |-> slot.at, installed |-> slot.installed]
    /\ armed' = NothingArmed
    /\ accounts' = (accounts /\ ~slot.force)
    /\ warned' = FALSE
    /\ UNCHANGED <<catalog, online, dialog, server, wanted, counts>>

\* Mutant: what was armed for the list before stays armed.
ListArrivesArmed ==
    /\ slot.phase = "answer"
    /\ Release
    /\ listed' = [at |-> slot.at, installed |-> slot.installed]
    /\ accounts' = (accounts /\ ~slot.force)
    /\ warned' = FALSE
    /\ UNCHANGED <<catalog, online, armed, dialog, server, wanted, counts>>

ReadFails ==
    /\ slot.phase \in {"read", "answer"}
    /\ Release
    /\ warned' = TRUE
    /\ UNCHANGED <<catalog, online, listed, armed, dialog, accounts, server, wanted, counts>>

-----------------------------------------------------------------------------
(* Operations: a click, maybe a second one, a call, and a new reading.      *)

\* Installing an official plugin that asks for it, updating a market plugin.
Arm(a, p) ==
    /\ online /\ ~busy
    /\ a = "uninstall" => p \in listed.installed
    /\ a = "install" => (p \in listed.installed) = (catalog = "local")
    /\ armed[a] # p
    /\ armed' = [armed EXCEPT ![a] = p]
    /\ UNCHANGED <<catalog, online, listed, slot, busy, dialog, accounts, server, wanted,
                   warned, counts>>

Call(kind, p) ==
    /\ ops < MaxPluginOps /\ ops' = ops + 1
    /\ online /\ ~busy
    /\ slot' = [phase |-> "call", kind |-> kind, plugin |-> p]
    /\ busy' = TRUE

\* install_codex_official_plugin, install_marketplace_plugin: a first
\* installation may go without a second click.
InstallPlugin(p) ==
    /\ armed["install"] = p \/ p \notin listed.installed
    /\ Call("install", p)
    /\ UNCHANGED <<catalog, online, listed, armed, dialog, accounts, server, wanted, warned,
                   pageVisits>>

UninstallPlugin(p) ==
    /\ p \in listed.installed
    /\ armed["uninstall"] = p
    /\ Call("uninstall", p)
    /\ UNCHANGED <<catalog, online, listed, armed, dialog, accounts, server, wanted, warned,
                   pageVisits>>

SetPluginEnabled(p) ==
    /\ catalog = "local" /\ p \in listed.installed
    /\ Call("enable", p)
    /\ UNCHANGED <<catalog, online, listed, armed, dialog, accounts, server, wanted, warned,
                   pageVisits>>

\* select_plugin_directory holds the slot while the user chooses; then the
\* daemon inspects the directory.
SelectPluginDirectory ==
    /\ catalog = "local"
    /\ Call("choose", None)
    /\ UNCHANGED <<catalog, online, listed, armed, dialog, accounts, server, wanted, warned,
                   pageVisits>>

\* Mutant: the chooser is cancelled and the flag is forgotten.
CancelForgetsFlag ==
    /\ slot.phase = "call" /\ slot.kind = "choose"
    /\ slot' = Free
    /\ UNCHANGED <<catalog, online, listed, busy, armed, dialog, accounts, server, wanted,
                   warned, counts>>

\* Nothing chosen, the chooser failed, or the inspection did.
ChooserEnds ==
    /\ slot.phase = "call" /\ slot.kind = "choose"
    /\ Release
    /\ UNCHANGED <<catalog, online, listed, armed, dialog, accounts, server, wanted, warned,
                   counts>>

\* The result is shown with update_window, which fails only when the window is
\* closed: then the page, which the window owns (mod.rs:1914), is gone as well.
Inspected ==
    /\ slot.phase = "call" /\ slot.kind = "choose"
    /\ Release
    /\ dialog' = TRUE
    /\ UNCHANGED <<catalog, online, listed, armed, accounts, server, wanted, warned, counts>>

\* The dialog closes whether the installation starts or another task runs.
ConfirmDialog(p) ==
    /\ dialog /\ dialog' = FALSE
    /\ IF busy \/ ~online THEN UNCHANGED <<slot, busy, ops>> ELSE Call("inspected", p)
    /\ UNCHANGED <<catalog, online, listed, armed, accounts, server, wanted, warned, pageVisits>>

CancelDialog ==
    /\ dialog /\ dialog' = FALSE
    /\ UNCHANGED <<catalog, online, listed, slot, busy, armed, accounts, server, wanted,
                   warned, counts>>

DaemonExecutes ==
    /\ slot.phase = "call" /\ slot.kind # "choose"
    /\ at' = at + 1
    /\ installed' = CASE slot.kind \in {"install", "inspected"} -> installed \cup {slot.plugin}
                      [] slot.kind = "uninstall" -> installed \ {slot.plugin}
                      [] OTHER -> installed
    /\ slot' = [slot EXCEPT !.phase = "done"]
    /\ UNCHANGED <<catalog, online, listed, busy, armed, dialog, accounts, wanted, warned, counts>>

\* Which confirmation the callback drops, on success and on failure.
Disarmed(kind, ok) ==
    CASE kind = "install" -> [armed EXCEPT !["install"] = None]
      [] kind = "uninstall" /\ (ok \/ catalog = "official") -> [armed EXCEPT !["uninstall"] = None]
      [] OTHER -> armed

\* The slot is free again before the list is read.
OperationDone ==
    /\ slot.phase = "done"
    /\ wanted' = at
    /\ slot' = Reading(FALSE) /\ busy' = TRUE
    /\ armed' = Disarmed(slot.kind, TRUE)
    /\ accounts' \in IF slot.kind = "install" /\ catalog = "official" THEN BOOLEAN
                     ELSE IF slot.kind = "uninstall" /\ catalog = "official" THEN {FALSE}
                     ELSE {accounts}
    /\ UNCHANGED <<catalog, online, listed, dialog, server, warned, counts>>

\* Refused, or the answer did not come.
OperationFails ==
    /\ slot.phase \in {"call", "done"} /\ slot.kind # "choose"
    /\ Release
    /\ armed' = Disarmed(slot.kind, FALSE)
    /\ UNCHANGED <<catalog, online, listed, dialog, accounts, server, wanted, warned, counts>>

-----------------------------------------------------------------------------
\* clear_connection_bound_state.
Disconnect ==
    /\ online /\ online' = FALSE
    /\ pageVisits < MaxPluginVisits /\ pageVisits' = pageVisits + 1
    /\ Release
    /\ listed' = [at |-> 0, installed |-> {}]
    /\ armed' = NothingArmed /\ accounts' = FALSE
    /\ wanted' = 0
    /\ UNCHANGED <<catalog, dialog, server, warned, ops>>

Reconnect ==
    /\ ~online /\ online' = TRUE
    /\ UNCHANGED <<catalog, shown, server, wanted, warned, counts>>

Next ==
    \/ ShowPage \/ Refresh \/ DaemonAnswersRead \/ ListArrives \/ ReadFails
    \/ \E p \in PluginIds :
          \/ \E a \in Arms : Arm(a, p)
          \/ InstallPlugin(p) \/ UninstallPlugin(p) \/ SetPluginEnabled(p) \/ ConfirmDialog(p)
    \/ SelectPluginDirectory \/ ChooserEnds \/ Inspected \/ CancelDialog
    \/ DaemonExecutes \/ OperationDone \/ OperationFails
    \/ Disconnect \/ Reconnect

Spec == Init /\ [][Next]_vars

-----------------------------------------------------------------------------
\* The buttons are disabled exactly as long as a task runs that will enable
\* them again: every way out of a task gives the slot and the flag back.
BusyHasTask == busy = (slot # Free)

\* After an operation that succeeded the list is read again; it is never left
\* as it was before without a word.
PluginsFreshOrPending == listed.at >= wanted \/ slot # Free \/ warned

\* The second click takes off a plugin that the user still sees installed.
UninstallOfShown ==
    armed["uninstall"] # None => armed["uninstall"] \in listed.installed
=============================================================================
