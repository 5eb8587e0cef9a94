---------------------------- MODULE EventHistory ----------------------------
(***************************************************************************)
(* What event recovery promises to the views: an abstract replica of one   *)
(* daemon's event log.  The replica is a contiguous slice of the log of a  *)
(* single daemon identity.  It grows by the next event of that log, or is  *)
(* thrown away and restarted at some position of some log.  It knows       *)
(* nothing of sockets, handshakes, cursors on the wire or failures.        *)
(*                                                                         *)
(* EventSync, the client as it is coded, implements this specification.    *)
(***************************************************************************)
EXTENDS Naturals, Sequences

CONSTANTS
    Servers,     \* daemon identities (server_id)
    NoServer,    \* "no identity yet"
    Legacy       \* identities whose daemon has no event cursor recovery

VARIABLES
    log,            \* [Servers -> Seq(kind)]: every event a daemon numbered
    origin,         \* whose log the replica follows
    lastSequence,   \* position of the replica in that log
    history         \* the slice itself: events since the last reset

vars == <<log, origin, lastSequence, history>>

Decodable == {"timeline", "other"}
Kinds     == Decodable \cup {"malformed"}

Init ==
    /\ log = [s \in Servers |-> <<>>]
    /\ origin = NoServer
    /\ lastSequence = 0
    /\ history = <<>>

\* A daemon numbers one more event.
Publish(s, kind) ==
    /\ log' = [log EXCEPT ![s] = Append(@, kind)]
    /\ UNCHANGED <<origin, lastSequence, history>>

\* The replica takes an event of its log.  Only a daemon without cursor
\* recovery may make it jump over events.
Extend ==
    /\ origin # NoServer
    /\ \E n \in DOMAIN log[origin] :
        /\ log[origin][n] \in Decodable
        /\ n > lastSequence
        /\ origin \notin Legacy => n = lastSequence + 1
        /\ lastSequence' = n
        /\ history' = Append(history, [server |-> origin, seq |-> n,
                                       kind |-> log[origin][n]])
    /\ UNCHANGED <<log, origin>>

\* The replica restarts, empty, at position n of the log of s.
Restart(s, n) ==
    /\ origin' = s
    /\ lastSequence' = n
    /\ history' = <<>>
    /\ UNCHANGED log

\* A new client: nothing is known.
Forget ==
    /\ origin' = NoServer
    /\ lastSequence' = 0
    /\ history' = <<>>
    /\ UNCHANGED log

Next ==
    \/ \E s \in Servers, kind \in Kinds : Publish(s, kind)
    \/ Extend
    \/ \E s \in Servers : \E n \in 0..Len(log[s]) : Restart(s, n)
    \/ Forget

Spec == Init /\ [][Next]_vars
=============================================================================
