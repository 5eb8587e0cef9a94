----------------------------- MODULE MCEventSync -----------------------------
(***************************************************************************)
(* Instances of EventSync for TLC: two daemon identities.                  *)
(***************************************************************************)
EXTENDS EventSync

CONSTANTS a, b, none

AllModern == {}
TwoServers == {a, b}
=============================================================================
