-------------------------- MODULE MCConnectionView --------------------------
(* Model values for ConnectionView.                                        *)
EXTENDS ConnectionView

CONSTANTS loopback, remote, none

TwoEndpoints == {loopback, remote}
OnlyLoopback == {loopback}
=============================================================================
