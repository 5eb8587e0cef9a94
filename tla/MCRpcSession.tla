---------------------------- MODULE MCRpcSession ----------------------------
(* Model values for RpcSession.                                            *)
EXTENDS RpcSession

CONSTANTS r1, r2, hb, none

OneCall == {r1}
TwoCalls == {r1, r2}
OnePing == {hb}
=============================================================================
