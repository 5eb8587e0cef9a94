--------------------------- MODULE MCPromptQueue ----------------------------
(* Model values for PromptQueue: two agents, prompts for one or for both.  *)
EXTENDS PromptQueue

CONSTANTS codex, claude, p1, p2, p3, none

NoAgent      == {}
OneAgent     == {codex}
TwoAgents    == {codex, claude}
TwoPrompts   == {p1, p2}
ThreePrompts == {p1, p2, p3}
BothForOne   == (p1 :> codex) @@ (p2 :> codex)
TwoForOne    == (p1 :> codex) @@ (p2 :> codex) @@ (p3 :> claude)
=============================================================================
