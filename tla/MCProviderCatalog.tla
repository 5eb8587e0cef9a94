-------------------------- MODULE MCProviderCatalog --------------------------
(* Two providers, two models with different efforts, one project and one    *)
(* agent.  The second provider comes and goes, the first loses a model.     *)
EXTENDS ProviderCatalog, TLC

CONSTANTS codex, claude, fast, deep, a1, p1

TheEfforts  == (fast :> {"low"}) @@ (deep :> {"low", "high"})
TheDefault  == (fast :> "low") @@ (deep :> "low")
TheCatalogs == {(codex :> {fast, deep}) @@ (claude :> {}),
                (codex :> {deep}) @@ (claude :> {fast})}
TheProviders == a1 :> codex
=============================================================================
