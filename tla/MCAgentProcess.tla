--------------------------- MODULE MCAgentProcess ---------------------------
(***************************************************************************)
(* Two requests and three catalogs: one with a tool of the agent's own     *)
(* names, one with a changed schema and one that lists list_tools.         *)
(***************************************************************************)
EXTENDS AgentProcess

CONSTANTS h1, h2

MCReadOnly == {"get_quote", "list_pools", "list_tools"}

Plain   == [n \in {"get_quote", "swap"} |-> "v1"]
Changed == [n \in {"get_quote", "swap"} |-> IF n = "swap" THEN "v2" ELSE "v1"]
Clash   == [n \in {"get_quote", "broadcast_evm_tx", "list_tools"} |-> "v1"]

MCCatalogs == {Plain, Changed, Clash}
OneCatalog == {Plain}
=============================================================================
