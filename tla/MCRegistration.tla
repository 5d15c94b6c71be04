--------------------------- MODULE MCRegistration ---------------------------
(***************************************************************************)
(* Two registrars, one as the deploy script runs it on a redeploy (no      *)
(* price, no metadata) and one that registers for the first time, a        *)
(* deregistrar, an owner who sets prices with another tool, and two shells *)
(* that generate the owner key.                                            *)
(***************************************************************************)
EXTENDS Registration

CONSTANTS redeploy, first, leave, g1, g2, k1, k2

Flags(tags, metadata, pricing) ==
    [endpoint |-> "here", tags |-> tags, metadata |-> metadata, pricing |-> pricing]

MCConfig ==
    [r \in Registrars |->
        CASE r = redeploy -> Flags(<<"a", "b">>, NoMetadata, NoPricing)
          [] r = first    -> Flags(<<"b", "a">>, "note", 1)]

MCCards == {[hash |-> "h1", url |-> "here"], [hash |-> "h2", url |-> NoUrl],
            [hash |-> "h3", url |-> "elsewhere"]}
GoodCards == {[hash |-> "h1", url |-> "here"], [hash |-> "h2", url |-> "here"]}
MCPrices == {9}
=============================================================================
