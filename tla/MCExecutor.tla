----------------------------- MODULE MCExecutor -----------------------------
(***************************************************************************)
(* The agent's own tools, one private read, one private write and a        *)
(* reserved private name, and the envelopes that tell the branches of      *)
(* handle and of the own tools apart.                                      *)
(***************************************************************************)
EXTENDS Executor

CONSTANTS t1, x1

MCProxied == {"get_quote", "swap"}
MCCatalog == MCProxied \cup {"list_tools"}
MCSkill == [n \in MCProxied \cup {"broadcast_evm_tx", "evm_tx_status", "list_tools"} |->
               IF n = "list_tools" THEN "svpchain-meta" ELSE "svpchain-evm"]
MCRetried == {"get_quote"}
MCReadOnly == {"get_quote", "get_made_up", "list_tools"}
MCAsks == {<<"get_quote">>, <<"list_tools", "swap">>, <<"get_made_up", "get_quote">>}

Envelope(skill, name, decodes, tx) ==
    [intent |-> FALSE, skill |-> skill, tool |-> name, decodes |-> decodes, tx |-> tx]

Intent == [Envelope("", "", TRUE, NoTx) EXCEPT !.intent = TRUE]
\* The legacy form: a skill and a query, no tool.
Legacy == Envelope("svpchain-market-data", "", TRUE, NoTx)

MCEnvelopes ==
    {Intent, Legacy,
     Envelope("svpchain-evm", "swap", TRUE, NoTx),
     Envelope("svpchain-evm", "get_quote", TRUE, NoTx),
     Envelope("svpchain-evm", "swap", FALSE, NoTx),
     Envelope("svpchain-evm", "broadcast_evm_tx", TRUE, x1),
     Envelope("svpchain-evm", "broadcast_evm_tx", FALSE, NoTx),
     Envelope("svpchain-evm", "evm_tx_status", TRUE, x1),
     Envelope("svpchain-meta", "list_tools", TRUE, NoTx),
     Envelope("svpchain-meta", "swap", TRUE, NoTx),
     Envelope("svpchain-evm", "unknown", TRUE, NoTx)}
=============================================================================
