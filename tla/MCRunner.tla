------------------------------ MODULE MCRunner ------------------------------
(***************************************************************************)
(* Messages with a text, a read, a write the model makes up, two parallel  *)
(* calls, and a call without arguments.                                    *)
(***************************************************************************)
EXTENDS Runner

Asks(n, a) == [name |-> n, args |-> a]
Message(t, c) == [text |-> t, calls |-> c]

MCConfigs == [provider : {"", "openai", "anthropic", "deepseek"}, anthropicHost : BOOLEAN]

MCReadOnly == {"get_quote", "list_pools"}
MCMeanings ==
    {Message(TRUE, <<>>),
     Message(FALSE, <<Asks("get_quote", "full")>>),
     Message(TRUE, <<Asks("get_quote", "full"), Asks("list_pools", "{}")>>),
     Message(FALSE, <<Asks("get_quote", "full"), Asks("swap", "full")>>)}
=============================================================================
