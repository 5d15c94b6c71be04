----------------------------- MODULE MCDefiMcp -----------------------------
(***************************************************************************)
(* Small instances of DefiMcp: a read tool, a write tool and a name the    *)
(* service never lists; a service that may come back with the same catalog *)
(* in another order, with a changed schema, without the write tool, or     *)
(* with a listing connectSession refuses.                                  *)
(***************************************************************************)
EXTENDS DefiMcp

CONSTANTS c1, c2

Entry(n, s) == [name |-> n, schema |-> s]

MCNames == {"get_quote", "swap", "unlisted"}
MCRetrySafe == {"get_quote"}

Frozen    == <<Entry("get_quote", "v1"), Entry("swap", "v1")>>
Reordered == <<Entry("swap", "v1"), Entry("get_quote", "v1")>>
NewSchema == <<Entry("get_quote", "v1"), Entry("swap", "v2")>>
Shorter   == <<Entry("get_quote", "v1")>>
Twice     == <<Entry("get_quote", "v1"), Entry("get_quote", "v2")>>
NoWrite   == <<Entry("get_quote", "v1"), Entry("swap", NoSchema)>>

\* Every way a listing can differ.
AllListings == {Frozen, Reordered, NewSchema, Shorter, Twice, NoWrite, <<>>,
                <<Entry(Blank, "v1")>>}
\* For DefiMcpRecovers the service always comes back as it was, or with
\* the write tool changed.
TwoListings == {Frozen, NewSchema}

=============================================================================
