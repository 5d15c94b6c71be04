---------------------------- MODULE Registration ----------------------------
(***************************************************************************)
(* The owner's command line tools against the chain: cmd/agent-register,   *)
(* cmd/agent-deregister and internal/agentchain, with internal/owner's     *)
(* signature bound to one account sequence.  A run is one process: it      *)
(* reads the record, decides, reads the account, signs and broadcasts, and *)
(* anything may happen on the chain between these steps.                   *)
(*                                                                         *)
(* The chain (x/agent, the account sequence, the mempool) is external: it  *)
(* is modelled by what the tools rely on.  Update replaces every mutable   *)
(* field; tags are an index, stored in any order; a transaction is applied *)
(* only at the sequence it was signed for.                                 *)
(***************************************************************************)
EXTENDS Naturals, Sequences, OwnerKey

CONSTANTS Registrars,   \* runs of agent-register
          Deregistrars, \* runs of agent-deregister
          Config,       \* [Registrars -> flags]
          Rpc,          \* the runs that ask over -rpc, the others over -grpc
          Cards,        \* the cards the agent may serve: [hash, url]
          Prices,       \* prices the owner may set some other way
          NoPricing, NoMetadata, NoRecord, NoCard, NoMsg, NoUrl,
          Other,        \* the owner's other tool
          MaxOther,     \* others act while the sequence is below this bound
          MaxSeq        \* runs are repeated while it is below this bound

Runs == Registrars \cup Deregistrars

ASSUME BoundAssumption == MaxOther \in Nat /\ MaxSeq \in Nat
ASSUME RunAssumption ==
    Other \notin Runs /\ Registrars \cap Deregistrars = {} /\ Rpc \subseteq Runs
\* -capabilities is split at its commas; a price another tool sets is a price.
ASSUME ConfigAssumption ==
    (\A r \in Registrars : Config[r].tags \in Seq(STRING)) /\ NoPricing \notin Prices

VARIABLES pc,           \* pc[r]: how far run r is
          card,         \* card[r]: the card it fetched
          msg,          \* msg[r]: the message it built
          acct,         \* acct[r]: the account sequence it signed for
          said,         \* said[r]: what it reported when it ended
          answer,       \* answer[r]: what CheckTx made of its transaction (history)
          readAt,       \* readAt[r]: the sequence when it read the record (history)
          atSign,       \* atSign[r]: the record when it read its account (history)
          served,       \* the card the agent serves now
          record,       \* the committed x/agent record
          seq,          \* the owner account's committed sequence
          mempool       \* accepted transactions, in sequence order

runVars   == <<pc, card, msg, acct, said, answer, readAt, atSign>>
chainVars == <<record, seq, mempool>>
world == <<served, chainVars, keyVars>>
vars == <<runVars, world>>

-----------------------------------------------------------------------------
(* internal/agentchain/register.go *)

\* Mutated: tags are compared in the order they are written.
sameSet_Ordered(a, b) == a = b

\* Equal once sorted.
sameSet(a, b) ==
    /\ Len(a) = Len(b)
    /\ \E p \in [1..Len(a) -> 1..Len(a)] :
          /\ \A i, j \in 1..Len(a) : p[i] = p[j] => i = j
          /\ \A i \in 1..Len(a) : b[i] = a[p[i]]

\* The fields in which the record disagrees with what is served and configured.
Drift(existing, want) ==
    {f \in {"endpoint", "hash"} : existing[f] # want[f]}
    \cup (IF sameSet(existing.tags, want.tags) THEN {} ELSE {"tags"})
    \cup (IF want.metadata \in {NoMetadata, existing.metadata} THEN {} ELSE {"metadata"})
    \cup (IF want.pricing \in {NoPricing, existing.pricing} THEN {} ELSE {"pricing"})

\* Mutated: an unset price is sent as it is.
BuildUpdate_FromZero(existing, want) == [kind |-> "update", fields |-> want]

\* The current record with only the configured fields overridden.
BuildUpdate(existing, want) ==
    [kind |-> "update",
     fields |->
       [want EXCEPT
          !.metadata = IF want.metadata # NoMetadata THEN want.metadata ELSE existing.metadata,
          !.pricing  = IF want.pricing # NoPricing THEN want.pricing ELSE existing.pricing]]

BuildRegister(want) == [kind |-> "register", fields |-> want]

\* Desired: the configuration and the hash of the card.
Desired(r, c) ==
    [endpoint |-> Config[r].endpoint, hash |-> c.hash, tags |-> Config[r].tags,
     metadata |-> Config[r].metadata, pricing |-> Config[r].pricing]

\* The card is the one just fetched.
Want(r) == Desired(r, card[r])

\* A card that names an interface names it under the registered endpoint.
CheckCardURL(c, endpoint) == c.url \in {NoUrl, endpoint}

-----------------------------------------------------------------------------
Init ==
    /\ pc = [r \in Runs |-> "idle"]
    /\ card = [r \in Runs |-> NoCard]
    /\ msg = [r \in Runs |-> NoMsg]
    /\ acct = [r \in Runs |-> 0]
    /\ said = [r \in Runs |-> "nothing"]
    /\ answer = [r \in Runs |-> "none"]
    /\ readAt = [r \in Runs |-> 0] /\ atSign = [r \in Runs |-> NoRecord]
    /\ served \in Cards
    /\ record = NoRecord /\ seq = 0 /\ mempool = <<>>
    /\ KeyInit

\* The process prints its result and exits; what it knew goes with it.
Exit(r, s) ==
    /\ pc' = [pc EXCEPT ![r] = "done"]
    /\ said' = [said EXCEPT ![r] = s]
    /\ card' = [card EXCEPT ![r] = NoCard]
    /\ msg' = [msg EXCEPT ![r] = NoMsg]
    /\ acct' = [acct EXCEPT ![r] = 0]
    /\ readAt' = [readAt EXCEPT ![r] = 0]
    /\ atSign' = [atSign EXCEPT ![r] = NoRecord]

(* Steps of agent-register *)

Fetch(r) ==
    /\ pc[r] = "idle"
    /\ Load
    /\ CheckCardURL(served, Config[r].endpoint)
    /\ pc' = [pc EXCEPT ![r] = "fetched"]
    /\ card' = [card EXCEPT ![r] = served]
    /\ UNCHANGED <<msg, acct, said, answer, readAt, atSign, served, chainVars>>

\* No key, or a card that points somewhere else: nothing is read or sent.
FetchRefused(r) ==
    /\ pc[r] = "idle"
    /\ Loaded = NoKey \/ ~CheckCardURL(served, Config[r].endpoint)
    /\ Exit(r, "failed")
    /\ UNCHANGED <<answer, world>>

\* The message is built; with -dry-run the run stops here.
Built(r, m, dry) ==
    /\ IF dry THEN Exit(r, "dry-run")
       ELSE /\ pc' = [pc EXCEPT ![r] = "built"]
            /\ msg' = [msg EXCEPT ![r] = m]
            /\ readAt' = [readAt EXCEPT ![r] = seq]
            /\ UNCHANGED <<card, acct, said, atSign>>
    /\ UNCHANGED <<answer, world>>

\* Not found: a first registration, which needs a price.
NotFound(r, dry) ==
    \/ /\ Config[r].pricing = NoPricing
       /\ Exit(r, "failed")
       /\ UNCHANGED <<answer, world>>
    \/ /\ Config[r].pricing # NoPricing
       /\ Built(r, BuildRegister(Want(r)), dry)

ReadMissing(r, dry) ==
    /\ pc[r] = "fetched" /\ record = NoRecord
    /\ NotFound(r, dry)

\* With -rpc, any failed query whose log has the words "not found" is taken
\* for an agent that is not registered.
Misread(r) == r \in Rpc /\ record # NoRecord /\ seq < MaxOther

\* The chain then refuses the message.
ReadMisled(r, dry) ==
    /\ pc[r] = "fetched" /\ Misread(r)
    /\ NotFound(r, dry)

ReadCurrent(r) ==
    /\ pc[r] = "fetched" /\ record # NoRecord
    /\ Drift(record, Want(r)) = {}
    /\ Exit(r, "current")
    /\ UNCHANGED <<answer, world>>

ReadStale(r, dry) ==
    /\ pc[r] = "fetched" /\ record # NoRecord
    /\ Drift(record, Want(r)) # {}
    /\ Built(r, BuildUpdate(record, Want(r)), dry)

(* Steps of agent-deregister *)

\* A registered agent that is not leaving yet, and -confirm.
HasToLeave(confirm) == record # NoRecord /\ record.status # "deregistering" /\ confirm

\* Nothing registered, or so it seems, already leaving, or only a preview:
\* nothing is sent.
Preview(d, confirm) ==
    /\ pc[d] = "idle" /\ Load
    /\ ~HasToLeave(confirm) \/ Misread(d)
    /\ Exit(d, "preview")
    /\ UNCHANGED <<answer, served, chainVars>>

\* -agent-id, or the record found under it, is of another owner.
LeaveRefused(d) ==
    /\ pc[d] = "idle" /\ Load
    /\ Exit(d, "failed")
    /\ UNCHANGED <<answer, served, chainVars>>

ReadToLeave(d, confirm) ==
    /\ pc[d] = "idle" /\ Load
    /\ HasToLeave(confirm)
    /\ msg' = [msg EXCEPT ![d] = [kind |-> "deregister"]]
    /\ pc' = [pc EXCEPT ![d] = "built"]
    /\ readAt' = [readAt EXCEPT ![d] = seq]
    /\ UNCHANGED <<card, acct, said, answer, atSign, served, chainVars>>

-----------------------------------------------------------------------------
(* What both tools do with a message *)

\* Mutated: transactions still in the mempool are counted.
AccountSequence_Pending == seq + Len(mempool)

\* Query/Account answers from committed state.
AccountSequence == seq

\* The chain knows no account before its first coins; the run ends saying
\* what has to land there.
AccountExists == Loaded \in funded

\* Account, then SignTx: the transaction is good for this sequence only.
Sign(r) ==
    /\ pc[r] = "built" /\ AccountExists
    /\ pc' = [pc EXCEPT ![r] = "signed"]
    /\ acct' = [acct EXCEPT ![r] = AccountSequence]
    /\ atSign' = [atSign EXCEPT ![r] = record]
    /\ UNCHANGED <<card, msg, said, answer, readAt, world>>

\* No key, no account yet, the agent or the chain does not answer, or the
\* deadline of the whole exchange passes.
GiveUp(r) ==
    /\ pc[r] \in {"idle", "fetched", "built", "signed"}
    /\ Exit(r, "failed")
    /\ UNCHANGED <<answer, world>>

NextSequence == seq + Len(mempool)

\* The message, signed for one sequence, and what the run went by (history).
SignTx(r) ==
    [by |-> r, msg |-> msg[r], at |-> acct[r],
     card |-> card[r], read |-> readAt[r], base |-> atSign[r]]

\* CheckTx accepts; the answer may be lost on its way back.
BroadcastAccepted(r) ==
    /\ pc[r] = "signed"
    /\ acct[r] = NextSequence
    /\ mempool' = Append(mempool, SignTx(r))
    /\ answer' = [answer EXCEPT ![r] = "accepted"]
    /\ \E s \in {"submitted", "failed"} : Exit(r, s)
    /\ UNCHANGED <<served, record, seq, keyVars>>

\* What ParseBroadcastError makes of a CheckTx answer: only a fee rejection
\* becomes an error, any other rejection becomes nil.
ParseBroadcastError(log) == IF log = "insufficient fees" THEN "error" ELSE "nil"

\* CheckTx rejects with a non-zero code: the node asks for more than
\* -fee-amount, another transaction took the sequence, or something else.
BroadcastRejected(r) ==
    /\ pc[r] = "signed"
    /\ \E log \in {"insufficient fees", "anything else"} :
          Exit(r, IF ParseBroadcastError(log) = "error" THEN "failed" ELSE "submitted")
    /\ answer' = [answer EXCEPT ![r] = "rejected"]
    /\ UNCHANGED world

\* The operator, or the deploy script, runs the tool again; its last
\* transaction may still be in the mempool, where no query sees it.
Rerun(r) ==
    /\ pc[r] = "done" /\ seq < MaxSeq
    /\ pc' = [pc EXCEPT ![r] = "idle"]
    /\ said' = [said EXCEPT ![r] = "nothing"]
    /\ answer' = [answer EXCEPT ![r] = "none"]
    /\ UNCHANGED <<card, msg, acct, readAt, atSign, world>>

-----------------------------------------------------------------------------
(* The chain, the owner's other tool and the agent's deployment (external) *)

\* The order in which the chain keeps the tags is its own.
Stored(rec) ==
    LET perm == {t \in [1..Len(rec.tags) -> {rec.tags[i] : i \in 1..Len(rec.tags)}] :
                    \E p \in [1..Len(t) -> 1..Len(t)] :
                       /\ \A i, j \in 1..Len(t) : p[i] = p[j] => i = j
                       /\ \A i \in 1..Len(t) : t[i] = rec.tags[p[i]]}
    IN {[rec EXCEPT !.tags = t] : t \in perm}

WithStatus(fields, s) == [f \in DOMAIN fields \cup {"status"} |->
                            IF f = "status" THEN s ELSE fields[f]]

\* The records a message may lead to; the record itself when it is refused.
Applied(m) ==
    CASE m.kind = "register" ->
            IF record = NoRecord THEN Stored(WithStatus(m.fields, "active")) ELSE {record}
      [] m.kind = "update" ->
            IF record = NoRecord THEN {record}
            ELSE Stored(WithStatus(m.fields, record.status))
      [] m.kind = "deregister" ->
            IF record = NoRecord THEN {record}
            ELSE {[record EXCEPT !.status = "deregistering"]}
      [] m.kind = "price" ->
            IF record = NoRecord THEN {record} ELSE {[record EXCEPT !.pricing = m.price]}

Took(m) == IF m.kind = "register" THEN record = NoRecord ELSE record # NoRecord

\* A block includes the first transaction of the mempool.
Commit ==
    /\ mempool # <<>>
    /\ record' \in Applied(Head(mempool).msg)
    /\ seq' = seq + 1
    /\ mempool' = Tail(mempool)
    /\ UNCHANGED <<runVars, served, keyVars>>

\* The mempool forgets its transactions: expiry, a node restart.
Evict ==
    /\ mempool # <<>>
    /\ mempool' = <<>>
    /\ UNCHANGED <<runVars, served, record, seq, keyVars>>

UnbondingCompletes ==
    /\ record # NoRecord /\ record.status = "deregistering"
    /\ record' = NoRecord
    /\ UNCHANGED <<runVars, served, seq, mempool, keyVars>>

\* The owner sets a price with another tool.
OtherPrice(p) ==
    /\ record # NoRecord /\ NextSequence < MaxOther
    /\ mempool' = Append(mempool, [by |-> Other, msg |-> [kind |-> "price", price |-> p]])
    /\ UNCHANGED <<runVars, served, record, seq, keyVars>>

\* The agent is redeployed and serves another card.
Redeploy(c) ==
    /\ seq < MaxOther /\ c # served
    /\ served' = c
    /\ UNCHANGED <<runVars, chainVars, keyVars>>

-----------------------------------------------------------------------------
RegisterStep(r) ==
    \/ Fetch(r) \/ FetchRefused(r) \/ ReadCurrent(r)
    \/ \E dry \in BOOLEAN : ReadMissing(r, dry) \/ ReadMisled(r, dry) \/ ReadStale(r, dry)

DeregisterStep(d) ==
    LeaveRefused(d) \/ \E confirm \in BOOLEAN : Preview(d, confirm) \/ ReadToLeave(d, confirm)

SendStep(r) ==
    Sign(r) \/ GiveUp(r) \/ BroadcastAccepted(r) \/ BroadcastRejected(r) \/ Rerun(r)

Next ==
    \/ \E r \in Registrars : RegisterStep(r)
    \/ \E d \in Deregistrars : DeregisterStep(d)
    \/ \E r \in Runs : SendStep(r)
    \/ Commit \/ Evict \/ UnbondingCompletes
    \/ \E p \in Prices : OtherPrice(p)
    \/ \E c \in Cards : Redeploy(c)
    \/ KeyStep /\ UNCHANGED <<runVars, served, chainVars>>

Spec == Init /\ [][Next]_vars

\* A generation may stop half way, but not always: the operator starts it
\* again and does what the messages ask for.
KeyFairness ==
    /\ WF_keyVars(\E g \in Generators : Begin(g))
    /\ SF_keyVars(\E g \in Generators, k \in Keys : Create(g, k))
    /\ SF_keyVars(\E g \in Generators : Write(g))
    /\ SF_keyVars(\E g \in Generators : Wire(g))
    /\ WF_keyVars(SetAside \/ WireByHand \/ \E k \in Keys : Fund(k))

\* A process goes on, its operator runs it again, not always with -dry-run,
\* blocks are made and neither the mempool nor the deadline nor the fee nor a
\* failing query gets in the way for ever.
FairSpec ==
    /\ Spec
    /\ \A r \in Registrars :
          /\ SF_vars(Fetch(r)) /\ WF_vars(Rerun(r) \/ BroadcastRejected(r))
          /\ SF_vars(ReadMissing(r, FALSE) \/ ReadCurrent(r) \/ ReadStale(r, FALSE))
          /\ SF_vars(Sign(r)) /\ SF_vars(BroadcastAccepted(r))
    /\ SF_vars(Commit)
    /\ KeyFairness

-----------------------------------------------------------------------------
(* Properties *)

\* Type correctness: in particular a committed record always has a price,
\* which the first registration insists on and updates keep
\* (main.go:195-197, register.go:69-72).
TypeOK ==
    /\ pc \in [Runs -> {"idle", "fetched", "built", "signed", "done"}]
    /\ card \in [Runs -> Cards \cup {NoCard}]
    /\ said \in [Runs -> {"nothing", "failed", "dry-run", "current", "preview", "submitted"}]
    /\ answer \in [Runs -> {"none", "accepted", "rejected"}]
    /\ acct \in [Runs -> Nat] /\ readAt \in [Runs -> Nat] /\ seq \in Nat
    /\ served \in Cards /\ KeyTypeOK
    /\ record # NoRecord => /\ record.status \in {"active", "deregistering"}
                            /\ record.pricing # NoPricing
    /\ \A i \in 1..Len(mempool) : mempool[i].by \in Runs \cup {Other}

\* A block applies a transaction of one of these runs.
Applies(runs) ==
    /\ mempool # <<>> /\ Head(mempool).by \in runs
    /\ seq' = seq + 1 /\ Took(Head(mempool).msg)

\* From the moment a run has read the account sequence, no transaction of
\* the owner can slip between it and its own, its own earlier ones that were
\* still in the mempool included: the record it changes is the one of that
\* moment, but for an unbonding the chain completed by itself
\* (client.go:134-151, txsign.go:68-79).
SequenceProtects ==
    [][Applies(Runs) =>
          LET tx == Head(mempool)
          IN record = tx.base \/ (record = NoRecord /\ tx.base.status = "deregistering")]_vars

\* Between reading the record and reading the sequence nothing protects it.
\* But when no owner transaction was committed there, an update without
\* -pricing-amount or -metadata keeps what the chain has (register.go:56-82).
KeepsFieldsUnlessRaced ==
    [][Applies(Registrars) =>
          LET tx == Head(mempool)
          IN tx.msg.kind = "update" /\ tx.read = tx.at =>
                /\ Config[tx.by].pricing = NoPricing => record'.pricing = record.pricing
                /\ Config[tx.by].metadata = NoMetadata => record'.metadata = record.metadata]_vars

\* A transaction that is applied leaves nothing for a rerun to do: the
\* record it produces does not drift from what the run wanted, whatever
\* order the chain keeps the tags in (register.go:64-135).
AppliedLeavesNoDrift ==
    [][Applies(Registrars) =>
          LET tx == Head(mempool) IN Drift(record', Desired(tx.by, tx.card)) = {}]_vars

\* "BroadcastSync submits signed tx bytes and turns a non-zero CheckTx code
\* into an error": a run that reports its transaction as submitted was not
\* rejected (client.go:153-175, errors.go:37-49).
SubmittedWasAccepted == \A r \in Runs : said[r] = "submitted" => answer[r] # "rejected"

\* A key is an identity: whatever is generated, in two shells, half way or
\* again, every address the operator was ever told to fund, or a tool ever
\* registered under, is the one of the key that is still in the file
\* (owner-keygen/main.go:60-75, key.go:59-76, deploy.sh:720-760).
IdentityIsKept == identities \subseteq {keyFile}

\* A fresh run of r would find nothing to do.
Agrees(r) == record # NoRecord /\ Drift(record, Desired(r, served)) = {}

\* Once redeployments stop, generating a key and repeating agent-register
\* bring the record to what is deployed and leave it there, through
\* generations that stop half way, an account without coins, rehearsals,
\* dropped transactions, lost answers, rejections, reruns that do not wait
\* for the last transaction and a price set by the owner's other tool
\* (main.go:140-147, 184-222, 252-266).
Converges ==
    \A c \in Cards : <>[](served = c) =>
        \A r \in Registrars : <>[]Agrees(r)
=============================================================================
