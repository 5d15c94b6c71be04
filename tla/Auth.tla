-------------------------------- MODULE Auth --------------------------------
(***************************************************************************)
(* Self-service authentication: internal/mcp/auth's two in-memory stores   *)
(* and the handlers over them, agenttools.AuthChallenge and AuthVerify,    *)
(* and a2aserver's AuthResolver.Attach.  Each store has its own mutex, and *)
(* a handler takes them one after the other, so a verification is several  *)
(* steps: the expiry is computed before the lock, the nonce is consumed,   *)
(* the signature is checked, the bearer is stored.                         *)
(*                                                                         *)
(* Time is a counter bounded by MaxTime.  A signature is the key that made *)
(* it and the challenge it was made over; recovering an address from it    *)
(* over another challenge gives an address that is nobody's.               *)
(***************************************************************************)
EXTENDS Naturals, FiniteSets

CONSTANTS Handlers,     \* concurrent requests
          Owners,       \* the addresses that sign
          Nobody,       \* an address no owner has
          Nonces,       \* the nonces rand.Read may produce, each once
          Bearers,      \* the bearers and tenant ids, each once
          None,
          NonceTTL, BearerTTL, MaxTime

ASSUME TtlAssumption == NonceTTL \in Nat \ {0} /\ BearerTTL \in Nat \ {0} /\ MaxTime \in Nat
\* promised has nonces and bearers for its keys: it tells them apart.
ASSUME KeyAssumption == Nonces \cap Bearers = {}
ASSUME NobodyAssumption == Nobody \notin Owners /\ None \notin Owners \cup Nonces \cup Bearers

VARIABLES now,          \* the clock
          entries,      \* NonceStore.entries: issued nonces
          byBearer,     \* DynamicTenantStore.byBearer
          byTenant,     \* DynamicTenantStore.byTenant
          pc,           \* what each request is doing
          arg,          \* its nonce, owner, signature and computed expiry
          attached,     \* the tenant an A2A request runs as
          issuedTo,     \* the owner each nonce was issued for (history)
          mintedFrom,   \* the nonce and signer each bearer came from (history)
          promised      \* the expiry this process gave with each bearer, and
                        \* with each nonce not presented since (history)

stores == <<entries, byBearer, byTenant>>
history == <<issuedTo, mintedFrom, promised>>
vars == <<now, stores, pc, arg, attached, history>>

Fresh == [nonce |-> None, owner |-> None, signer |-> None, exp |-> 0, bearer |-> None]

\* A tenant id is drawn together with its bearer; naming it by the bearer
\* keeps the two maps apart and their keys distinct.
Tenant == [tenant : Bearers, owner : Owners, exp : Nat]
Entry  == [owner : Owners, exp : Nat]

Partial(S, T) == UNION {[D -> T] : D \in SUBSET S}
Without(f, k) == [x \in DOMAIN f \ {k} |-> f[x]]
With(f, k, v) == [x \in DOMAIN f \cup {k} |-> IF x = k THEN v ELSE f[x]]

\* !now.Before(expiresAt)
Expired(exp) == now >= exp

Init ==
    /\ now = 0
    /\ entries = [n \in {} |-> None]
    /\ byBearer = [b \in {} |-> None] /\ byTenant = [b \in {} |-> None]
    /\ pc = [h \in Handlers |-> "idle"]
    /\ arg = [h \in Handlers |-> Fresh]
    /\ attached = [h \in Handlers |-> None]
    /\ issuedTo = [n \in {} |-> None] /\ mintedFrom = [b \in {} |-> None]
    /\ promised = [k \in {} |-> 0]

Goto(h, p, a) ==
    /\ pc' = [pc EXCEPT ![h] = p]
    /\ arg' = [arg EXCEPT ![h] = a]

Drawn == DOMAIN issuedTo \cup {arg[h].nonce : h \in {g \in Handlers : pc[g] = "issuing"}}
DrawnBearers == DOMAIN mintedFrom \cup {arg[h].bearer : h \in Handlers}

-----------------------------------------------------------------------------
(* auth_challenge *)

\* Mutated: the request need not name an owner.
OwnerGiven_NotAsked(o) == TRUE

\* AuthChallenge, and Issue again, refuse an empty owner.
OwnerGiven(o) == o # None

\* NonceStore.Issue draws a nonce and computes its expiry before the lock.
IssueDraw(h, o, n) ==
    /\ pc[h] = "idle" /\ n \notin Drawn
    /\ OwnerGiven(o)
    /\ Goto(h, "issuing", [Fresh EXCEPT !.nonce = n, !.owner = o, !.exp = now + NonceTTL])
    /\ UNCHANGED <<now, stores, attached, history>>

IssueStore(h) ==
    /\ pc[h] = "issuing"
    /\ entries' = With(entries, arg[h].nonce, [owner |-> arg[h].owner, exp |-> arg[h].exp])
    /\ issuedTo' = With(issuedTo, arg[h].nonce, arg[h].owner)
    /\ promised' = With(promised, arg[h].nonce, arg[h].exp)
    /\ Goto(h, "idle", Fresh)
    /\ UNCHANGED <<now, byBearer, byTenant, attached, mintedFrom>>

(* auth_verify *)

\* Mutated: an accepted nonce stays.
Remaining_Kept(n) == IF Expired(entries[n].exp) THEN Without(entries, n) ELSE entries

\* Consume deletes the nonce, expired or not.
Remaining(n) == Without(entries, n)

\* A nonce that is not there, or is too old: the request ends.
ConsumeRefused(h, n) ==
    /\ pc[h] = "idle"
    /\ n \in DOMAIN entries => Expired(entries[n].exp)
    /\ entries' = IF n \in DOMAIN entries THEN Remaining(n) ELSE entries
    /\ promised' = Without(promised, n)
    /\ UNCHANGED <<now, byBearer, byTenant, pc, arg, attached, issuedTo, mintedFrom>>

\* The nonce is taken; the signature k made is about to be checked.
ConsumeTaken(h, n, k) ==
    /\ pc[h] = "idle"
    /\ n \in DOMAIN entries /\ ~Expired(entries[n].exp)
    /\ entries' = Remaining(n)
    /\ Goto(h, "checking", [Fresh EXCEPT !.nonce = n, !.owner = entries[n].owner,
                                         !.signer = k, !.exp = entries[n].exp])
    /\ promised' = Without(promised, n)
    /\ UNCHANGED <<now, byBearer, byTenant, attached, issuedTo, mintedFrom>>

\* Mutated: the recovered address is not compared.
SignatureMatches_AnySigner(h) == arg[h].signer # Nobody

\* The address RecoverOwner finds is the owner the nonce was issued to.
SignatureMatches(h) == arg[h].signer = arg[h].owner

\* The signature is not the owner's: the nonce is burnt all the same.
CheckRefused(h) ==
    /\ pc[h] = "checking" /\ ~SignatureMatches(h)
    /\ Goto(h, "idle", Fresh)
    /\ UNCHANGED <<now, stores, attached, history>>

\* Mint draws bearer and tenant id and computes the expiry before the lock.
MintDraw(h, b) ==
    /\ pc[h] = "checking" /\ SignatureMatches(h)
    /\ b \notin DrawnBearers
    /\ Goto(h, "minting", [arg[h] EXCEPT !.bearer = b, !.exp = now + BearerTTL])
    /\ UNCHANGED <<now, stores, attached, history>>

MintStore(h) ==
    /\ pc[h] = "minting"
    /\ LET b == arg[h].bearer
       IN /\ byBearer' = With(byBearer, b, b)
          /\ byTenant' = With(byTenant, b, [tenant |-> b, owner |-> arg[h].owner, exp |-> arg[h].exp])
          /\ mintedFrom' = With(mintedFrom, b, [nonce |-> arg[h].nonce, signer |-> arg[h].signer])
          /\ promised' = With(promised, b, arg[h].exp)
    /\ Goto(h, "idle", Fresh)
    /\ UNCHANGED <<now, entries, attached, issuedTo>>

-----------------------------------------------------------------------------
(* LookupByBearer and Attach *)

LookupFinds(b) ==
    /\ b \in DOMAIN byBearer /\ byBearer[b] \in DOMAIN byTenant
    /\ ~Expired(byTenant[byBearer[b]].exp)

\* The Authorization header wins over the envelope field.
Presented(header, envelope) == IF header = None THEN envelope ELSE header

\* An A2A request starts; an unknown or expired bearer leaves it anonymous.
Attach(h, header, envelope) ==
    LET b == Presented(header, envelope)
    IN /\ pc[h] = "idle" /\ attached[h] = None
       /\ b # None /\ LookupFinds(b)
       /\ attached' = [attached EXCEPT ![h] = [by |-> header, tenant |-> byTenant[byBearer[b]]]]
       /\ UNCHANGED <<now, stores, pc, arg, history>>

Respond(h) ==
    /\ attached[h] # None
    /\ attached' = [attached EXCEPT ![h] = None]
    /\ UNCHANGED <<now, stores, pc, arg, history>>

-----------------------------------------------------------------------------
(* The sweeps, the clock, the process *)

\* Nothing in the program calls the two sweeps; they are methods of the
\* stores and part of what the stores must survive.
SweepNonces ==
    /\ entries' = [n \in {m \in DOMAIN entries : ~Expired(entries[m].exp)} |-> entries[n]]
    /\ UNCHANGED <<now, byBearer, byTenant, pc, arg, attached, history>>

\* Mutated: the sweep drops records about to expire as well.
Sweepable_Early(b) == byTenant[byBearer[b]].exp <= now + 1

Sweepable(b) == byBearer[b] \notin DOMAIN byTenant \/ Expired(byTenant[byBearer[b]].exp)

\* Mutated: only the record goes, the bearer that names it stays.
KeptBearers_All(gone) == DOMAIN byBearer

KeptBearers(gone) == DOMAIN byBearer \ gone

SweepTenants ==
    LET gone == {b \in DOMAIN byBearer : Sweepable(b)}
    IN /\ byBearer' = [b \in KeptBearers(gone) |-> byBearer[b]]
       /\ byTenant' = [t \in DOMAIN byTenant \ {byBearer[b] : b \in gone} |-> byTenant[t]]
       /\ UNCHANGED <<now, entries, pc, arg, attached, history>>

Tick ==
    /\ now < MaxTime
    /\ now' = now + 1
    /\ UNCHANGED <<stores, pc, arg, attached, history>>

\* The stores are in memory only: a restart forgets every nonce and bearer.
Restart ==
    /\ entries' = [n \in {} |-> None]
    /\ byBearer' = [b \in {} |-> None] /\ byTenant' = [b \in {} |-> None]
    /\ pc' = [h \in Handlers |-> "idle"] /\ arg' = [h \in Handlers |-> Fresh]
    /\ attached' = [h \in Handlers |-> None]
    /\ promised' = [k \in {} |-> 0]
    /\ UNCHANGED <<now, issuedTo, mintedFrom>>

-----------------------------------------------------------------------------
Request(h) ==
    \/ \E o \in Owners \cup {None}, n \in Nonces : IssueDraw(h, o, n)
    \/ \E n \in Nonces : ConsumeRefused(h, n)
    \/ \E n \in Nonces, k \in Owners \cup {Nobody} : ConsumeTaken(h, n, k)
    \/ \E header, envelope \in Bearers \cup {None} : Attach(h, header, envelope)

Continue(h) ==
    \/ IssueStore(h) \/ CheckRefused(h) \/ MintStore(h) \/ Respond(h)
    \/ \E b \in Bearers : MintDraw(h, b)

\* The program: nothing sweeps.
Next ==
    \/ \E h \in Handlers : Request(h) \/ Continue(h)
    \/ Tick \/ Restart

Spec == Init /\ [][Next]_vars

\* The program with its stores swept, as the tests do.
SweptNext == Next \/ SweepNonces \/ SweepTenants
SweptSpec == Init /\ [][SweptNext]_vars

-----------------------------------------------------------------------------
(* Properties *)

\* Type correctness: in particular every nonce and tenant has an owner
\* (nonce_store.go:64-66, dynamic_tenants.go:69-71).
TypeOK ==
    /\ now \in 0..MaxTime
    /\ entries \in Partial(Nonces, [owner : Owners, exp : 0..MaxTime + NonceTTL])
    /\ \A b \in DOMAIN byTenant : byTenant[b].owner \in Owners
    /\ pc \in [Handlers -> {"idle", "issuing", "checking", "minting"}]
    /\ DOMAIN byBearer \subseteq Bearers /\ DOMAIN byTenant \subseteq Bearers

\* A nonce makes at most one bearer, whatever verifications of it run at
\* the same time and across restarts (nonce_store.go:87-99).
OneBearerPerNonce ==
    \A a, b \in DOMAIN mintedFrom : mintedFrom[a].nonce = mintedFrom[b].nonce => a = b

\* A bearer belongs to the owner its nonce was issued to, and that owner
\* signed for it (service.go:92-119).
BearerIsTheSigners ==
    \A b \in DOMAIN byTenant :
        /\ mintedFrom[b].signer = byTenant[b].owner
        /\ issuedTo[mintedFrom[b].nonce] = byTenant[b].owner

\* The two maps name the same tenants, sweeps and mints included, so a
\* lookup never misses a record its bearer still names
\* (dynamic_tenants.go:62-126).
MapsAgree ==
    /\ DOMAIN byTenant = {byBearer[b] : b \in DOMAIN byBearer}
    /\ \A a, b \in DOMAIN byBearer : byBearer[a] = byBearer[b] => a = b

\* What a caller was told lasts until its expiry does: whatever is issued,
\* minted, presented and swept meanwhile, its bearer is found, and its nonce
\* is there to be presented (nonce_store.go:87-113, dynamic_tenants.go:95-126).
HonoursUntilExpiry ==
    \A k \in DOMAIN promised : ~Expired(promised[k]) =>
        IF k \in Bearers THEN LookupFinds(k)
        ELSE k \in DOMAIN entries /\ ~Expired(entries[k].exp)

=============================================================================
