----------------------------- MODULE AuthProofs -----------------------------
(***************************************************************************)
(* The safety of the two authentication stores and of the handlers over    *)
(* them, for every number of concurrent requests, owners, nonces and       *)
(* bearers, and every lifetime.  Everything is proved of SweptSpec, whose  *)
(* behaviours include those of the program, which does not sweep.          *)
(***************************************************************************)
EXTENDS Auth, TLAPS

-----------------------------------------------------------------------------
(* The maps of the stores *)

\* A map of a store keeps its type under both.
LEMMA PartialMaps ==
    ASSUME NEW S, NEW T, NEW f \in Partial(S, T)
    PROVE  /\ DOMAIN f \subseteq S /\ \A x \in DOMAIN f : f[x] \in T
           /\ \A k \in S, v \in T : With(f, k, v) \in Partial(S, T)
           /\ \A k : Without(f, k) \in Partial(S, T)
           /\ \A D \in SUBSET DOMAIN f : [x \in D |-> f[x]] \in Partial(S, T)
<1>1. PICK D \in SUBSET S : f \in [D -> T]
  BY DEF Partial
<1>2. ASSUME NEW k \in S, NEW v \in T
      PROVE  With(f, k, v) \in [D \cup {k} -> T]
  BY <1>1 DEF With
<1>3. ASSUME NEW k
      PROVE  Without(f, k) \in [D \ {k} -> T]
  BY <1>1 DEF Without
<1>4. ASSUME NEW E \in SUBSET D
      PROVE  [x \in E |-> f[x]] \in [E -> T]
  BY <1>1
<1>5. \A E \in SUBSET S : [E -> T] \in {[F -> T] : F \in SUBSET S}
  OBVIOUS
<1>6. \A E \in SUBSET S : [E -> T] \subseteq Partial(S, T)
  BY <1>5 DEF Partial
<1>7. \A k \in S : D \cup {k} \in SUBSET S
  OBVIOUS
<1>8. \A k : D \ {k} \in SUBSET S
  OBVIOUS
<1> QED
  BY <1>1, <1>2, <1>3, <1>4, <1>6, <1>7, <1>8

-----------------------------------------------------------------------------
(* The inductive invariant *)

ArgRecords == [nonce : Nonces \cup {None}, owner : Owners \cup {None},
               signer : Owners \cup {Nobody, None}, exp : Nat,
               bearer : Bearers \cup {None}]

States == {"idle", "issuing", "checking", "minting"}

ArgTypes ==
    /\ arg \in [Handlers -> ArgRecords]
    /\ \A b \in DOMAIN byTenant : byTenant[b].exp \in Nat
    /\ DOMAIN promised \subseteq Nonces \cup Bearers
    /\ \A k \in DOMAIN promised : promised[k] \in Nat

\* A handler of auth_verify that has consumed its nonce.
Holds(h) == pc[h] \in {"checking", "minting"}

\* A nonce is stored once, for the owner who asked for it.
IssuedOnce ==
    /\ DOMAIN issuedTo \subseteq Nonces
    /\ \A n \in DOMAIN entries : n \in DOMAIN issuedTo /\ entries[n].owner = issuedTo[n]
    /\ \A h \in Handlers : pc[h] = "issuing" =>
          /\ arg[h].nonce \in Nonces \ DOMAIN issuedTo
          /\ arg[h].owner \in Owners /\ arg[h].exp \in 0..MaxTime + NonceTTL
    /\ \A g, h \in Handlers :
          pc[g] = "issuing" /\ pc[h] = "issuing" /\ arg[g].nonce = arg[h].nonce => g = h

\* From then on it is in the store, in one handler's hands or in the past of
\* one bearer, and never in two of these places.
NonceInOnePlace ==
    /\ \A h \in Handlers : Holds(h) =>
          /\ arg[h].nonce \in DOMAIN issuedTo \ DOMAIN entries
          /\ arg[h].owner = issuedTo[arg[h].nonce] /\ arg[h].owner \in Owners
          /\ \A b \in DOMAIN mintedFrom : mintedFrom[b].nonce # arg[h].nonce
    /\ \A g, h \in Handlers :
          Holds(g) /\ Holds(h) /\ arg[g].nonce = arg[h].nonce => g = h
    /\ \A b \in DOMAIN mintedFrom : mintedFrom[b].nonce \in DOMAIN issuedTo \ DOMAIN entries

\* A bearer is drawn once, by a handler whose signature was the owner's.
BearerInOnePlace ==
    /\ DOMAIN mintedFrom \subseteq Bearers
    /\ DOMAIN byTenant \subseteq DOMAIN mintedFrom
    /\ \A h \in Handlers : arg[h].bearer # None => pc[h] = "minting"
    /\ \A h \in Handlers : pc[h] = "minting" =>
          arg[h].signer = arg[h].owner /\ arg[h].bearer \in Bearers \ DOMAIN mintedFrom
    /\ \A g, h \in Handlers :
          pc[g] = "minting" /\ pc[h] = "minting" /\ arg[g].bearer = arg[h].bearer => g = h

\* The two maps have the same keys, and a bearer names its own record.
SameKeys == DOMAIN byBearer = DOMAIN byTenant /\ \A b \in DOMAIN byBearer : byBearer[b] = b

\* The stores hold what was promised, with the expiry that was promised.
Kept ==
    \A k \in DOMAIN promised : ~Expired(promised[k]) =>
        IF k \in Bearers THEN k \in DOMAIN byTenant /\ byTenant[k].exp = promised[k]
        ELSE k \in DOMAIN entries /\ entries[k].exp = promised[k]

IInv ==
    /\ TypeOK /\ ArgTypes
    /\ IssuedOnce /\ NonceInOnePlace /\ BearerInOnePlace
    /\ OneBearerPerNonce /\ BearerIsTheSigners
    /\ SameKeys /\ Kept

-----------------------------------------------------------------------------
(* The steps *)

\* What a request carries stays of its type when a step fills some of it in.
LEMMA ArgUpdates ==
    /\ Fresh \in ArgRecords
    /\ \A n \in Nonces, o \in Owners \cup {None}, x \in Nat :
          [Fresh EXCEPT !.nonce = n, !.owner = o, !.exp = x] \in ArgRecords
    /\ \A n \in Nonces, o \in Owners, k \in Owners \cup {Nobody}, x \in Nat :
          [Fresh EXCEPT !.nonce = n, !.owner = o, !.signer = k, !.exp = x] \in ArgRecords
    /\ \A a \in ArgRecords, b \in Bearers, x \in Nat :
          [a EXCEPT !.bearer = b, !.exp = x] \in ArgRecords
<1>1. Fresh \in ArgRecords
  BY DEF Fresh, ArgRecords
<1>2. ASSUME NEW a \in ArgRecords,
             NEW n \in Nonces, NEW o \in Owners \cup {None}, NEW x \in Nat
      PROVE  [a EXCEPT !.nonce = n, !.owner = o, !.exp = x] \in ArgRecords
  BY DEF ArgRecords
<1>3. ASSUME NEW a \in ArgRecords,
             NEW n \in Nonces, NEW o \in Owners, NEW k \in Owners \cup {Nobody}, NEW x \in Nat
      PROVE  [a EXCEPT !.nonce = n, !.owner = o, !.signer = k, !.exp = x] \in ArgRecords
  BY DEF ArgRecords
<1>4. ASSUME NEW a \in ArgRecords, NEW b \in Bearers, NEW x \in Nat
      PROVE  [a EXCEPT !.bearer = b, !.exp = x] \in ArgRecords
  BY DEF ArgRecords
<1> QED
  BY <1>1, <1>2, <1>3, <1>4

\* A request moves alone.
LEMMA GotoMoves ==
    ASSUME TypeOK, ArgTypes, NEW h \in Handlers, NEW p \in States, NEW a \in ArgRecords,
           Goto(h, p, a)
    PROVE  /\ pc' \in [Handlers -> States] /\ arg' \in [Handlers -> ArgRecords]
           /\ pc'[h] = p /\ arg'[h] = a
           /\ \A g \in Handlers \ {h} : pc'[g] = pc[g] /\ arg'[g] = arg[g]
  BY DEF TypeOK, ArgTypes, ArgRecords, States, Goto

LEMMA InitIInv == Init => IInv
<1> SUFFICES ASSUME Init PROVE IInv
  OBVIOUS
<1> USE DEF Init
<1>1. TypeOK
  <2>1. entries \in [{} -> [owner : Owners, exp : 0..MaxTime + NonceTTL]]
    OBVIOUS
  <2>2. entries \in Partial(Nonces, [owner : Owners, exp : 0..MaxTime + NonceTTL])
    BY <2>1 DEF Partial
  <2> QED
    BY <2>2, TtlAssumption DEF TypeOK
<1>2. ArgTypes
  BY ArgUpdates DEF ArgTypes
<1>3. IssuedOnce /\ NonceInOnePlace
  BY DEF IssuedOnce, NonceInOnePlace, Holds
<1>4. BearerInOnePlace
  BY DEF BearerInOnePlace, Fresh
<1>5. OneBearerPerNonce /\ BearerIsTheSigners
  BY DEF OneBearerPerNonce, BearerIsTheSigners
<1>6. SameKeys /\ Kept
  BY DEF SameKeys, Kept
<1> QED
  BY <1>1, <1>2, <1>3, <1>4, <1>5, <1>6 DEF IInv

\* auth_challenge draws a nonce no other request has.
LEMMA IssueDrawStep ==
    ASSUME IInv, NEW h \in Handlers, NEW o \in Owners \cup {None}, NEW n \in Nonces,
           IssueDraw(h, o, n)
    PROVE  IInv'
<1> DEFINE a == [Fresh EXCEPT !.nonce = n, !.owner = o, !.exp = now + NonceTTL]
<1>1. /\ pc[h] = "idle" /\ n \notin Drawn /\ o \in Owners
      /\ Goto(h, "issuing", a)
      /\ UNCHANGED <<now, entries, byBearer, byTenant, attached, issuedTo, mintedFrom, promised>>
  BY DEF IssueDraw, OwnerGiven, stores, history
<1>2. a.nonce = n /\ a.owner = o /\ a.exp = now + NonceTTL /\ a.bearer = None
  BY DEF Fresh
<1>3. now + NonceTTL \in 0..MaxTime + NonceTTL
  BY TtlAssumption DEF IInv, TypeOK
<1>4. a \in ArgRecords
  <2>1. now + NonceTTL \in Nat
    BY <1>3, TtlAssumption
  <2> QED
    BY <2>1, ArgUpdates
<1> HIDE DEF a
<1>5. /\ pc' \in [Handlers -> States] /\ arg' \in [Handlers -> ArgRecords]
      /\ pc'[h] = "issuing" /\ arg'[h] = a
      /\ \A g \in Handlers \ {h} : pc'[g] = pc[g] /\ arg'[g] = arg[g]
  BY <1>1, <1>4, GotoMoves DEF IInv, States
<1>6. TypeOK'
  BY <1>1, <1>5 DEF IInv, TypeOK, States
<1>7. ArgTypes'
  BY <1>1, <1>5 DEF IInv, ArgTypes, ArgRecords
<1>8. IssuedOnce'
  <2>1. n \notin DOMAIN issuedTo
    BY <1>1 DEF Drawn
  <2>2. \A g \in Handlers : pc[g] = "issuing" => arg[g].nonce # n
    BY <1>1 DEF Drawn
  <2> QED
    BY <1>1, <1>2, <1>3, <1>5, <2>1, <2>2 DEF IInv, IssuedOnce
<1>9. NonceInOnePlace'
  BY <1>1, <1>5 DEF IInv, NonceInOnePlace, Holds
<1>10. BearerInOnePlace'
  BY <1>1, <1>2, <1>5 DEF IInv, BearerInOnePlace
<1>11. OneBearerPerNonce' /\ BearerIsTheSigners'
  BY <1>1 DEF IInv, OneBearerPerNonce, BearerIsTheSigners
<1>12. SameKeys' /\ Kept'
  BY <1>1 DEF IInv, SameKeys, Kept, Expired
<1> QED
  BY <1>6, <1>7, <1>8, <1>9, <1>10, <1>11, <1>12 DEF IInv

\* ... and stores it, with the promise that goes with it.
LEMMA IssueStoreStep ==
    ASSUME IInv, NEW h \in Handlers, IssueStore(h)
    PROVE  IInv'
<1> DEFINE n == arg[h].nonce
           e == [owner |-> arg[h].owner, exp |-> arg[h].exp]
<1>1. /\ pc[h] = "issuing"
      /\ entries' = With(entries, n, e)
      /\ issuedTo' = With(issuedTo, n, e.owner)
      /\ promised' = With(promised, n, e.exp)
      /\ Goto(h, "idle", Fresh)
      /\ UNCHANGED <<now, byBearer, byTenant, attached, mintedFrom>>
  BY DEF IssueStore
<1>2. /\ n \in Nonces \ DOMAIN issuedTo /\ n \notin DOMAIN entries
      /\ e \in [owner : Owners, exp : 0..MaxTime + NonceTTL]
      /\ e.owner \in Owners /\ e.exp \in Nat
  BY <1>1, TtlAssumption DEF IInv, IssuedOnce
<1>3. \A g \in Handlers \ {h} : pc[g] = "issuing" => arg[g].nonce # n
  BY <1>1 DEF IInv, IssuedOnce
<1>4. /\ pc' \in [Handlers -> States] /\ arg' \in [Handlers -> ArgRecords]
      /\ pc'[h] = "idle" /\ arg'[h] = Fresh
      /\ \A g \in Handlers \ {h} : pc'[g] = pc[g] /\ arg'[g] = arg[g]
  BY <1>1, ArgUpdates, GotoMoves DEF IInv, States
<1> HIDE DEF n, e
<1>5. /\ DOMAIN entries' = DOMAIN entries \cup {n} /\ entries'[n] = e
      /\ \A x \in DOMAIN entries : entries'[x] = entries[x]
  BY <1>1, <1>2 DEF With
<1>6. /\ DOMAIN issuedTo' = DOMAIN issuedTo \cup {n} /\ issuedTo'[n] = e.owner
      /\ \A x \in DOMAIN issuedTo : issuedTo'[x] = issuedTo[x]
  BY <1>1, <1>2 DEF With
<1>7. /\ DOMAIN promised' = DOMAIN promised \cup {n} /\ promised'[n] = e.exp
      /\ \A x \in DOMAIN promised \ {n} : promised'[x] = promised[x]
  BY <1>1 DEF With
<1>8. TypeOK'
  <2>1. entries' \in Partial(Nonces, [owner : Owners, exp : 0..MaxTime + NonceTTL])
    BY <1>1, <1>2, PartialMaps DEF IInv, TypeOK
  <2> QED
    BY <1>1, <1>4, <2>1 DEF IInv, TypeOK, States
<1>9. ArgTypes'
  BY <1>1, <1>2, <1>4, <1>7 DEF IInv, ArgTypes, ArgRecords
<1>10. IssuedOnce'
  BY <1>2, <1>3, <1>4, <1>5, <1>6 DEF IInv, IssuedOnce
<1>11. NonceInOnePlace'
  BY <1>1, <1>2, <1>4, <1>5, <1>6 DEF IInv, NonceInOnePlace, Holds
<1>12. BearerInOnePlace'
  BY <1>1, <1>4 DEF IInv, BearerInOnePlace, Fresh
<1>13. OneBearerPerNonce'
  BY <1>1 DEF IInv, OneBearerPerNonce
<1>14. BearerIsTheSigners'
  BY <1>1, <1>2, <1>6 DEF IInv, BearerIsTheSigners, BearerInOnePlace, NonceInOnePlace
<1>15. SameKeys'
  BY <1>1 DEF IInv, SameKeys
<1>16. Kept'
  BY <1>1, <1>2, <1>5, <1>7, KeyAssumption DEF IInv, Kept, Expired
<1> QED
  BY <1>8, <1>9, <1>10, <1>11, <1>12, <1>13, <1>14, <1>15, <1>16 DEF IInv

\* auth_verify takes a nonce out of the store, too late ...
LEMMA ConsumeRefusedStep ==
    ASSUME IInv, NEW h \in Handlers, NEW n \in Nonces, ConsumeRefused(h, n)
    PROVE  IInv'
<1>1. /\ DOMAIN entries' = DOMAIN entries \ {n}
      /\ \A x \in DOMAIN entries \ {n} : entries'[x] = entries[x]
      /\ entries' \in Partial(Nonces, [owner : Owners, exp : 0..MaxTime + NonceTTL])
  <2>1. CASE n \in DOMAIN entries
    BY <2>1, PartialMaps DEF IInv, TypeOK, ConsumeRefused, Remaining, Without
  <2>2. CASE n \notin DOMAIN entries
    BY <2>2 DEF IInv, TypeOK, ConsumeRefused
  <2> QED
    BY <2>1, <2>2
<1>2. /\ DOMAIN promised' = DOMAIN promised \ {n}
      /\ \A x \in DOMAIN promised \ {n} : promised'[x] = promised[x]
  BY DEF ConsumeRefused, Without
<1>3. UNCHANGED <<now, byBearer, byTenant, pc, arg, attached, issuedTo, mintedFrom>>
  BY DEF ConsumeRefused
<1>4. TypeOK' /\ ArgTypes'
  BY <1>1, <1>2, <1>3 DEF IInv, TypeOK, ArgTypes
<1>5. IssuedOnce'
  BY <1>1, <1>3 DEF IInv, IssuedOnce
<1>6. NonceInOnePlace' /\ BearerInOnePlace'
  BY <1>1, <1>3 DEF IInv, NonceInOnePlace, BearerInOnePlace, Holds
<1>7. OneBearerPerNonce' /\ BearerIsTheSigners' /\ SameKeys'
  BY <1>3 DEF IInv, OneBearerPerNonce, BearerIsTheSigners, SameKeys
<1>8. Kept'
  BY <1>1, <1>2, <1>3 DEF IInv, Kept, Expired
<1> QED
  BY <1>4, <1>5, <1>6, <1>7, <1>8 DEF IInv

\* ... or in time: from here on the nonce is in this request's hands alone.
LEMMA ConsumeTakenStep ==
    ASSUME IInv, NEW h \in Handlers, NEW n \in Nonces, NEW k \in Owners \cup {Nobody},
           ConsumeTaken(h, n, k)
    PROVE  IInv'
<1> DEFINE a == [Fresh EXCEPT !.nonce = n, !.owner = entries[n].owner,
                              !.signer = k, !.exp = entries[n].exp]
<1>1. /\ pc[h] = "idle" /\ n \in DOMAIN entries
      /\ entries' = Without(entries, n)
      /\ promised' = Without(promised, n)
      /\ Goto(h, "checking", a)
      /\ UNCHANGED <<now, byBearer, byTenant, attached, issuedTo, mintedFrom>>
  BY DEF ConsumeTaken, Remaining
<1>2. entries[n].owner \in Owners /\ entries[n].exp \in Nat
  <2>1. entries \in Partial(Nonces, [owner : Owners, exp : 0..MaxTime + NonceTTL])
    BY DEF IInv, TypeOK
  <2>2. \A x \in DOMAIN entries : entries[x] \in [owner : Owners, exp : 0..MaxTime + NonceTTL]
    BY <2>1 DEF Partial
  <2>3. entries[n] \in [owner : Owners, exp : 0..MaxTime + NonceTTL]
    BY <1>1, <2>2
  <2> QED
    BY <2>3, TtlAssumption
<1>3. a.nonce = n /\ a.owner = entries[n].owner /\ a.bearer = None
  BY DEF Fresh
<1>4. a \in ArgRecords
  BY <1>2, ArgUpdates
<1> HIDE DEF a
<1>5. /\ pc' \in [Handlers -> States] /\ arg' \in [Handlers -> ArgRecords]
      /\ pc'[h] = "checking" /\ arg'[h] = a
      /\ \A g \in Handlers \ {h} : pc'[g] = pc[g] /\ arg'[g] = arg[g]
  BY <1>1, <1>4, GotoMoves DEF IInv, States
<1>6. /\ DOMAIN entries' = DOMAIN entries \ {n}
      /\ \A x \in DOMAIN entries \ {n} : entries'[x] = entries[x]
  BY <1>1 DEF Without
<1>7. /\ DOMAIN promised' = DOMAIN promised \ {n}
      /\ \A x \in DOMAIN promised \ {n} : promised'[x] = promised[x]
  BY <1>1 DEF Without
<1>8. TypeOK'
  <2>1. entries' \in Partial(Nonces, [owner : Owners, exp : 0..MaxTime + NonceTTL])
    BY <1>1, PartialMaps DEF IInv, TypeOK
  <2> QED
    BY <1>1, <1>5, <2>1 DEF IInv, TypeOK, States
<1>9. ArgTypes'
  BY <1>1, <1>5, <1>7 DEF IInv, ArgTypes
<1>10. IssuedOnce'
  BY <1>1, <1>5, <1>6 DEF IInv, IssuedOnce
<1>11. NonceInOnePlace'
  <2>1. \A g \in Handlers : Holds(g) => arg[g].nonce # n
    BY <1>1 DEF IInv, NonceInOnePlace
  <2>2. \A b \in DOMAIN mintedFrom : mintedFrom[b].nonce # n
    BY <1>1 DEF IInv, NonceInOnePlace
  <2>3. n \in DOMAIN issuedTo /\ entries[n].owner = issuedTo[n]
    BY <1>1 DEF IInv, IssuedOnce
  <2> QED
    BY <1>1, <1>2, <1>3, <1>5, <1>6, <2>1, <2>2, <2>3 DEF IInv, NonceInOnePlace, Holds
<1>12. BearerInOnePlace'
  BY <1>1, <1>3, <1>5 DEF IInv, BearerInOnePlace
<1>13. OneBearerPerNonce' /\ BearerIsTheSigners' /\ SameKeys'
  BY <1>1 DEF IInv, OneBearerPerNonce, BearerIsTheSigners, SameKeys
<1>14. Kept'
  BY <1>1, <1>6, <1>7 DEF IInv, Kept, Expired
<1> QED
  BY <1>8, <1>9, <1>10, <1>11, <1>12, <1>13, <1>14 DEF IInv

\* Another signature than the owner's: the nonce is gone, and nothing else is.
LEMMA CheckRefusedStep ==
    ASSUME IInv, NEW h \in Handlers, CheckRefused(h)
    PROVE  IInv'
<1>1. /\ Goto(h, "idle", Fresh)
      /\ UNCHANGED <<now, entries, byBearer, byTenant, attached, issuedTo, mintedFrom, promised>>
  BY DEF CheckRefused, stores, history
<1>2. /\ pc' \in [Handlers -> States] /\ arg' \in [Handlers -> ArgRecords]
      /\ pc'[h] = "idle" /\ arg'[h] = Fresh
      /\ \A g \in Handlers \ {h} : pc'[g] = pc[g] /\ arg'[g] = arg[g]
  BY <1>1, ArgUpdates, GotoMoves DEF IInv, States
<1>3. TypeOK' /\ ArgTypes'
  BY <1>1, <1>2 DEF IInv, TypeOK, ArgTypes, States
<1>4. IssuedOnce'
  BY <1>1, <1>2 DEF IInv, IssuedOnce
<1>5. NonceInOnePlace'
  BY <1>1, <1>2 DEF IInv, NonceInOnePlace, Holds
<1>6. BearerInOnePlace'
  BY <1>1, <1>2 DEF IInv, BearerInOnePlace, Fresh
<1>7. OneBearerPerNonce' /\ BearerIsTheSigners' /\ SameKeys'
  BY <1>1 DEF IInv, OneBearerPerNonce, BearerIsTheSigners, SameKeys
<1>8. Kept'
  BY <1>1 DEF IInv, Kept, Expired
<1> QED
  BY <1>3, <1>4, <1>5, <1>6, <1>7, <1>8 DEF IInv

\* The owner's signature: a bearer no other request has is drawn ...
LEMMA MintDrawStep ==
    ASSUME IInv, NEW h \in Handlers, NEW b \in Bearers, MintDraw(h, b)
    PROVE  IInv'
<1> DEFINE a == [arg[h] EXCEPT !.bearer = b, !.exp = now + BearerTTL]
<1>1. /\ pc[h] = "checking" /\ arg[h].signer = arg[h].owner /\ b \notin DrawnBearers
      /\ Goto(h, "minting", a)
      /\ UNCHANGED <<now, entries, byBearer, byTenant, attached, issuedTo, mintedFrom, promised>>
  BY DEF MintDraw, SignatureMatches, stores, history
<1>2. arg[h] \in ArgRecords
  BY DEF IInv, ArgTypes
<1>3. /\ a.nonce = arg[h].nonce /\ a.owner = arg[h].owner /\ a.signer = arg[h].signer
      /\ a.bearer = b
  BY <1>2 DEF ArgRecords
<1>4. a \in ArgRecords
  <2>1. now + BearerTTL \in Nat
    BY TtlAssumption DEF IInv, TypeOK
  <2> QED
    BY <1>2, <2>1, ArgUpdates
<1> HIDE DEF a
<1>5. /\ pc' \in [Handlers -> States] /\ arg' \in [Handlers -> ArgRecords]
      /\ pc'[h] = "minting" /\ arg'[h] = a
      /\ \A g \in Handlers \ {h} : pc'[g] = pc[g] /\ arg'[g] = arg[g]
  BY <1>1, <1>4, GotoMoves DEF IInv, States
<1>6. TypeOK' /\ ArgTypes'
  BY <1>1, <1>5 DEF IInv, TypeOK, ArgTypes, States
<1>7. IssuedOnce'
  BY <1>1, <1>5 DEF IInv, IssuedOnce
<1>8. NonceInOnePlace'
  BY <1>1, <1>3, <1>5 DEF IInv, NonceInOnePlace, Holds
<1>9. BearerInOnePlace'
  <2>1. b \notin DOMAIN mintedFrom /\ \A g \in Handlers : arg[g].bearer # b
    BY <1>1 DEF DrawnBearers
  <2> QED
    BY <1>1, <1>3, <1>5, <2>1 DEF IInv, BearerInOnePlace
<1>10. OneBearerPerNonce' /\ BearerIsTheSigners' /\ SameKeys'
  BY <1>1 DEF IInv, OneBearerPerNonce, BearerIsTheSigners, SameKeys
<1>11. Kept'
  BY <1>1 DEF IInv, Kept, Expired
<1> QED
  BY <1>6, <1>7, <1>8, <1>9, <1>10, <1>11 DEF IInv

\* ... and stored in both maps, with the promise that goes with it.
LEMMA MintStoreStep ==
    ASSUME IInv, NEW h \in Handlers, MintStore(h)
    PROVE  IInv'
<1> DEFINE b == arg[h].bearer
           n == arg[h].nonce
           t == [tenant |-> b, owner |-> arg[h].owner, exp |-> arg[h].exp]
           m == [nonce |-> n, signer |-> arg[h].signer]
<1>1. /\ pc[h] = "minting"
      /\ byBearer' = With(byBearer, b, b)
      /\ byTenant' = With(byTenant, b, t)
      /\ mintedFrom' = With(mintedFrom, b, m)
      /\ promised' = With(promised, b, t.exp)
      /\ Goto(h, "idle", Fresh)
      /\ UNCHANGED <<now, entries, attached, issuedTo>>
  BY DEF MintStore
<1>2. /\ b \in Bearers \ DOMAIN mintedFrom
      /\ b \notin DOMAIN byBearer /\ b \notin DOMAIN byTenant
      /\ m.signer = t.owner
  BY <1>1 DEF IInv, BearerInOnePlace, SameKeys
<1>3. /\ m.nonce \in DOMAIN issuedTo \ DOMAIN entries
      /\ t.owner = issuedTo[m.nonce] /\ t.owner \in Owners
      /\ \A x \in DOMAIN mintedFrom : mintedFrom[x].nonce # m.nonce
  BY <1>1 DEF IInv, NonceInOnePlace, Holds
<1>4. t.exp \in Nat
  BY DEF IInv, ArgTypes, ArgRecords
<1>5. /\ pc' \in [Handlers -> States] /\ arg' \in [Handlers -> ArgRecords]
      /\ pc'[h] = "idle" /\ arg'[h] = Fresh
      /\ \A g \in Handlers \ {h} : pc'[g] = pc[g] /\ arg'[g] = arg[g]
  BY <1>1, ArgUpdates, GotoMoves DEF IInv, States
<1>6. \A g \in Handlers \ {h} :
         /\ Holds(g) => arg[g].nonce # m.nonce
         /\ pc[g] = "minting" => arg[g].bearer # b
  BY <1>1 DEF IInv, NonceInOnePlace, BearerInOnePlace, Holds
<1> HIDE DEF b, n, t, m
<1>7. /\ DOMAIN byBearer' = DOMAIN byBearer \cup {b} /\ byBearer'[b] = b
      /\ \A x \in DOMAIN byBearer : byBearer'[x] = byBearer[x]
  BY <1>1, <1>2 DEF With
<1>8. /\ DOMAIN byTenant' = DOMAIN byTenant \cup {b} /\ byTenant'[b] = t
      /\ \A x \in DOMAIN byTenant : byTenant'[x] = byTenant[x]
  BY <1>1, <1>2 DEF With
<1>9. /\ DOMAIN mintedFrom' = DOMAIN mintedFrom \cup {b} /\ mintedFrom'[b] = m
      /\ \A x \in DOMAIN mintedFrom : mintedFrom'[x] = mintedFrom[x]
  BY <1>1, <1>2 DEF With
<1>10. /\ DOMAIN promised' = DOMAIN promised \cup {b} /\ promised'[b] = t.exp
       /\ \A x \in DOMAIN promised \ {b} : promised'[x] = promised[x]
  BY <1>1 DEF With
<1>11. TypeOK'
  BY <1>1, <1>2, <1>3, <1>5, <1>7, <1>8 DEF IInv, TypeOK, States
<1>12. ArgTypes'
  BY <1>2, <1>4, <1>5, <1>8, <1>10 DEF IInv, ArgTypes
<1>13. IssuedOnce'
  BY <1>1, <1>5 DEF IInv, IssuedOnce
<1>14. NonceInOnePlace'
  BY <1>1, <1>3, <1>5, <1>6, <1>9 DEF IInv, NonceInOnePlace, Holds
<1>15. BearerInOnePlace'
  BY <1>1, <1>2, <1>5, <1>6, <1>8, <1>9 DEF IInv, BearerInOnePlace, Fresh
<1>16. OneBearerPerNonce'
  BY <1>3, <1>9 DEF IInv, OneBearerPerNonce
<1>17. BearerIsTheSigners'
  BY <1>1, <1>2, <1>3, <1>8, <1>9 DEF IInv, BearerIsTheSigners, BearerInOnePlace
<1>18. SameKeys'
  BY <1>7, <1>8 DEF IInv, SameKeys
<1>19. Kept'
  BY <1>1, <1>2, <1>8, <1>10 DEF IInv, Kept, Expired
<1> QED
  BY <1>11, <1>12, <1>13, <1>14, <1>15, <1>16, <1>17, <1>18, <1>19 DEF IInv

\* An A2A request only looks.
LEMMA AttachStep ==
    ASSUME IInv, UNCHANGED <<now, stores, pc, arg, history>>
    PROVE  IInv'
<1>1. UNCHANGED <<now, entries, byBearer, byTenant, pc, arg, issuedTo, mintedFrom, promised>>
  BY DEF stores, history
<1>2. TypeOK' /\ ArgTypes'
  BY <1>1 DEF IInv, TypeOK, ArgTypes
<1>3. IssuedOnce' /\ NonceInOnePlace' /\ BearerInOnePlace'
  BY <1>1 DEF IInv, IssuedOnce, NonceInOnePlace, BearerInOnePlace, Holds
<1>4. OneBearerPerNonce' /\ BearerIsTheSigners' /\ SameKeys' /\ Kept'
  BY <1>1 DEF IInv, OneBearerPerNonce, BearerIsTheSigners, SameKeys, Kept, Expired
<1> QED
  BY <1>2, <1>3, <1>4 DEF IInv

\* A sweep of the nonces takes none whose time has not come.
LEMMA SweepNoncesStep ==
    ASSUME IInv, SweepNonces
    PROVE  IInv'
<1> DEFINE D == {n \in DOMAIN entries : ~Expired(entries[n].exp)}
<1>1. /\ entries' = [n \in D |-> entries[n]]
      /\ UNCHANGED <<now, byBearer, byTenant, pc, arg, attached, issuedTo, mintedFrom, promised>>
  BY DEF SweepNonces, history
<1>2. entries' \in Partial(Nonces, [owner : Owners, exp : 0..MaxTime + NonceTTL])
  BY <1>1, PartialMaps DEF IInv, TypeOK
<1>3. TypeOK' /\ ArgTypes'
  BY <1>1, <1>2 DEF IInv, TypeOK, ArgTypes
<1>4. IssuedOnce'
  BY <1>1 DEF IInv, IssuedOnce
<1>5. NonceInOnePlace' /\ BearerInOnePlace'
  BY <1>1 DEF IInv, NonceInOnePlace, BearerInOnePlace, Holds
<1>6. OneBearerPerNonce' /\ BearerIsTheSigners' /\ SameKeys'
  BY <1>1 DEF IInv, OneBearerPerNonce, BearerIsTheSigners, SameKeys
<1>7. Kept'
  <2> SUFFICES ASSUME NEW k \in DOMAIN promised, ~Expired(promised[k]), k \notin Bearers
               PROVE  k \in D /\ entries[k].exp = promised[k]
    BY <1>1 DEF IInv, Kept, Expired
  <2> QED
    BY DEF IInv, Kept
<1> QED
  BY <1>3, <1>4, <1>5, <1>6, <1>7 DEF IInv

\* A sweep of the tenants takes a bearer and its record together.
LEMMA SweepTenantsStep ==
    ASSUME IInv, SweepTenants
    PROVE  IInv'
<1> DEFINE gone == {b \in DOMAIN byBearer : Sweepable(b)}
<1>1. /\ byBearer' = [b \in DOMAIN byBearer \ gone |-> byBearer[b]]
      /\ byTenant' = [t \in DOMAIN byTenant \ {byBearer[b] : b \in gone} |-> byTenant[t]]
      /\ UNCHANGED <<now, entries, pc, arg, attached, issuedTo, mintedFrom, promised>>
  BY DEF SweepTenants, KeptBearers, history
<1>2. {byBearer[b] : b \in gone} = gone
  BY DEF IInv, SameKeys
<1>3. /\ DOMAIN byBearer' = DOMAIN byBearer \ gone
      /\ \A b \in DOMAIN byBearer \ gone : byBearer'[b] = byBearer[b]
      /\ DOMAIN byTenant' = DOMAIN byTenant \ gone
      /\ \A b \in DOMAIN byTenant \ gone : byTenant'[b] = byTenant[b]
  BY <1>1, <1>2
<1>4. \A k \in DOMAIN promised \cap Bearers : ~Expired(promised[k]) => k \notin gone
  BY DEF IInv, Kept, SameKeys, Sweepable
<1> HIDE DEF gone
<1>5. TypeOK' /\ ArgTypes'
  BY <1>1, <1>3 DEF IInv, TypeOK, ArgTypes
<1>6. IssuedOnce' /\ NonceInOnePlace' /\ BearerInOnePlace'
  BY <1>1, <1>3 DEF IInv, IssuedOnce, NonceInOnePlace, BearerInOnePlace, Holds
<1>7. OneBearerPerNonce' /\ BearerIsTheSigners'
  BY <1>1, <1>3 DEF IInv, OneBearerPerNonce, BearerIsTheSigners
<1>8. SameKeys'
  BY <1>3 DEF IInv, SameKeys
<1>9. Kept'
  BY <1>1, <1>3, <1>4 DEF IInv, Kept, Expired
<1> QED
  BY <1>5, <1>6, <1>7, <1>8, <1>9 DEF IInv

\* What has expired stays expired.
LEMMA TickStep ==
    ASSUME IInv, Tick
    PROVE  IInv'
<1>1. /\ now < MaxTime /\ now' = now + 1
      /\ UNCHANGED <<entries, byBearer, byTenant, pc, arg, issuedTo, mintedFrom, promised>>
  BY DEF Tick, stores, history
<1>2. now \in Nat /\ now' \in 0..MaxTime
  BY <1>1, TtlAssumption DEF IInv, TypeOK
<1>3. TypeOK' /\ ArgTypes'
  BY <1>1, <1>2 DEF IInv, TypeOK, ArgTypes
<1>4. IssuedOnce' /\ NonceInOnePlace' /\ BearerInOnePlace'
  BY <1>1 DEF IInv, IssuedOnce, NonceInOnePlace, BearerInOnePlace, Holds
<1>5. OneBearerPerNonce' /\ BearerIsTheSigners' /\ SameKeys'
  BY <1>1 DEF IInv, OneBearerPerNonce, BearerIsTheSigners, SameKeys
<1>6. Kept'
  <2>1. \A k \in DOMAIN promised : ~(now + 1 >= promised[k]) => ~Expired(promised[k])
    BY <1>2 DEF IInv, ArgTypes, Expired
  <2> QED
    BY <1>1, <2>1 DEF IInv, Kept, Expired
<1> QED
  BY <1>3, <1>4, <1>5, <1>6 DEF IInv

\* A restart empties both stores and every promise with them; what was
\* issued and minted before it stays used up.
LEMMA RestartStep ==
    ASSUME IInv, Restart
    PROVE  IInv'
<1>1. /\ entries' = [n \in {} |-> None]
      /\ byBearer' = [b \in {} |-> None] /\ byTenant' = [b \in {} |-> None]
      /\ pc' = [h \in Handlers |-> "idle"] /\ arg' = [h \in Handlers |-> Fresh]
      /\ promised' = [k \in {} |-> 0]
      /\ UNCHANGED <<now, issuedTo, mintedFrom>>
  BY DEF Restart
<1>2. TypeOK'
  <2>1. entries' \in [{} -> [owner : Owners, exp : 0..MaxTime + NonceTTL]]
    BY <1>1
  <2>2. entries' \in Partial(Nonces, [owner : Owners, exp : 0..MaxTime + NonceTTL])
    BY <2>1 DEF Partial
  <2> QED
    BY <1>1, <2>2 DEF IInv, TypeOK
<1>3. ArgTypes'
  BY <1>1, ArgUpdates DEF ArgTypes
<1>4. IssuedOnce'
  BY <1>1 DEF IInv, IssuedOnce
<1>5. NonceInOnePlace' /\ BearerInOnePlace'
  BY <1>1 DEF IInv, NonceInOnePlace, BearerInOnePlace, Holds, Fresh
<1>6. OneBearerPerNonce' /\ BearerIsTheSigners'
  BY <1>1 DEF IInv, OneBearerPerNonce, BearerIsTheSigners
<1>7. SameKeys' /\ Kept'
  BY <1>1 DEF SameKeys, Kept
<1> QED
  BY <1>2, <1>3, <1>4, <1>5, <1>6, <1>7 DEF IInv

-----------------------------------------------------------------------------
(* The specification *)

LEMMA Invariant == SweptSpec => []IInv
<1>1. Init => IInv
  BY InitIInv
<1>2. IInv /\ [SweptNext]_vars => IInv'
  <2> SUFFICES ASSUME IInv, [SweptNext]_vars PROVE IInv'
    OBVIOUS
  <2>1. ASSUME NEW h \in Handlers, Request(h)
        PROVE  IInv'
    <3>1. CASE \E o \in Owners \cup {None}, n \in Nonces : IssueDraw(h, o, n)
      BY <3>1, IssueDrawStep
    <3>2. CASE \E n \in Nonces : ConsumeRefused(h, n)
      BY <3>2, ConsumeRefusedStep
    <3>3. CASE \E n \in Nonces, k \in Owners \cup {Nobody} : ConsumeTaken(h, n, k)
      BY <3>3, ConsumeTakenStep
    <3>4. CASE \E header, envelope \in Bearers \cup {None} : Attach(h, header, envelope)
      <4>1. UNCHANGED <<now, stores, pc, arg, history>>
        BY <3>4 DEF Attach
      <4> QED
        BY <4>1, AttachStep
    <3> QED
      BY <2>1, <3>1, <3>2, <3>3, <3>4 DEF Request
  <2>2. ASSUME NEW h \in Handlers, Continue(h)
        PROVE  IInv'
    <3>1. CASE IssueStore(h)
      BY <3>1, IssueStoreStep
    <3>2. CASE CheckRefused(h)
      BY <3>2, CheckRefusedStep
    <3>3. CASE MintStore(h)
      BY <3>3, MintStoreStep
    <3>4. CASE Respond(h)
      <4>1. UNCHANGED <<now, stores, pc, arg, history>>
        BY <3>4 DEF Respond
      <4> QED
        BY <4>1, AttachStep
    <3>5. CASE \E b \in Bearers : MintDraw(h, b)
      BY <3>5, MintDrawStep
    <3> QED
      BY <2>2, <3>1, <3>2, <3>3, <3>4, <3>5 DEF Continue
  <2>3. CASE Tick
    BY <2>3, TickStep
  <2>4. CASE Restart
    BY <2>4, RestartStep
  <2>5. CASE SweepNonces
    BY <2>5, SweepNoncesStep
  <2>6. CASE SweepTenants
    BY <2>6, SweepTenantsStep
  <2>7. CASE UNCHANGED vars
    <3>1. UNCHANGED <<now, stores, pc, arg, history>>
      BY <2>7 DEF vars
    <3> QED
      BY <3>1, AttachStep
  <2> QED
    BY <2>1, <2>2, <2>3, <2>4, <2>5, <2>6, <2>7 DEF SweptNext, Next
<1> QED
  BY <1>1, <1>2, PTL DEF SweptSpec

\* Type correctness: every nonce and tenant in the stores has an owner
\* (nonce_store.go:64-66, dynamic_tenants.go:69-71).
THEOREM TypeCorrect == SweptSpec => []TypeOK
<1>1. IInv => TypeOK
  BY DEF IInv
<1> QED
  BY <1>1, Invariant, PTL

\* However many verifications of a nonce run at once, and whatever restarts
\* come between, it makes one bearer: Consume deletes it under the lock
\* before the signature is looked at (nonce_store.go:87-99).
THEOREM NonceMakesOneBearer == SweptSpec => []OneBearerPerNonce
<1>1. IInv => OneBearerPerNonce
  BY DEF IInv
<1> QED
  BY <1>1, Invariant, PTL

\* A bearer works for the address its nonce was issued to, and only if that
\* address signed for it (service.go:92-119).
THEOREM BearerSigned == SweptSpec => []BearerIsTheSigners
<1>1. IInv => BearerIsTheSigners
  BY DEF IInv
<1> QED
  BY <1>1, Invariant, PTL

\* Mints and sweeps keep the two maps of the tenant store in agreement
\* (dynamic_tenants.go:62-126).
THEOREM MapsStayTogether == SweptSpec => []MapsAgree
<1>1. IInv => MapsAgree
  BY DEF IInv, SameKeys, MapsAgree
<1> QED
  BY <1>1, Invariant, PTL

\* A nonce or bearer is good until the expiry its caller was told: neither a
\* sweep nor another request takes it sooner (nonce_store.go:87-113,
\* dynamic_tenants.go:95-126).
THEOREM HonouredUntilExpiry == SweptSpec => []HonoursUntilExpiry
<1>1. IInv => HonoursUntilExpiry
  <2> SUFFICES ASSUME IInv, NEW k \in DOMAIN promised, ~Expired(promised[k])
               PROVE  IF k \in Bearers THEN LookupFinds(k)
                      ELSE k \in DOMAIN entries /\ ~Expired(entries[k].exp)
    BY DEF HonoursUntilExpiry
  <2>1. CASE k \in Bearers
    BY <2>1 DEF IInv, Kept, SameKeys, LookupFinds
  <2>2. CASE k \notin Bearers
    BY <2>2 DEF IInv, Kept
  <2> QED
    BY <2>1, <2>2
<1> QED
  BY <1>1, Invariant, PTL

=============================================================================
