------------------------- MODULE RegistrationProofs -------------------------
(***************************************************************************)
(* The safety of the owner's tools, for every set of runs, configurations, *)
(* cards, keys and prices: the owner key is one identity, a sequence that  *)
(* was signed for protects what the run read with it, and an applied       *)
(* message leaves the record as the run wanted it.                         *)
(***************************************************************************)
EXTENDS Registration, FiniteSetTheorems, SequenceTheorems, TLAPS

-----------------------------------------------------------------------------
(* The owner key *)

\* Whoever created the file is alone with it until its key is in it.
WriterAlone ==
    /\ \A g \in Generators :
          /\ gen[g].at \in {"writing", "wiring"} => gen[g].key \in Keys
          /\ gen[g].at = "writing" => keyFile = Empty
          /\ gen[g].at = "wiring" => keyFile = gen[g].key
    /\ \A g, h \in Generators : gen[g].at = "writing" /\ gen[h].at = "writing" => g = h

KeyInv == KeyTypeOK /\ WriterAlone /\ IdentityIsKept

LEMMA KeyInitInv == KeyInit => KeyInv
<1> SUFFICES ASSUME KeyInit PROVE KeyInv
  OBVIOUS
<1>1. \A g \in Generators : gen[g] = Resting /\ Resting.at = "idle"
  BY DEF KeyInit, Resting
<1>2. KeyTypeOK
  <2>1. Resting \in [at : {"idle", "minting", "writing", "wiring"}, key : Keys \cup {NoKey}]
    BY DEF Resting
  <2> QED
    BY <2>1, KeyAssumption DEF KeyInit, KeyTypeOK
<1>3. WriterAlone /\ IdentityIsKept
  BY <1>1 DEF KeyInit, WriterAlone, IdentityIsKept
<1> QED
  BY <1>2, <1>3 DEF KeyInv

\* A tool acts for the key in the file.
LEMMA LoadKeeps ==
    ASSUME KeyInv, Load
    PROVE  KeyInv'
  BY KeyAssumption DEF KeyInv, KeyTypeOK, WriterAlone, IdentityIsKept, Load, Loaded

LEMMA KeyFrame ==
    ASSUME KeyInv, UNCHANGED keyVars
    PROVE  KeyInv'
  BY DEF KeyInv, KeyTypeOK, WriterAlone, IdentityIsKept, keyVars

LEMMA KeyStepKeeps ==
    ASSUME KeyInv, KeyStep
    PROVE  KeyInv'
<1> USE KeyAssumption DEF KeyInv, KeyTypeOK, WriterAlone, IdentityIsKept, GenStep
<1>1. ASSUME NEW g \in Generators, Begin(g)
      PROVE  KeyInv'
  BY <1>1 DEF Begin
<1>2. ASSUME NEW g \in Generators, NEW k \in Keys, Create(g, k)
      PROVE  KeyInv'
  BY <1>2 DEF Create, MayCreate
<1>3. ASSUME NEW g \in Generators, Write(g)
      PROVE  KeyInv'
  BY <1>3 DEF Write
<1>4. ASSUME NEW g \in Generators, Wire(g)
      PROVE  KeyInv'
  BY <1>4 DEF Wire
<1>5. ASSUME NEW g \in Generators, GenerationEnds(g)
      PROVE  KeyInv'
  BY <1>5 DEF GenerationEnds
<1>6. CASE SetAside
  BY <1>6 DEF SetAside, Quiet
<1>7. CASE WireByHand
  BY <1>7 DEF WireByHand
<1>8. ASSUME NEW k \in Keys, Fund(k)
      PROVE  KeyInv'
  BY <1>8 DEF Fund
<1> QED
  BY <1>1, <1>2, <1>3, <1>4, <1>5, <1>6, <1>7, <1>8 DEF KeyStep, Generation

-----------------------------------------------------------------------------
(* Tags in another order *)

\* The indexes 1..n in another order.
Reordering(p, n) ==
    p \in [1..n -> 1..n] /\ \A i, j \in 1..n : p[i] = p[j] => i = j

\* Every order can be undone.
LEMMA ReorderingBack ==
    ASSUME NEW n \in Nat, NEW p, Reordering(p, n)
    PROVE  \E q : Reordering(q, n) /\ \A i \in 1..n : p[q[i]] = i
<1>1. p \in Injection(1..n, 1..n)
  BY DEF Reordering, Injection, IsInjective
<1>2. IsFiniteSet(1..n)
  BY FS_Interval
<1>3. p \in Surjection(1..n, 1..n)
  BY <1>1, <1>2, FS_Injection
<1>4. \A i \in 1..n : \E j \in 1..n : p[j] = i
  BY <1>3 DEF Surjection
<1> DEFINE q == [i \in 1..n |-> CHOOSE j \in 1..n : p[j] = i]
<1>5. \A i \in 1..n : q[i] \in 1..n /\ p[q[i]] = i
  BY <1>4
<1>6. Reordering(q, n)
  BY <1>5 DEF Reordering
<1> QED
  BY <1>5, <1>6

\* sameSet forgets the order.
LEMMA Reordered ==
    ASSUME NEW n \in Nat, NEW w, NEW t, Len(w) = n, Len(t) = n,
           NEW p, Reordering(p, n), \A i \in 1..n : t[i] = w[p[i]]
    PROVE  sameSet(t, w)
<1>1. PICK q : Reordering(q, n) /\ \A i \in 1..n : p[q[i]] = i
  BY ReorderingBack
<1>2. q \in [1..n -> 1..n] /\ \A i, j \in 1..n : q[i] = q[j] => i = j
  BY <1>1 DEF Reordering
<1>3. \A i \in 1..n : w[i] = t[q[i]]
  BY <1>1, <1>2
<1>4. \E order \in [1..Len(t) -> 1..Len(t)] :
         /\ \A i, j \in 1..Len(t) : order[i] = order[j] => i = j
         /\ \A i \in 1..Len(t) : w[i] = t[order[i]]
  <2>1. q \in [1..Len(t) -> 1..Len(t)]
    BY <1>2
  <2>2. WITNESS q \in [1..Len(t) -> 1..Len(t)]
  <2> QED
    BY <1>2, <1>3
<1> QED
  BY <1>4 DEF sameSet

\* What the chain stores has the tags it was sent, in its order.
LEMMA StoredTags ==
    ASSUME NEW rec, NEW s \in Stored(rec), "tags" \in DOMAIN rec, rec.tags \in Seq(STRING)
    PROVE  /\ DOMAIN s = DOMAIN rec
           /\ \A f \in DOMAIN rec \ {"tags"} : s[f] = rec[f]
           /\ s.tags \in Seq(STRING) /\ sameSet(s.tags, rec.tags)
<1> DEFINE w == rec.tags
           n == Len(w)
<1>1. n \in Nat /\ DOMAIN w = 1..n
  OBVIOUS
<1>2. PICK t \in [1..n -> {w[i] : i \in 1..n}] :
          /\ \E p \in [1..Len(t) -> 1..Len(t)] :
                /\ \A i, j \in 1..Len(t) : p[i] = p[j] => i = j
                /\ \A i \in 1..Len(t) : t[i] = w[p[i]]
          /\ s = [rec EXCEPT !.tags = t]
  BY DEF Stored
<1>3. t \in Seq(STRING) /\ Len(t) = n
  <2>1. \A i \in 1..n : t[i] \in STRING
    OBVIOUS
  <2>2. t = [i \in 1..n |-> t[i]]
    OBVIOUS
  <2> QED
    BY <1>1, <2>1, <2>2, IsASeq
<1>4. PICK p : Reordering(p, n) /\ \A i \in 1..n : t[i] = w[p[i]]
  <2>1. PICK p \in [1..Len(t) -> 1..Len(t)] :
           /\ \A i, j \in 1..Len(t) : p[i] = p[j] => i = j
           /\ \A i \in 1..Len(t) : t[i] = w[p[i]]
    BY <1>2
  <2>2. Reordering(p, n) /\ \A i \in 1..n : t[i] = w[p[i]]
    BY <1>3, <2>1 DEF Reordering
  <2> HIDE DEF n
  <2> QED
    BY <2>2
<1>7. sameSet(t, w)
  BY <1>1, <1>3, <1>4, Reordered
<1>8. s.tags = t /\ DOMAIN s = DOMAIN rec /\ \A f \in DOMAIN rec \ {"tags"} : s[f] = rec[f]
  BY <1>2
<1> QED
  BY <1>3, <1>7, <1>8

-----------------------------------------------------------------------------
(* Records, messages and transactions *)

Metadatas == {Config[r].metadata : r \in Registrars}
SetPrices == ({Config[r].pricing : r \in Registrars} \cup Prices) \ {NoPricing}
Endpoints == {Config[r].endpoint : r \in Registrars}
Hashes    == {c.hash : c \in Cards}
Statuses  == {"active", "deregistering"}

\* What a message says and what the chain keeps: there is always a price.
Fields == [endpoint : Endpoints, hash : Hashes, tags : Seq(STRING),
           metadata : Metadatas, pricing : SetPrices]
Records == [endpoint : Endpoints, hash : Hashes, tags : Seq(STRING),
            metadata : Metadatas, pricing : SetPrices, status : Statuses]

Messages ==
    [kind : {"register", "update"}, fields : Fields]
    \cup [kind : {"deregister"}] \cup [kind : {"price"}, price : Prices]

RunTransactions ==
    [by : Runs, msg : Messages, at : Nat, card : Cards \cup {NoCard}, read : Nat,
     base : Records \cup {NoRecord}]

Transactions ==
    RunTransactions \cup [by : {Other}, msg : [kind : {"price"}, price : Prices]]

LEMMA StatusAdded ==
    ASSUME NEW f \in Fields, NEW s \in Statuses
    PROVE  WithStatus(f, s) = [endpoint |-> f.endpoint, hash |-> f.hash, tags |-> f.tags,
                               metadata |-> f.metadata, pricing |-> f.pricing, status |-> s]
  BY DEF Fields, WithStatus

\* The chain keeps what a message says, but for the order of the tags.
LEMMA StoredRecord ==
    ASSUME NEW f \in Fields, NEW s \in Statuses, NEW rec \in Stored(WithStatus(f, s))
    PROVE  /\ rec \in Records
           /\ rec.endpoint = f.endpoint /\ rec.hash = f.hash /\ rec.status = s
           /\ rec.metadata = f.metadata /\ rec.pricing = f.pricing
           /\ sameSet(rec.tags, f.tags)
<1> DEFINE w == [endpoint |-> f.endpoint, hash |-> f.hash, tags |-> f.tags,
                 metadata |-> f.metadata, pricing |-> f.pricing, status |-> s]
<1>1. rec \in Stored(w)
  BY StatusAdded
<1>2. "tags" \in DOMAIN w /\ w.tags \in Seq(STRING) /\ w.tags = f.tags
  BY DEF Fields
<1>3. w \in Records /\ DOMAIN w = {"endpoint", "hash", "tags", "metadata", "pricing", "status"}
  BY DEF Fields, Records
<1> HIDE DEF w
<1>4. /\ DOMAIN rec = DOMAIN w
      /\ \A x \in DOMAIN w \ {"tags"} : rec[x] = w[x]
      /\ rec.tags \in Seq(STRING) /\ sameSet(rec.tags, w.tags)
  BY <1>1, <1>2, StoredTags
<1>5. \E t \in Seq(STRING) : rec = [w EXCEPT !.tags = t]
  BY <1>1, <1>4 DEF Stored
<1>6. rec \in Records
  BY <1>3, <1>5 DEF Records
<1> QED
  BY <1>2, <1>4, <1>6 DEF w

-----------------------------------------------------------------------------
(* The invariant *)

Types ==
    /\ pc \in [Runs -> {"idle", "fetched", "built", "signed", "done"}]
    /\ card \in [Runs -> Cards \cup {NoCard}]
    /\ msg \in [Runs -> Messages \cup {NoMsg}]
    /\ said \in [Runs -> {"nothing", "failed", "dry-run", "current", "preview", "submitted"}]
    /\ answer \in [Runs -> {"none", "accepted", "rejected"}]
    /\ acct \in [Runs -> Nat] /\ readAt \in [Runs -> Nat] /\ seq \in Nat
    /\ atSign \in [Runs -> Records \cup {NoRecord}]
    /\ served \in Cards
    /\ record \in Records \cup {NoRecord}
    /\ mempool \in Seq(Transactions)

\* A registrar's message says what the flags and the fetched card say.
Says(r, f, c) ==
    /\ f.endpoint = Config[r].endpoint /\ f.hash = c.hash /\ f.tags = Config[r].tags
    /\ Config[r].pricing # NoPricing => f.pricing = Config[r].pricing
    /\ Config[r].metadata # NoMetadata => f.metadata = Config[r].metadata

Meant(r, m, c) ==
    /\ m \in Messages
    /\ r \in Registrars => m.kind \in {"register", "update"} /\ Says(r, m.fields, c)
    /\ r \in Deregistrars => m.kind = "deregister"

\* What is not configured is what the record has, if it was read just now.
Keeps(r, m, read) ==
    m.kind = "update" /\ read = seq /\ record # NoRecord =>
       /\ Config[r].pricing = NoPricing => m.fields.pricing = record.pricing
       /\ Config[r].metadata = NoMetadata => m.fields.metadata = record.metadata

Same(base) == record = base \/ (record = NoRecord /\ base.status = "deregistering")

\* A run's transaction is the next one, whatever follows it in the mempool.
Sound(tx) ==
    /\ tx.at = seq /\ tx.read <= seq
    /\ Meant(tx.by, tx.msg, tx.card) /\ Keeps(tx.by, tx.msg, tx.read) /\ Same(tx.base)

Pool ==
    \A i \in 1..Len(mempool) :
       IF mempool[i].by = Other THEN mempool[i].msg.kind = "price"
       ELSE i = 1 /\ Sound(mempool[i])

\* The message counts: it is about to be signed or sent.
Active(r) == pc[r] \in {"built", "signed"}

RunShape(r) ==
    /\ r \in Registrars /\ pc[r] = "fetched" => card[r] \in Cards
    /\ acct[r] <= seq /\ readAt[r] <= seq
    /\ Active(r) => Meant(r, msg[r], card[r]) /\ Keeps(r, msg[r], readAt[r])
    /\ pc[r] = "signed" /\ acct[r] = seq => Same(atSign[r])

RunInv == Types /\ Pool /\ \A r \in Runs : RunShape(r)

IInv == RunInv /\ KeyInv

LEMMA KeyKeeps == KeyInv /\ [Next]_vars => KeyInv'
<1>1. SUFFICES ASSUME KeyInv, [Next]_vars PROVE KeyInv'
  OBVIOUS
<1>2. CASE UNCHANGED keyVars
  BY <1>1, <1>2, KeyFrame
<1>3. CASE Load
  BY <1>1, <1>3, LoadKeeps
<1>4. CASE KeyStep
  BY <1>1, <1>4, KeyStepKeeps
<1>5. ASSUME NEW r \in Registrars, RegisterStep(r)
      PROVE  Load \/ UNCHANGED keyVars
  BY <1>5 DEF RegisterStep, Fetch, FetchRefused, ReadCurrent, ReadMissing, ReadMisled,
              ReadStale, NotFound, Built, world
<1>6. ASSUME NEW d \in Deregistrars, DeregisterStep(d)
      PROVE  Load
  BY <1>6 DEF DeregisterStep, Preview, LeaveRefused, ReadToLeave
<1>7. ASSUME NEW r \in Runs, SendStep(r)
      PROVE  UNCHANGED keyVars
  BY <1>7 DEF SendStep, Sign, GiveUp, BroadcastAccepted, BroadcastRejected, Rerun, world
<1>8. CASE Commit \/ Evict \/ UnbondingCompletes \/ (\E p \in Prices : OtherPrice(p))
           \/ (\E c \in Cards : Redeploy(c)) \/ UNCHANGED vars
  BY <1>2, <1>8 DEF Commit, Evict, UnbondingCompletes, OtherPrice, Redeploy, vars, world
<1> QED
  BY <1>1, <1>2, <1>3, <1>4, <1>5, <1>6, <1>7, <1>8 DEF Next

LEMMA RunInit == Init => RunInv
<1> SUFFICES ASSUME Init PROVE RunInv
  OBVIOUS
<1>1. mempool \in Seq(Transactions) /\ Len(mempool) = 0
  <2>1. mempool = <<>>
    BY DEF Init
  <2> QED
    BY <2>1
<1>2. Types
  BY <1>1 DEF Init, Types
<1>3. Pool
  BY <1>1 DEF Pool
<1>4. ASSUME NEW r \in Runs PROVE RunShape(r)
  BY DEF Init, RunShape, Active
<1> QED
  BY <1>2, <1>3, <1>4 DEF RunInv

-----------------------------------------------------------------------------
(* The steps of a run *)

\* What the chain has in its mempool does not depend on the runs.
LEMMA PoolFrame ==
    ASSUME Pool, UNCHANGED chainVars
    PROVE  Pool'
  BY DEF Pool, Sound, Keeps, Same, chainVars

\* Nor does one run depend on another.
LEMMA OtherRun ==
    ASSUME NEW q \in Runs, RunShape(q), UNCHANGED <<record, seq>>,
           pc'[q] = pc[q], card'[q] = card[q], msg'[q] = msg[q], acct'[q] = acct[q],
           readAt'[q] = readAt[q], atSign'[q] = atSign[q]
    PROVE  RunShape(q)'
  BY DEF RunShape, Active, Keeps, Same

\* A run that is over has nothing left to be right about.
LEMMA ExitKeeps ==
    ASSUME RunInv, NEW r \in Runs, UNCHANGED <<served, record, seq>>,
           NEW s \in {"failed", "dry-run", "current", "preview", "submitted"}, Exit(r, s),
           answer' \in [Runs -> {"none", "accepted", "rejected"}],
           mempool' \in Seq(Transactions), Pool'
    PROVE  RunInv'
<1>1. Types /\ Types'
  BY DEF RunInv, Types, Exit
<1>2. ASSUME NEW q \in Runs PROVE RunShape(q)'
  <2>1. CASE q = r
    <3>1. pc'[q] = "done" /\ acct'[q] = 0 /\ readAt'[q] = 0 /\ seq' \in Nat
      BY <1>1, <2>1 DEF Types, Exit
    <3> QED
      BY <3>1 DEF RunShape, Active
  <2>2. CASE q # r
    <3>1. /\ pc'[q] = pc[q] /\ card'[q] = card[q] /\ msg'[q] = msg[q] /\ acct'[q] = acct[q]
          /\ readAt'[q] = readAt[q] /\ atSign'[q] = atSign[q] /\ RunShape(q)
      BY <1>1, <2>2 DEF RunInv, Types, Exit
    <3> QED
      BY <3>1, OtherRun
  <2> QED
    BY <2>1, <2>2
<1> QED
  BY <1>1, <1>2 DEF RunInv

\* A run that ends with nothing sent.
LEMMA Ends ==
    ASSUME RunInv, NEW r \in Runs,
           NEW s \in {"failed", "dry-run", "current", "preview", "submitted"}, Exit(r, s),
           UNCHANGED <<answer, served, chainVars>>
    PROVE  RunInv'
  BY PoolFrame, ExitKeeps DEF RunInv, Types, chainVars

LEMMA FetchKeeps ==
    ASSUME RunInv, NEW r \in Registrars, Fetch(r)
    PROVE  RunInv'
<1> r \in Runs
  BY DEF Runs
<1>1. Types /\ Types'
  BY DEF RunInv, Types, Fetch, chainVars
<1>2. Pool'
  BY PoolFrame DEF RunInv, Fetch
<1>3. UNCHANGED <<acct, readAt, atSign, record, seq>>
  BY DEF Fetch, chainVars
<1>4. ASSUME NEW q \in Runs PROVE RunShape(q)'
  <2>1. RunShape(q)
    BY DEF RunInv
  <2>2. CASE q = r
    <3>1. pc'[q] = "fetched" /\ card'[q] \in Cards
      BY <1>1, <2>2 DEF Fetch, Types
    <3> QED
      BY <1>3, <2>1, <3>1 DEF RunShape, Active
  <2>3. CASE q # r
    <3>1. pc'[q] = pc[q] /\ card'[q] = card[q] /\ msg'[q] = msg[q]
      BY <1>1, <2>3 DEF Fetch, Types
    <3> QED
      BY <1>3, <2>1, <3>1, OtherRun
  <2> QED
    BY <2>2, <2>3
<1> QED
  BY <1>1, <1>2, <1>4 DEF RunInv

\* A message just built is one the run means.
LEMMA BuiltKeeps ==
    ASSUME RunInv, NEW r \in Runs, NEW m \in Messages,
           pc[r] \in {"idle", "fetched"},
           pc' = [pc EXCEPT ![r] = "built"], msg' = [msg EXCEPT ![r] = m],
           readAt' = [readAt EXCEPT ![r] = seq],
           UNCHANGED <<card, acct, said, answer, atSign, served, chainVars>>,
           Meant(r, m, card[r]), Keeps(r, m, seq)
    PROVE  RunInv'
<1>1. Types /\ Types' /\ UNCHANGED <<acct, card, atSign, record, seq>>
  BY DEF RunInv, Types, chainVars
<1>2. Pool'
  BY PoolFrame DEF RunInv
<1>3. ASSUME NEW q \in Runs PROVE RunShape(q)'
  <2>1. RunShape(q)
    BY DEF RunInv
  <2>2. CASE q = r
    <3>1. pc'[q] = "built" /\ msg'[q] = m /\ readAt'[q] = seq /\ seq \in Nat
      BY <1>1, <2>2 DEF Types
    <3>2. Meant(q, msg'[q], card'[q])
      BY <1>1, <2>2, <3>1
    <3>3. Keeps(q, msg[q], readAt[q])'
      BY <1>1, <2>2, <3>1 DEF Keeps
    <3> QED
      BY <1>1, <2>1, <3>1, <3>2, <3>3 DEF RunShape
  <2>3. CASE q # r
    <3>1. pc'[q] = pc[q] /\ msg'[q] = msg[q] /\ readAt'[q] = readAt[q]
      BY <1>1, <2>3 DEF Types
    <3> QED
      BY <1>1, <2>1, <3>1, OtherRun
  <2> QED
    BY <2>2, <2>3
<1> QED
  BY <1>1, <1>2, <1>3 DEF RunInv

LEMMA RegisterKeeps ==
    ASSUME RunInv, NEW r \in Registrars, RegisterStep(r)
    PROVE  RunInv'
<1> r \in Runs
  BY DEF Runs
<1>1. CASE Fetch(r)
  BY <1>1, FetchKeeps
<1>2. CASE FetchRefused(r) \/ ReadCurrent(r)
  <2>1. PICK s \in {"failed", "current"} : Exit(r, s)
    BY <1>2 DEF FetchRefused, ReadCurrent
  <2> QED
    BY <1>2, <2>1, Ends DEF FetchRefused, ReadCurrent, world
<1>3. ASSUME NEW dry \in BOOLEAN, ReadMissing(r, dry) \/ ReadMisled(r, dry)
      PROVE  RunInv'
  <2>1. pc[r] = "fetched" /\ NotFound(r, dry)
    BY <1>3 DEF ReadMissing, ReadMisled
  <2>2. CASE Config[r].pricing = NoPricing \/ dry
    <3>1. PICK s \in {"failed", "dry-run"} : Exit(r, s)
      BY <2>1, <2>2 DEF NotFound, Built
    <3> QED
      BY <2>1, <2>2, <3>1, Ends DEF NotFound, Built, world
  <2>3. CASE Config[r].pricing # NoPricing /\ ~dry
    <3> DEFINE m == BuildRegister(Want(r))
    <3>1. /\ pc' = [pc EXCEPT ![r] = "built"] /\ msg' = [msg EXCEPT ![r] = m]
          /\ readAt' = [readAt EXCEPT ![r] = seq]
          /\ UNCHANGED <<card, acct, said, answer, atSign, served, chainVars>>
      BY <2>1, <2>3 DEF NotFound, Built, world
    <3>2. m \in Messages /\ m.kind = "register" /\ m.fields = Want(r)
      <4>1. card[r] \in Cards
        BY <2>1 DEF RunInv, RunShape
      <4>2. Want(r) \in Fields
        BY <2>3, <4>1, ConfigAssumption
        DEF Want, Desired, Fields, Endpoints, Hashes, Metadatas, SetPrices
      <4> QED
        BY <4>2 DEF BuildRegister, Messages
    <3>3. Says(r, m.fields, card[r])
      BY <3>2 DEF Says, Want, Desired
    <3>4. Meant(r, m, card[r]) /\ Keeps(r, m, seq)
      BY <3>2, <3>3, RunAssumption DEF Meant, Keeps
    <3> HIDE DEF m
    <3> QED
      BY <2>1, <3>1, <3>2, <3>4, BuiltKeeps
  <2> QED
    BY <2>2, <2>3
<1>4. ASSUME NEW dry \in BOOLEAN, ReadStale(r, dry)
      PROVE  RunInv'
  <2> DEFINE m == BuildUpdate(record, Want(r))
  <2>1. pc[r] = "fetched" /\ record \in Records /\ card[r] \in Cards /\ Built(r, m, dry)
    BY <1>4 DEF ReadStale, RunInv, RunShape, Types
  <2>2. CASE dry
    BY <2>1, <2>2, Ends DEF Built, world
  <2>3. CASE ~dry
    <3>1. /\ pc' = [pc EXCEPT ![r] = "built"] /\ msg' = [msg EXCEPT ![r] = m]
          /\ readAt' = [readAt EXCEPT ![r] = seq]
          /\ UNCHANGED <<card, acct, said, answer, atSign, served, chainVars>>
      BY <2>1, <2>3 DEF Built, world
    <3>2. m \in Messages /\ m.kind = "update"
      <4>1. m.fields \in Fields
        BY <2>1, ConfigAssumption
        DEF BuildUpdate, Want, Desired, Fields, Records, Endpoints, Hashes, Metadatas, SetPrices
      <4> QED
        BY <4>1 DEF BuildUpdate, Messages
    <3>3. Says(r, m.fields, card[r]) /\ Keeps(r, m, seq)
      <4>1. /\ m.fields.endpoint = Config[r].endpoint
            /\ m.fields.hash = card[r].hash /\ m.fields.tags = Config[r].tags
            /\ m.fields.pricing = IF Config[r].pricing # NoPricing
                                  THEN Config[r].pricing ELSE record.pricing
            /\ m.fields.metadata = IF Config[r].metadata # NoMetadata
                                   THEN Config[r].metadata ELSE record.metadata
        BY DEF Want, Desired, BuildUpdate
      <4> HIDE DEF m
      <4> QED
        BY <4>1 DEF Says, Keeps
    <3>4. Meant(r, m, card[r])
      BY <3>2, <3>3, RunAssumption DEF Meant
    <3> HIDE DEF m
    <3> QED
      BY <2>1, <3>1, <3>2, <3>3, <3>4, BuiltKeeps
  <2> QED
    BY <2>2, <2>3
<1> QED
  BY <1>1, <1>2, <1>3, <1>4 DEF RegisterStep

LEMMA DeregisterKeeps ==
    ASSUME RunInv, NEW d \in Deregistrars, DeregisterStep(d)
    PROVE  RunInv'
<1> d \in Runs
  BY DEF Runs
<1>1. ASSUME LeaveRefused(d) \/ \E confirm \in BOOLEAN : Preview(d, confirm)
      PROVE  RunInv'
  <2>1. PICK s \in {"failed", "preview"} : Exit(d, s)
    BY <1>1 DEF LeaveRefused, Preview
  <2> QED
    BY <1>1, <2>1, Ends DEF LeaveRefused, Preview
<1>2. ASSUME NEW confirm \in BOOLEAN, ReadToLeave(d, confirm)
      PROVE  RunInv'
  <2> DEFINE m == [kind |-> "deregister"]
  <2>1. /\ pc[d] = "idle" /\ pc' = [pc EXCEPT ![d] = "built"] /\ msg' = [msg EXCEPT ![d] = m]
        /\ readAt' = [readAt EXCEPT ![d] = seq]
        /\ UNCHANGED <<card, acct, said, answer, atSign, served, chainVars>>
    BY <1>2 DEF ReadToLeave
  <2>2. m \in Messages /\ m.kind = "deregister"
    BY DEF Messages
  <2>3. Meant(d, m, card[d]) /\ Keeps(d, m, seq)
    BY <2>2, RunAssumption DEF Meant, Keeps
  <2> HIDE DEF m
  <2> QED
    BY <2>1, <2>2, <2>3, BuiltKeeps
<1> QED
  BY <1>1, <1>2 DEF DeregisterStep

LEMMA SignKeeps ==
    ASSUME RunInv, NEW r \in Runs, Sign(r)
    PROVE  RunInv'
<1>1. Types /\ Types' /\ UNCHANGED <<card, msg, readAt, record, seq>> /\ pc[r] = "built"
  BY DEF RunInv, Types, Sign, AccountSequence, world, chainVars
<1>2. Pool'
  BY PoolFrame DEF RunInv, Sign, world
<1>3. ASSUME NEW q \in Runs PROVE RunShape(q)'
  <2>1. RunShape(q)
    BY DEF RunInv
  <2>2. CASE q = r
    <3>1. pc'[q] = "signed" /\ acct'[q] = seq /\ atSign'[q] = record /\ seq \in Nat
      BY <1>1, <2>2 DEF Types, Sign, AccountSequence
    <3>2. Meant(q, msg[q], card[q]) /\ Keeps(q, msg[q], readAt[q])'
      BY <1>1, <2>1, <2>2 DEF RunShape, Active, Keeps
    <3> QED
      BY <1>1, <2>1, <3>1, <3>2 DEF RunShape, Same
  <2>3. CASE q # r
    <3>1. pc'[q] = pc[q] /\ acct'[q] = acct[q] /\ atSign'[q] = atSign[q]
      BY <1>1, <2>3 DEF Types, Sign
    <3> QED
      BY <1>1, <2>1, <3>1, OtherRun
  <2> QED
    BY <2>2, <2>3
<1> QED
  BY <1>1, <1>2, <1>3 DEF RunInv

\* Only an empty mempool takes a run's transaction.
LEMMA AcceptedKeeps ==
    ASSUME RunInv, NEW r \in Runs, BroadcastAccepted(r)
    PROVE  RunInv'
<1> PICK tx : tx = SignTx(r)
  OBVIOUS
<1>1. /\ Types /\ RunShape(r) /\ pc[r] = "signed" /\ mempool' = Append(mempool, tx)
      /\ UNCHANGED <<served, record, seq>> /\ acct[r] = seq + Len(mempool)
  BY DEF RunInv, BroadcastAccepted, NextSequence
<1>2. /\ Meant(r, msg[r], card[r]) /\ Keeps(r, msg[r], readAt[r]) /\ msg[r] \in Messages
      /\ card[r] \in Cards \cup {NoCard} /\ acct[r] \in Nat /\ readAt[r] \in Nat
      /\ seq \in Nat /\ acct[r] <= seq /\ readAt[r] <= seq
      /\ atSign[r] \in Records \cup {NoRecord}
  BY <1>1 DEF RunShape, Active, Meant, Types
<1>3. Len(mempool) = 0 /\ acct[r] = seq /\ mempool \in Seq(Transactions)
  BY <1>1, <1>2 DEF Types
<1>4. tx \in Transactions
  BY <1>2 DEF SignTx, Transactions, RunTransactions
<1>5. mempool' \in Seq(Transactions) /\ Len(mempool') = 1 /\ mempool'[1] = tx
  BY <1>1, <1>3, <1>4
<1>6. Sound(tx)'
  <2>1. Same(atSign[r])
    BY <1>1, <1>3 DEF RunShape
  <2> QED
    BY <1>1, <1>2, <1>3, <2>1 DEF Sound, SignTx, Keeps, Same
<1>7. Pool'
  <2>1. ASSUME NEW i \in 1..Len(mempool') PROVE i = 1 /\ mempool'[i] = tx
    BY <1>5
  <2>2. tx.by # Other
    BY RunAssumption DEF SignTx
  <2> QED
    BY <1>6, <2>1, <2>2 DEF Pool, Sound, Keeps, Same
<1>8. answer' \in [Runs -> {"none", "accepted", "rejected"}]
  BY <1>1 DEF Types, BroadcastAccepted
<1>9. PICK s \in {"submitted", "failed"} : Exit(r, s)
  BY DEF BroadcastAccepted
<1> QED
  BY <1>1, <1>5, <1>7, <1>8, <1>9, ExitKeeps

LEMMA RejectedKeeps ==
    ASSUME RunInv, NEW r \in Runs, BroadcastRejected(r)
    PROVE  RunInv'
<1>1. PICK s \in {"submitted", "failed"} : Exit(r, s)
  BY DEF BroadcastRejected
<1>2. answer' \in [Runs -> {"none", "accepted", "rejected"}] /\ mempool' \in Seq(Transactions)
      /\ UNCHANGED <<served, record, seq>>
  BY DEF RunInv, Types, BroadcastRejected, world, chainVars
<1>3. Pool'
  BY PoolFrame DEF RunInv, BroadcastRejected, world
<1> QED
  BY <1>1, <1>2, <1>3, ExitKeeps

LEMMA RerunKeeps ==
    ASSUME RunInv, NEW r \in Runs, Rerun(r)
    PROVE  RunInv'
<1>1. Types /\ Types' /\ UNCHANGED <<card, msg, acct, readAt, atSign, record, seq>>
  BY DEF RunInv, Types, Rerun, world, chainVars
<1>2. Pool'
  BY PoolFrame DEF RunInv, Rerun, world
<1>3. ASSUME NEW q \in Runs PROVE RunShape(q)'
  <2>1. RunShape(q)
    BY DEF RunInv
  <2>2. CASE q = r
    <3>1. pc'[q] = "idle"
      BY <1>1, <2>2 DEF Types, Rerun
    <3> QED
      BY <1>1, <2>1, <3>1 DEF RunShape, Active
  <2>3. CASE q # r
    <3>1. pc'[q] = pc[q]
      BY <1>1, <2>3 DEF Types, Rerun
    <3> QED
      BY <1>1, <2>1, <3>1, OtherRun
  <2> QED
    BY <2>2, <2>3
<1> QED
  BY <1>1, <1>2, <1>3 DEF RunInv

LEMMA SendKeeps ==
    ASSUME RunInv, NEW r \in Runs, SendStep(r)
    PROVE  RunInv'
<1>1. CASE GiveUp(r)
  BY <1>1, Ends DEF GiveUp, world
<1> QED
  BY <1>1, SignKeeps, AcceptedKeeps, RejectedKeeps, RerunKeeps DEF SendStep

-----------------------------------------------------------------------------
(* The steps of the chain *)

\* A first registration or an update that takes effect stores what it says.
LEMMA AppliedFields ==
    ASSUME NEW m \in Messages, m.kind \in {"register", "update"}, record \in Records \cup {NoRecord},
           Took(m), NEW rec \in Applied(m)
    PROVE  /\ rec \in Records
           /\ rec.endpoint = m.fields.endpoint /\ rec.hash = m.fields.hash
           /\ rec.metadata = m.fields.metadata /\ rec.pricing = m.fields.pricing
           /\ sameSet(rec.tags, m.fields.tags)
<1>1. m.fields \in Fields
  BY DEF Messages
<1>2. PICK s \in Statuses : rec \in Stored(WithStatus(m.fields, s))
  BY DEF Took, Applied, Records, Statuses
<1> DEFINE f == m.fields
<1>3. f \in Fields /\ rec \in Stored(WithStatus(f, s))
  BY <1>1, <1>2
<1> HIDE DEF f
<1>4. /\ rec \in Records
      /\ rec.endpoint = f.endpoint /\ rec.hash = f.hash /\ rec.status = s
      /\ rec.metadata = f.metadata /\ rec.pricing = f.pricing
      /\ sameSet(rec.tags, f.tags)
  BY <1>3, StoredRecord
<1> QED
  BY <1>4 DEF f

LEMMA AppliedType ==
    ASSUME NEW m \in Messages, record \in Records \cup {NoRecord}, NEW rec \in Applied(m)
    PROVE  rec \in Records \cup {NoRecord}
<1>1. CASE m.kind \in {"register", "update"}
  <2>1. CASE Took(m)
    BY <1>1, <2>1, AppliedFields
  <2>2. CASE ~Took(m)
    BY <1>1, <2>2 DEF Took, Applied
  <2> QED
    BY <2>1, <2>2
<1>2. CASE m.kind = "deregister"
  BY <1>2 DEF Applied, Records, Statuses
<1>3. CASE m.kind = "price"
  <2>1. m.price \in SetPrices
    BY <1>3, ConfigAssumption DEF Messages, SetPrices
  <2> QED
    BY <1>3, <2>1 DEF Applied, Records
<1> QED
  BY <1>1, <1>2, <1>3 DEF Messages

LEMMA CommitKeeps ==
    ASSUME RunInv, Commit
    PROVE  RunInv'
<1> DEFINE tx == Head(mempool)
<1>1. Types /\ Pool /\ mempool # <<>>
  BY DEF RunInv, Commit
<1>2. Len(mempool) \in Nat \ {0} /\ tx = mempool[1] /\ tx \in Transactions
  BY <1>1 DEF Types
<1>3. PICK m \in Messages : m = tx.msg
  BY <1>2 DEF Transactions, RunTransactions, Messages
<1>4. record' \in Records \cup {NoRecord}
  <2>1. record' \in Applied(m)
    BY <1>3 DEF Commit
  <2> QED
    BY <1>1, <2>1, AppliedType DEF Types
<1>5. /\ seq' = seq + 1 /\ mempool' = Tail(mempool)
      /\ UNCHANGED <<pc, card, msg, acct, said, answer, readAt, atSign, served>>
  BY DEF Commit, runVars
<1>6. Types'
  <2>1. mempool' \in Seq(Transactions)
    BY <1>1, <1>2, <1>5 DEF Types
  <2> QED
    BY <1>1, <1>4, <1>5, <2>1 DEF Types
<1>7. Pool'
  <2>1. ASSUME NEW i \in 1..Len(mempool')
        PROVE  mempool'[i].by = Other /\ mempool'[i].msg.kind = "price"
    <3>1. mempool'[i] = mempool[i+1] /\ i + 1 \in 1..Len(mempool) /\ i + 1 # 1
      BY <1>1, <1>2, <1>5 DEF Types
    <3> QED
      BY <1>1, <3>1 DEF Pool
  <2> QED
    BY <2>1 DEF Pool
<1>8. ASSUME NEW r \in Runs PROVE RunShape(r)'
  <2>1. RunShape(r) /\ acct[r] \in Nat /\ readAt[r] \in Nat /\ seq \in Nat
    BY <1>1 DEF RunInv, Types
  <2>2. acct'[r] < seq' /\ readAt'[r] < seq'
    BY <1>5, <2>1 DEF RunShape
  <2> QED
    BY <1>5, <2>1, <2>2 DEF RunShape, Active, Keeps
<1> QED
  BY <1>6, <1>7, <1>8 DEF RunInv

LEMMA EvictKeeps ==
    ASSUME RunInv, Evict
    PROVE  RunInv'
<1>1. /\ mempool' = <<>>
      /\ UNCHANGED <<pc, card, msg, acct, said, answer, readAt, atSign, served, record, seq>>
  BY DEF Evict, runVars
<1>2. mempool' \in Seq(Transactions) /\ Len(mempool') = 0
  BY <1>1
<1>3. Types' /\ Pool'
  BY <1>1, <1>2 DEF RunInv, Types, Pool
<1>4. ASSUME NEW r \in Runs PROVE RunShape(r)'
  BY <1>1, OtherRun DEF RunInv
<1> QED
  BY <1>3, <1>4 DEF RunInv

\* What an unbonding removes was leaving when it was read.
LEMMA UnbondingKeeps ==
    ASSUME RunInv, UnbondingCompletes
    PROVE  RunInv'
<1>1. /\ record # NoRecord /\ record.status = "deregistering" /\ record' = NoRecord
      /\ UNCHANGED <<pc, card, msg, acct, said, answer, readAt, atSign, served, seq, mempool>>
  BY DEF UnbondingCompletes, runVars
<1>2. Types'
  BY <1>1 DEF RunInv, Types
<1>3. ASSUME NEW base, Same(base) PROVE Same(base)'
  BY <1>1, <1>3 DEF Same
<1>4. Pool'
  BY <1>1, <1>3 DEF RunInv, Pool, Sound, Keeps
<1>5. ASSUME NEW r \in Runs PROVE RunShape(r)'
  <2>1. RunShape(r)
    BY DEF RunInv
  <2> QED
    BY <1>1, <1>3, <2>1 DEF RunShape, Active, Keeps
<1> QED
  BY <1>2, <1>4, <1>5 DEF RunInv

LEMMA OtherPriceKeeps ==
    ASSUME RunInv, NEW p \in Prices, OtherPrice(p)
    PROVE  RunInv'
<1> DEFINE tx == [by |-> Other, msg |-> [kind |-> "price", price |-> p]]
<1>1. /\ Types /\ Pool /\ mempool' = Append(mempool, tx)
      /\ UNCHANGED <<pc, card, msg, acct, said, answer, readAt, atSign, served, record, seq>>
  BY DEF RunInv, OtherPrice, runVars
<1>2. tx \in Transactions /\ tx.by = Other /\ tx.msg.kind = "price"
  BY DEF Transactions
<1> HIDE DEF tx
<1>3. mempool \in Seq(Transactions) /\ mempool' \in Seq(Transactions)
  BY <1>1, <1>2 DEF Types
<1>4. Types'
  BY <1>1, <1>3 DEF Types
<1>5. \A i \in 1..Len(mempool') :
         (i \in 1..Len(mempool) /\ mempool'[i] = mempool[i]) \/ mempool'[i] = tx
  BY <1>1, <1>2, <1>3
<1>6. Pool'
  <2>1. \A i \in 1..Len(mempool) : i \in 1..Len(mempool') /\ mempool'[i] = mempool[i]
    BY <1>2, <1>3, <1>1
  <2>2. \A t : Sound(t) => Sound(t)'
    BY <1>1 DEF Sound, Keeps, Same
  <2> QED
    BY <1>1, <1>2, <1>5, <2>1, <2>2 DEF Pool
<1>7. ASSUME NEW r \in Runs PROVE RunShape(r)'
  BY <1>1, OtherRun DEF RunInv
<1> QED
  BY <1>4, <1>6, <1>7 DEF RunInv

LEMMA RunKeeps == RunInv /\ [Next]_vars => RunInv'
<1>1. SUFFICES ASSUME RunInv, [Next]_vars PROVE RunInv'
  OBVIOUS
<1>2. ASSUME UNCHANGED <<runVars, chainVars>>, served' \in Cards
      PROVE  RunInv'
  <2>1. /\ UNCHANGED <<pc, card, msg, acct, said, answer, readAt, atSign, record, seq, mempool>>
    BY <1>2 DEF runVars, chainVars
  <2>2. Types' /\ Pool'
    BY <1>1, <1>2, <2>1, PoolFrame DEF RunInv, Types
  <2>3. \A r \in Runs : RunShape(r)'
    BY <1>1, <2>1, OtherRun DEF RunInv
  <2> QED
    BY <2>2, <2>3 DEF RunInv
<1>3. CASE (\E c \in Cards : Redeploy(c)) \/ UNCHANGED vars
           \/ UNCHANGED <<runVars, chainVars, served>>
  <2>1. served' \in Cards /\ UNCHANGED <<runVars, chainVars>>
    BY <1>1, <1>3 DEF RunInv, Types, Redeploy, vars, world
  <2> QED
    BY <1>2, <2>1
<1> QED
  BY <1>1, <1>3, RegisterKeeps, DeregisterKeeps, SendKeeps, CommitKeeps,
     EvictKeeps, UnbondingKeeps, OtherPriceKeeps
  DEF Next

LEMMA Invariant == Spec => []IInv
<1>1. Init => IInv
  BY RunInit, KeyInitInv DEF IInv, Init
<1>2. IInv /\ [Next]_vars => IInv'
  BY RunKeeps, KeyKeeps DEF IInv
<1> QED
  BY <1>1, <1>2, PTL DEF Spec

-----------------------------------------------------------------------------
(* The theorems *)

\* Every variable has its type, and a committed record always has a price:
\* an update takes it over when none is configured (register.go:69-72,
\* main.go:195-197).
THEOREM TypeCorrect == Spec => []TypeOK
<1>1. IInv => TypeOK
  <2> SUFFICES ASSUME IInv PROVE TypeOK
    OBVIOUS
  <2>1. Types /\ KeyTypeOK
    BY DEF IInv, RunInv, KeyInv
  <2>2. record # NoRecord => record.status \in {"active", "deregistering"}
                             /\ record.pricing # NoPricing
    BY <2>1 DEF Types, Records, Statuses, SetPrices
  <2>3. ASSUME NEW i \in 1..Len(mempool) PROVE mempool[i].by \in Runs \cup {Other}
    <3>1. mempool[i] \in Transactions
      BY <2>1 DEF Types
    <3> QED
      BY <3>1 DEF Transactions, RunTransactions
  <2> QED
    BY <2>1, <2>2, <2>3 DEF Types, TypeOK
<1> QED
  BY <1>1, Invariant, PTL

\* Any number of shells that generate a key, each stopped anywhere, never
\* leave an address that was printed or registered under without its key
\* (key.go:59-76, O_EXCL; owner-keygen/main.go:60-75).
THEOREM OneIdentity == Spec => []IdentityIsKept
<1>1. IInv => IdentityIsKept
  BY DEF IInv, KeyInv
<1> QED
  BY <1>1, Invariant, PTL

LEMMA AppliedIsCommit ==
    ASSUME IInv, [Next]_vars, NEW runs \in SUBSET Runs, Applies(runs)
    PROVE  /\ Sound(Head(mempool)) /\ Head(mempool).by \in runs /\ Types
           /\ Head(mempool).msg \in Messages
           /\ Took(Head(mempool).msg) /\ record' \in Applied(Head(mempool).msg)
<1> DEFINE tx == Head(mempool)
<1>1. Types /\ Pool /\ seq \in Nat /\ seq' = seq + 1 /\ tx.by \in runs /\ Took(tx.msg)
  BY DEF IInv, RunInv, Types, Applies
<1>2. 1 \in 1..Len(mempool) /\ tx = mempool[1]
  BY <1>1 DEF Types, Applies
<1>3. Sound(tx)
  BY <1>1, <1>2, RunAssumption DEF Pool
<1>4. Commit
  <2>1. seq' # seq
    BY <1>1
  <2>2. ASSUME NEW r \in Runs, SendStep(r) PROVE seq' = seq
    BY <2>2 DEF SendStep, Sign, GiveUp, BroadcastAccepted, BroadcastRejected, Rerun, world, chainVars
  <2>3. ASSUME NEW r \in Registrars, RegisterStep(r) PROVE seq' = seq
    BY <2>3
    DEF RegisterStep, Fetch, FetchRefused, ReadCurrent, ReadMissing, ReadMisled, ReadStale,
        NotFound, Built, world, chainVars
  <2>4. ASSUME NEW d \in Deregistrars, DeregisterStep(d) PROVE seq' = seq
    BY <2>4 DEF DeregisterStep, Preview, LeaveRefused, ReadToLeave, chainVars
  <2> QED
    BY <2>1, <2>2, <2>3, <2>4
    DEF Next, Evict, UnbondingCompletes, OtherPrice, Redeploy, vars, world, chainVars
<1> QED
  BY <1>1, <1>3, <1>4 DEF Commit, Sound, Meant

\* A signature is good for one sequence: when a run's transaction is applied,
\* the record is the one it read with its account, whatever other owner
\* tools and runs did meanwhile (client.go:134-151, txsign.go:68-79).
THEOREM SequenceIsALock == Spec => SequenceProtects
<1>1. IInv /\ [Next]_vars =>
        [Applies(Runs) =>
          LET tx == Head(mempool)
          IN record = tx.base \/ (record = NoRecord /\ tx.base.status = "deregistering")]_vars
  BY AppliedIsCommit DEF Sound, Same
<1> QED
  BY <1>1, Invariant, PTL DEF Spec, SequenceProtects

\* An update keeps the price and the metadata it does not set, unless an
\* owner transaction was committed between its two reads
\* (register.go:56-82).
THEOREM UnsetFieldsAreKept == Spec => KeepsFieldsUnlessRaced
<1>1. IInv /\ [Next]_vars =>
        [Applies(Registrars) =>
          LET tx == Head(mempool)
          IN tx.msg.kind = "update" /\ tx.read = tx.at =>
                /\ Config[tx.by].pricing = NoPricing => record'.pricing = record.pricing
                /\ Config[tx.by].metadata = NoMetadata => record'.metadata = record.metadata]_vars
  <2> DEFINE tx == Head(mempool)
             m == tx.msg
  <2>1. ASSUME IInv, [Next]_vars, Applies(Registrars), m.kind = "update", tx.read = tx.at
        PROVE  /\ Config[tx.by].pricing = NoPricing => record'.pricing = record.pricing
               /\ Config[tx.by].metadata = NoMetadata => record'.metadata = record.metadata
    <3>1. Sound(tx) /\ Types /\ m \in Messages /\ Took(m) /\ record' \in Applied(m)
      BY <2>1, AppliedIsCommit DEF Runs
    <3>2. record # NoRecord /\ record \in Records \cup {NoRecord}
      BY <2>1, <3>1 DEF Took, Types
    <3>3. /\ Config[tx.by].pricing = NoPricing => m.fields.pricing = record.pricing
          /\ Config[tx.by].metadata = NoMetadata => m.fields.metadata = record.metadata
      BY <2>1, <3>1, <3>2 DEF Sound, Keeps
    <3> HIDE DEF m
    <3>4. record'.pricing = m.fields.pricing /\ record'.metadata = m.fields.metadata
      BY <2>1, <3>1, <3>2, AppliedFields
    <3> QED
      BY <3>3, <3>4
  <2> QED
    BY <2>1
<1> QED
  BY <1>1, Invariant, PTL DEF Spec, KeepsFieldsUnlessRaced

\* A rerun finds nothing to do after an applied transaction, for any
\* configuration and any order of the stored tags (register.go:64-135).
THEOREM AppliedIsCurrent == Spec => AppliedLeavesNoDrift
<1>1. IInv /\ [Next]_vars =>
        [Applies(Registrars) =>
          LET tx == Head(mempool) IN Drift(record', Desired(tx.by, tx.card)) = {}]_vars
  <2> DEFINE tx == Head(mempool)
             m == tx.msg
             want == Desired(tx.by, tx.card)
  <2>1. ASSUME IInv, [Next]_vars, Applies(Registrars)
        PROVE  Drift(record', want) = {}
    <3>1. Sound(tx) /\ Types /\ tx.by \in Registrars
          /\ m \in Messages /\ Took(m) /\ record' \in Applied(m)
      BY <2>1, AppliedIsCommit DEF Runs
    <3>2. m.kind \in {"register", "update"} /\ Says(tx.by, m.fields, tx.card)
      BY <3>1 DEF Sound, Meant
    <3>3. /\ m.fields.endpoint = want.endpoint /\ m.fields.hash = want.hash
          /\ m.fields.tags = want.tags
          /\ want.metadata \in {NoMetadata, m.fields.metadata}
          /\ want.pricing \in {NoPricing, m.fields.pricing}
      BY <3>2 DEF Says, Desired
    <3> HIDE DEF m, want
    <3>4. /\ record'.endpoint = m.fields.endpoint /\ record'.hash = m.fields.hash
          /\ record'.metadata = m.fields.metadata /\ record'.pricing = m.fields.pricing
          /\ sameSet(record'.tags, m.fields.tags)
      BY <3>1, <3>2, AppliedFields DEF Types
    <3> QED
      BY <3>3, <3>4 DEF Drift
  <2> QED
    BY <2>1 DEF want
<1> QED
  BY <1>1, Invariant, PTL DEF Spec, AppliedLeavesNoDrift

=============================================================================
