------------------------- MODULE AgentProcessProofs -------------------------
(***************************************************************************)
(* The safety of one agent process, for every number of requests and every *)
(* set of catalogs the private service may list.                           *)
(***************************************************************************)
EXTENDS AgentProcess, TLAPS

-----------------------------------------------------------------------------
(* The inductive invariant *)

\* The registry once the names of some private tools were added.
Registry(names) ==
    [n \in DOMAIN Own \cup names |-> IF n \in DOMAIN Own THEN Own[n] ELSE Proxy(n)]

\* The startup loop has added what it has taken off todo.
Registered ==
    /\ main = "boot" => ops = Empty
    /\ main = "built" => ops = Own
    /\ main = "proxying" \/ server # "off" =>
          /\ todo \subseteq DOMAIN tools
          /\ ops = Registry((DOMAIN tools \ Reserved) \ todo)

\* Before StartFullFor nothing runs beside main.
NotStarted ==
    server = "off" =>
        /\ card = Empty /\ code = 1 /\ ~cancelled
        /\ cacheErr = "empty" /\ main \notin {"select", "draining"}

\* From there on the loop is over and the card is the registry's.
Started ==
    server # "off" =>
        main \notin {"boot", "built", "proxying"} /\ todo = {} /\ card = BySkill

\* serve's goroutine writes its channel when it ends, and only then.
ServeReports ==
    /\ serveErr = "error" <=> server = "failed"
    /\ serveErr = "nil" <=> server = "returned"

\* A half that ended well was told to, by a signal as long as main selects;
\* and what main makes of it.
EndsForAReason ==
    /\ cacheErr # "empty" \/ server \in {"closed", "returned"} => Done
    /\ main = "select" => ~cancelled
    /\ main = "draining" \/ code = 0 => signalled
    /\ main \in {"closeMcp", "closingMcp", "closeApp", "exited"} /\ server # "off" /\ code = 1
          => server = "failed"

IInv ==
    /\ TypeOK
    /\ Registered /\ NotStarted /\ Started
    /\ ServeReports /\ EndsForAReason

-----------------------------------------------------------------------------
(* Preservation *)

LEMMA OwnSkills == \A n \in DOMAIN Own : Own[n].skill \in Skills
  BY DEF Own, Op, Skills

LEMMA OwnIsReserved == DOMAIN Own \subseteq Reserved
  BY DEF Own, Reserved

\* A name main's loop may add is never taken (registry.go's refusal of a
\* duplicate does not happen).
LEMMA NoClash ==
    ASSUME IInv, main = "proxying", NEW n \in todo, n \notin Reserved
    PROVE  MayAdd(n)
  BY OwnIsReserved DEF IInv, Registered, Registry, MayAdd

\* Startup, from the configuration to the start of the two halves.
LEMMA StartupPreserves ==
    ASSUME IInv,
           \/ Build \/ Connect \/ ConnectFails \/ Start
           \/ \E n \in todo : SkipReserved(n) \/ AddProxy(n)
    PROVE  IInv'
<1> USE DEF requests, channels
<1>1. CASE Build
  BY <1>1, OwnSkills
     DEF Build, IInv, TypeOK, Registered, NotStarted, Started, ServeReports, EndsForAReason, Done
<1>2. CASE Connect
  <2>1. ops' = Own /\ tools' = service /\ todo' = DOMAIN service /\ server = "off"
    BY <1>2 DEF Connect, IInv, Registered, Started
  <2>2. Registered'
    BY <1>2, <2>1 DEF Connect, Registered, Registry, Own
  <2> QED
    BY <1>2, <2>1, <2>2
       DEF Connect, IInv, TypeOK, NotStarted, Started, ServeReports, EndsForAReason, Done
<1>3. CASE ConnectFails
  BY <1>3 DEF ConnectFails, boot, IInv, TypeOK, Registered, NotStarted, Started, ServeReports,
              EndsForAReason, Done, BySkill, Registry, Proxy
<1>4. CASE Start
  BY <1>4 DEF Start, IInv, TypeOK, Registered, NotStarted, Started, ServeReports,
              EndsForAReason, Done, BySkill, Registry, Proxy
<1>5. ASSUME NEW n \in todo, SkipReserved(n)
      PROVE  IInv'
  BY <1>5 DEF SkipReserved, IInv, TypeOK, Registered, NotStarted, Started, ServeReports,
              EndsForAReason, Done, Registry, Proxy
<1>6. ASSUME NEW n \in todo, AddProxy(n)
      PROVE  IInv'
  <2>1. MayAdd(n) /\ n \notin Reserved /\ main = "proxying" /\ server = "off"
    BY <1>6, NoClash DEF AddProxy, IInv, Started
  <2>2. ops' = [m \in DOMAIN ops \cup {n} |-> IF m = n THEN Proxy(n) ELSE ops[m]]
    BY <1>6, <2>1 DEF AddProxy
  <2>3. ops' = Registry((DOMAIN tools \ Reserved) \ todo')
    BY <1>6, <2>1, <2>2, OwnIsReserved DEF AddProxy, IInv, Registered, Registry, Proxy
  <2>4. TypeOK'
    BY <1>6, <2>1, <2>2 DEF AddProxy, IInv, TypeOK, Proxy, Op, Skills
  <2>5. Registered'
    BY <1>6, <2>1, <2>3 DEF AddProxy, IInv, Registered, Registry, Proxy
  <2> QED
    BY <1>6, <2>1, <2>4, <2>5
       DEF AddProxy, IInv, NotStarted, Started, ServeReports, EndsForAReason, Done
<1> QED
  BY <1>1, <1>2, <1>3, <1>4, <1>5, <1>6

\* A step that leaves the catalog, the registry and the card alone keeps what
\* startup made of them, as long as main goes on from its select.
LEMMA StartupIsOver ==
    ASSUME IInv, server # "off", server' # "off", UNCHANGED <<tools, todo, ops, card>>,
           main' \notin {"boot", "built", "proxying"}
    PROVE  (Registered /\ NotStarted /\ Started)'
  BY DEF IInv, Registered, NotStarted, Started, Registry, Proxy, BySkill

\* The goroutines of StartFullFor, its select and the deferred closes.
LEMMA RunningPreserves ==
    ASSUME IInv,
           \/ SelectCache \/ Drain \/ SelectServe \/ CloseMcpBegins \/ CloseMcpEnds \/ CloseApp
           \/ Listen \/ CloseServer \/ ServeReturns \/ CacheReturns \/ ServeFails
    PROVE  IInv'
<1> USE DEF requests, channels, boot
<1>1. CASE SelectCache
  BY <1>1, StartupIsOver
     DEF SelectCache, CancelOther, IInv, TypeOK, NotStarted, ServeReports, EndsForAReason, Done
<1>2. CASE Drain
  BY <1>2, StartupIsOver
     DEF Drain, IInv, TypeOK, NotStarted, ServeReports, EndsForAReason, Done
<1>3. CASE SelectServe
  BY <1>3, StartupIsOver
     DEF SelectServe, CancelOther, IInv, TypeOK, NotStarted, ServeReports, EndsForAReason, Done
<1>4. CASE CloseMcpBegins \/ CloseMcpEnds \/ CloseApp
  <2>1. TypeOK'
    BY <1>4 DEF CloseMcpBegins, CloseMcpEnds, CloseApp, IInv, TypeOK
  <2>2. (Registered /\ NotStarted /\ Started)'
    <3>1. /\ UNCHANGED <<server, code, cancelled, cacheErr, tools, todo, ops, card>>
          /\ main' \in {"closingMcp", "closeApp", "exited"}
      BY <1>4 DEF CloseMcpBegins, CloseMcpEnds, CloseApp
    <3>2. Registered'
      BY <3>1 DEF IInv, Registered, Registry, Proxy
    <3>3. NotStarted'
      BY <3>1 DEF IInv, NotStarted
    <3>4. Started'
      BY <3>1 DEF IInv, Started, BySkill
    <3> QED
      BY <3>2, <3>3, <3>4
  <2>3. (ServeReports /\ EndsForAReason)'
    BY <1>4 DEF CloseMcpBegins, CloseMcpEnds, CloseApp, IInv, ServeReports, EndsForAReason, Done
  <2> QED
    BY <2>1, <2>2, <2>3 DEF IInv
<1>5. CASE Listen \/ ServeFails
  BY <1>5, StartupIsOver
     DEF Listen, ServeFails, IInv, TypeOK, Started, ServeReports, EndsForAReason,
         Done
<1>6. CASE CloseServer \/ ServeReturns
  BY <1>6, StartupIsOver
     DEF CloseServer, ServeReturns, ServeResult, IInv, TypeOK, Started, ServeReports,
         EndsForAReason, Done
<1>7. CASE CacheReturns
  BY <1>7, StartupIsOver
     DEF CacheReturns, IInv, TypeOK, Started, ServeReports, EndsForAReason, Done
<1> QED
  BY <1>1, <1>2, <1>3, <1>4, <1>5, <1>6, <1>7

\* Requests, the signal and the service.
LEMMA SurroundingsPreserve ==
    ASSUME IInv,
           \/ \E h \in Handlers : RequestStep(h) \/ \E n \in DOMAIN ops : Accept(h, n)
           \/ Signal \/ Exited \/ UNCHANGED vars
           \/ \E s \in Catalogs : ServiceChanges(s)
    PROVE  IInv'
<1> USE DEF channels
<1>1. ASSUME NEW h \in Handlers, RequestStep(h) \/ \E n \in DOMAIN ops : Accept(h, n)
      PROVE  IInv'
  <2>1. UNCHANGED <<main, code, signalled, cancelled, channels, server, boot, mcpClosed>>
    BY <1>1 DEF RequestStep, Begin, Reconnect, OldClosed, Discard, NewClosed, Goes,
                CallEnds, DialEnds, DialCancelled, Finish, Respond, Accept
  <2>2. (Registered /\ NotStarted /\ Started /\ ServeReports /\ EndsForAReason)'
    BY <2>1 DEF boot, IInv, Registered, NotStarted, Started, ServeReports, EndsForAReason, Done,
                Registry, Proxy, BySkill
  <2>3. TypeOK'
    BY <1>1, <2>1
       DEF boot, IInv, TypeOK, RequestStep, Begin, Reconnect, OldClosed, Discard, NewClosed,
           Goes, CallEnds, DialEnds, DialCancelled, Finish, Respond, Accept
  <2> QED
    BY <2>2, <2>3 DEF IInv
<1>2. CASE Signal
  BY <1>2 DEF Signal, requests, boot, IInv, TypeOK, Registered, NotStarted, Started, ServeReports,
              EndsForAReason, Done, Registry, Proxy, BySkill
<1>3. CASE UNCHANGED vars
  BY <1>3 DEF vars, requests, boot, IInv, TypeOK, Registered, NotStarted, Started, ServeReports,
              EndsForAReason, Done, Registry, Proxy, BySkill
<1>4. ASSUME NEW s \in Catalogs, ServiceChanges(s)
      PROVE  IInv'
  BY <1>4 DEF ServiceChanges, requests, IInv, TypeOK, Registered, NotStarted, Started,
              ServeReports, EndsForAReason, Done, Registry, Proxy, BySkill
<1> QED
  BY <1>1, <1>2, <1>3, <1>4 DEF Exited

\* IInv is inductive, for every number of requests and all catalogs.
THEOREM Invariant == Spec => []IInv
<1>1. Init => IInv
  <2> SUFFICES ASSUME Init PROVE IInv
    OBVIOUS
  <2>1. DOMAIN Empty = {}
    BY DEF Empty
  <2>2. TypeOK
    BY <2>1 DEF Init, TypeOK
  <2>3. Registered /\ NotStarted /\ Started
    BY DEF Init, Registered, NotStarted, Started
  <2>4. ServeReports /\ EndsForAReason
    BY DEF Init, ServeReports, EndsForAReason
  <2> QED
    BY <2>2, <2>3, <2>4 DEF IInv
<1>2. IInv /\ [Next]_vars => IInv'
  BY StartupPreserves, RunningPreserves, SurroundingsPreserve DEF Next, MainStep, ServerStep
<1> QED
  BY <1>1, <1>2, PTL DEF Spec

-----------------------------------------------------------------------------
(* The properties *)

\* The types; every published operation is under a skill of the agent
\* (main.go:67, wire.go:37-52).
THEOREM TypeCorrect == Spec => []TypeOK
<1>1. IInv => TypeOK
  BY DEF IInv
<1> QED
  BY <1>1, Invariant, PTL

\* What a listening agent publishes is its own tools and the catalog read at
\* startup, in whatever order main's loop ranged over it (main.go:62-72).
THEOREM FrozenCatalogServed == Spec => []ServesTheFrozenCatalog
<1>1. ASSUME IInv, server = "listening"
      PROVE  Published =
                {[skill |-> Own[n].skill, tool |-> n, schema |-> LocalSchema] : n \in DOMAIN Own}
                \cup {[skill |-> "svpchain-evm", tool |-> n, schema |-> tools[n]] :
                         n \in DOMAIN tools \ Reserved}
  <2>1. ops = Registry(DOMAIN tools \ Reserved)
    BY <1>1 DEF IInv, Registered, Started
  <2>2. \A n \in DOMAIN Own : Own[n].schema = LocalSchema
    BY DEF Own, Op
  <2>3. \A n : Proxy(n).skill = "svpchain-evm" /\ Proxy(n).schema = tools[n]
    BY DEF Proxy, Op
  <2>4. \A n \in DOMAIN Own : ops[n] = Own[n]
    BY <2>1 DEF Registry
  <2>5. \A n \in DOMAIN tools \ Reserved : ops[n] = Proxy(n)
    BY <2>1, OwnIsReserved DEF Registry
  <2>6. DOMAIN ops = DOMAIN Own \cup (DOMAIN tools \ Reserved)
    BY <2>1 DEF Registry
  <2> QED
    BY <2>2, <2>3, <2>4, <2>5, <2>6 DEF Published
<1>2. IInv => ServesTheFrozenCatalog
  BY <1>1 DEF ServesTheFrozenCatalog, Reserved
<1> QED
  BY <1>2, Invariant, PTL

\* What the card names dispatches under the skill it is named under, and the
\* agent's own names to the agent (a2aserver/card.go, main.go:62-67).
THEOREM CardTruthful == Spec => []CardDispatches
<1>1. ASSUME IInv, server = "listening"
      PROVE  CardDispatches
  <2>1. ops = Registry(DOMAIN tools \ Reserved) /\ card = BySkill
    BY <1>1 DEF IInv, Registered, Started
  <2>2. \A n \in DOMAIN Own : ops[n].by = "local"
    BY <2>1 DEF Registry, Own, Op
  <2>3. \A n \in DOMAIN ops \ DOMAIN Own : n \in DOMAIN tools /\ ops[n].by = "mcp"
    BY <2>1 DEF Registry, Proxy, Op
  <2>4. \A s \in DOMAIN card : \A n \in card[s] : n \in DOMAIN ops /\ ops[n].skill = s
    BY <2>1 DEF BySkill
  <2> QED
    BY <2>2, <2>3, <2>4 DEF CardDispatches
<1>2. IInv => CardDispatches
  BY <1>1 DEF CardDispatches
<1> QED
  BY <1>2, Invariant, PTL

\* Status 0 only for a process that was told to stop, 1 after startup only
\* for a server that failed (server.go:48-59, main.go:33-36).
THEOREM ExitTruthful == Spec => []ExitIsTruthful
<1>1. IInv => ExitIsTruthful
  BY DEF IInv, EndsForAReason, NotStarted, ExitIsTruthful
<1> QED
  BY <1>1, Invariant, PTL
=============================================================================
