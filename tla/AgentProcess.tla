---------------------------- MODULE AgentProcess ----------------------------
(***************************************************************************)
(* One process of cmd/svpchain-evm-agent, from main.run to its exit: the   *)
(* startup synchronisation that fills the registry, the two goroutines of  *)
(* a2aserver.StartFullFor and their channels, requests in flight, and the  *)
(* deferred Closes.  A request's private MCP call is reduced to what       *)
(* DefiMcp says of the mutex: a call holds it, while it reconnects it is   *)
(* in client.Connect, which only its context ends, or closes a session,    *)
(* which nothing ends but the answer.                                      *)
(*                                                                         *)
(* Nothing outlives the process: a restart is a behaviour of its own, from *)
(* whatever catalog the service lists by then.                             *)
(***************************************************************************)
EXTENDS Naturals, FiniteSets

CONSTANTS Handlers,     \* request goroutines
          Catalogs,     \* catalogs the service may list, [name -> schema]
          NoCatalog,
          ReadOnly,     \* the names agentrunner's readOnly accepts
          LocalSchema,  \* a schema reflected from a local handler
          Closer,       \* the deferred Close holds the MCP client's mutex
          Nobody        \* nobody does

ASSUME OwnerAssumption == Closer # Nobody /\ {Closer, Nobody} \cap Handlers = {}

VARIABLES main,         \* where run(), or StartFullFor under it, is
          code,         \* the exit status once it is known
          signalled,    \* SIGINT or SIGTERM: the outer context is done
          cancelled,    \* StartFullFor's own context is done
          cacheErr,     \* the channel app.Run's goroutine writes to
          serveErr,     \* the channel serve's goroutine writes to
          server,       \* the state of serve
          service,      \* the catalog the private MCP lists now
          tools,        \* the catalog Connect froze
          todo,         \* its tools main's loop has not reached
          ops,          \* Registry.ops
          llm,          \* the tools of the runner
          card,         \* the names the Agent Card gives under each skill
          req,          \* what each request is doing
          asked,        \* the tool it calls
          lock,         \* the mutex of the MCP client
          mcpClosed     \* the MCP client's Close has run

boot == <<service, tools, todo, ops, llm, card>>
channels == <<cacheErr, serveErr>>
requests == <<req, asked, lock>>
vars == <<main, code, signalled, cancelled, channels, server, boot, requests,
          mcpClosed>>

-----------------------------------------------------------------------------
(* The registry *)

\* Mutated: skill and origin swapped.
Op_Swapped(skill, schema, by) == [skill |-> by, schema |-> schema, by |-> skill]

Op(skill, schema, by) == [skill |-> skill, schema |-> schema, by |-> by]

Reserved == {"auth_challenge", "auth_verify", "broadcast_evm_tx", "evm_tx_status",
             "list_tools"}

\* What wire.Build registers.
Own ==
    [n \in {"broadcast_evm_tx", "evm_tx_status", "list_tools"} |->
        Op(IF n = "list_tools" THEN "svpchain-meta" ELSE "svpchain-evm", LocalSchema, "local")]

\* Add and AddProxy refuse a name that is taken.
MayAdd(n) == n \notin DOMAIN ops

\* Mutated: the proxy is given no schema.
Proxy_Shapeless(n) == Op("svpchain-evm", LocalSchema, "mcp")

Proxy(n) == Op("svpchain-evm", tools[n], "mcp")

Skills == {"svpchain-auth", "svpchain-meta", "svpchain-evm"}

\* Mutated: the card is made from the private catalog.
BySkill_Catalog == [s \in {"svpchain-meta", "svpchain-evm"} |->
                      IF s = "svpchain-meta" THEN {"list_tools"} ELSE DOMAIN tools]

\* BySkill and BuildAgentCardFor; a skill without tools is left out.
BySkill ==
    [s \in {t \in Skills : \E n \in DOMAIN ops : ops[n].skill = t} |->
        {n \in DOMAIN ops : ops[n].skill = s}]

\* listTools: the registry itself.
Published == {[skill |-> ops[n].skill, tool |-> n, schema |-> ops[n].schema] : n \in DOMAIN ops}

-----------------------------------------------------------------------------
Empty == [n \in {} |-> NoCatalog]

Init ==
    /\ main = "boot" /\ code = 1
    /\ signalled = FALSE /\ cancelled = FALSE
    /\ cacheErr = "empty" /\ serveErr = "empty" /\ server = "off"
    /\ tools = NoCatalog /\ todo = {} /\ ops = Empty /\ llm = {} /\ card = Empty
    /\ req = [h \in Handlers |-> "idle"]
    /\ asked = [h \in Handlers |-> "none"]
    /\ lock = Nobody /\ mcpClosed = FALSE
    /\ service \in Catalogs

(* main.run up to StartFullFor *)

\* Configuration, EVM endpoint and registry; any of them may be refused.
Build ==
    /\ main = "boot"
    /\ \/ main' = "built" /\ ops' = Own
       \/ main' = "exited" /\ UNCHANGED ops
    /\ UNCHANGED <<code, signalled, cancelled, channels, server, service, tools, todo,
                   llm, card, requests, mcpClosed>>

\* The catalog is frozen.
Connect ==
    /\ main = "built" /\ ~signalled
    /\ tools' = service /\ todo' = DOMAIN service
    /\ main' = "proxying"
    /\ UNCHANGED <<code, signalled, cancelled, channels, server, service, ops, llm, card,
                   requests, mcpClosed>>

\* The service is away, its listing is refused, or a signal came.
ConnectFails ==
    /\ main = "built"
    /\ main' = "closeApp"
    /\ UNCHANGED <<code, signalled, cancelled, channels, server, boot, requests,
                   mcpClosed>>

\* The loop over mcpClient.Tools(), in the order of a Go map.
SkipReserved(n) ==
    /\ main = "proxying" /\ n \in todo /\ n \in Reserved
    /\ todo' = todo \ {n}
    /\ UNCHANGED <<main, code, signalled, cancelled, channels, server, service, tools,
                   ops, llm, card, requests, mcpClosed>>

AddProxy(n) ==
    /\ main = "proxying" /\ n \in todo /\ n \notin Reserved
    /\ todo' = todo \ {n}
    /\ IF MayAdd(n)
       THEN /\ ops' = [m \in DOMAIN ops \cup {n} |-> IF m = n THEN Proxy(n) ELSE ops[m]]
            /\ UNCHANGED main
       ELSE main' = "closeMcp" /\ UNCHANGED ops
    /\ UNCHANGED <<code, signalled, cancelled, channels, server, service, tools, llm, card,
                   requests, mcpClosed>>

RunnerTools == DOMAIN tools \cap ReadOnly

\* agentrunner.New, then StartFullFor up to its select.
Start ==
    /\ main = "proxying" /\ todo = {}
    /\ llm' = RunnerTools
    /\ card' = BySkill
    /\ server' = "starting"
    /\ main' = "select"
    /\ UNCHANGED <<code, signalled, cancelled, channels, service, tools, todo, ops,
                   requests, mcpClosed>>

-----------------------------------------------------------------------------
(* StartFullFor's goroutines *)

\* StartFullFor's context is the signal's child.
Done == signalled \/ cancelled

\* app.Run waits for the context.
CacheReturns ==
    /\ main \notin {"boot", "built", "proxying", "exited"} /\ server # "off"
    /\ Done /\ cacheErr = "empty"
    /\ cacheErr' = "nil"
    /\ UNCHANGED <<main, code, signalled, cancelled, serveErr, server, boot, requests,
                   mcpClosed>>

Listen ==
    /\ server = "starting" /\ main # "exited"
    /\ \/ server' = "listening" /\ UNCHANGED serveErr
       \/ server' = "failed" /\ serveErr' = "error"
    /\ UNCHANGED <<main, code, signalled, cancelled, cacheErr, boot, requests,
                   mcpClosed>>

\* The goroutine that waits for the context closes the listener.
CloseServer ==
    /\ server = "listening" /\ Done /\ main # "exited"
    /\ server' = "closed"
    /\ UNCHANGED <<main, code, signalled, cancelled, channels, boot, requests,
                   mcpClosed>>

\* Mutated: the error of a closed server is passed on.
ServeResult_Raw == "error"

\* http.ErrServerClosed is no error.
ServeResult == "nil"

ServeReturns ==
    /\ server = "closed" /\ main # "exited"
    /\ server' = "returned" /\ serveErr' = ServeResult
    /\ UNCHANGED <<main, code, signalled, cancelled, cacheErr, boot, requests,
                   mcpClosed>>

\* Accept fails for good.
ServeFails ==
    /\ server = "listening" /\ main # "exited"
    /\ server' = "failed" /\ serveErr' = "error"
    /\ UNCHANGED <<main, code, signalled, cancelled, cacheErr, boot, requests,
                   mcpClosed>>

\* The half that goes takes the other one with it.
CancelOther == cancelled' = TRUE

\* The select takes the cache's channel: wait for the server.
SelectCache ==
    /\ main = "select" /\ cacheErr # "empty"
    /\ CancelOther
    /\ main' = "draining"
    /\ UNCHANGED <<code, signalled, channels, server, boot, requests, mcpClosed>>

Drain ==
    /\ main = "draining" /\ serveErr # "empty"
    /\ main' = "closeMcp" /\ code' = 0
    /\ UNCHANGED <<signalled, cancelled, channels, server, boot, requests, mcpClosed>>

\* The select takes the server's channel.
SelectServe ==
    /\ main = "select" /\ serveErr # "empty"
    /\ CancelOther
    /\ main' = "closeMcp" /\ code' = IF serveErr = "nil" THEN 0 ELSE 1
    /\ UNCHANGED <<signalled, channels, server, boot, requests, mcpClosed>>

MutexFree == lock = Nobody

\* The deferred mcpClient.Close waits for the client's mutex, and closes the
\* session under it.
CloseMcpBegins ==
    /\ main = "closeMcp" /\ MutexFree
    /\ lock' = Closer
    /\ main' = "closingMcp"
    /\ UNCHANGED <<code, signalled, cancelled, channels, server, boot, req, asked, mcpClosed>>

CloseMcpEnds ==
    /\ main = "closingMcp"
    /\ lock' = Nobody
    /\ mcpClosed' = TRUE
    /\ main' = "closeApp"
    /\ UNCHANGED <<code, signalled, cancelled, channels, server, boot, req, asked>>

\* The deferred app.Close; then the process is gone, whatever is in flight.
CloseApp ==
    /\ main = "closeApp"
    /\ main' = "exited"
    /\ UNCHANGED <<code, signalled, cancelled, channels, server, boot, requests,
                   mcpClosed>>

Signal ==
    /\ ~signalled /\ main # "exited"
    /\ signalled' = TRUE
    /\ UNCHANGED <<main, code, cancelled, channels, server, boot, requests, mcpClosed>>

Exited == main = "exited" /\ UNCHANGED vars

\* The service's catalog changes under a running agent.
ServiceChanges(s) ==
    /\ main \notin {"boot", "exited"} /\ s # service
    /\ service' = s
    /\ UNCHANGED <<main, code, signalled, cancelled, channels, server, tools, todo, ops,
                   llm, card, requests, mcpClosed>>

-----------------------------------------------------------------------------
(* Requests that call a private tool *)

Alive == main # "exited"

\* A caller names a proxied tool; the handler waits for the client's mutex.
Accept(h, n) ==
    /\ Alive /\ server = "listening"
    /\ req[h] = "idle"
    /\ n \in DOMAIN ops /\ ops[n].by = "mcp"
    /\ req' = [req EXCEPT ![h] = "waiting"]
    /\ asked' = [asked EXCEPT ![h] = n]
    /\ UNCHANGED <<main, code, signalled, cancelled, channels, server, boot, lock,
                   mcpClosed>>

Begin(h) ==
    /\ Alive /\ req[h] = "waiting" /\ lock = Nobody
    /\ \/ /\ ~mcpClosed
          /\ lock' = h /\ req' = [req EXCEPT ![h] = "calling"]
       \/ /\ mcpClosed
          /\ req' = [req EXCEPT ![h] = "done"] /\ UNCHANGED lock
    /\ UNCHANGED <<main, code, signalled, cancelled, channels, server, boot, asked,
                   mcpClosed>>

\* The request goes from one part of its call to the next.
Goes(h, from, to) ==
    /\ Alive /\ req[h] = from
    /\ req' = [req EXCEPT ![h] = to]
    /\ UNCHANGED <<main, code, signalled, cancelled, channels, server, boot, asked, lock,
                   mcpClosed>>

\* The session broke: it is closed, then client.Connect dials, without a
\* deadline of its own.
Reconnect(h) == Goes(h, "calling", "dropping")

OldClosed(h) == Goes(h, "dropping", "dialing")

\* The new session is not what was frozen, and is closed again.
Discard(h) == Goes(h, "dialing", "discarding")

\* Mutated: the mutex is not released.
Finish_KeepsMutex(h, from) ==
    /\ Alive /\ req[h] = from
    /\ req' = [req EXCEPT ![h] = "done"]
    /\ UNCHANGED <<main, code, signalled, cancelled, channels, server, boot, asked, lock,
                   mcpClosed>>

Finish(h, from) ==
    /\ Alive /\ req[h] = from
    /\ lock' = Nobody
    /\ req' = [req EXCEPT ![h] = "done"]
    /\ UNCHANGED <<main, code, signalled, cancelled, channels, server, boot, asked,
                   mcpClosed>>

\* The call's own deadline sees to it that it ends.
CallEnds(h) == Finish(h, "calling")

DialEnds(h) == Finish(h, "dialing")

NewClosed(h) == Finish(h, "discarding")

\* Mutated: the reconnect is given a context of its own.
DialContextDone_Background == FALSE

\* serviceCtx is the signal's context, not StartFullFor's.
DialContextDone == signalled

DialCancelled(h) == DialContextDone /\ Finish(h, "dialing")

Respond(h) ==
    /\ Alive /\ req[h] = "done"
    /\ req' = [req EXCEPT ![h] = "idle"]
    /\ asked' = [asked EXCEPT ![h] = "none"]
    /\ UNCHANGED <<main, code, signalled, cancelled, channels, server, boot, lock,
                   mcpClosed>>

-----------------------------------------------------------------------------
MainStep ==
    \/ Build \/ Connect \/ ConnectFails
    \/ \E n \in todo : SkipReserved(n) \/ AddProxy(n)
    \/ Start
    \/ SelectCache \/ Drain \/ SelectServe \/ CloseMcpBegins \/ CloseApp

ServerStep == Listen \/ CloseServer \/ ServeReturns

RequestStep(h) ==
    \/ Begin(h) \/ Reconnect(h) \/ OldClosed(h) \/ Discard(h) \/ NewClosed(h)
    \/ CallEnds(h) \/ DialEnds(h) \/ DialCancelled(h) \/ Respond(h)

Next ==
    \/ MainStep \/ CloseMcpEnds \/ ServerStep \/ CacheReturns \/ ServeFails \/ Signal \/ Exited
    \/ \E s \in Catalogs : ServiceChanges(s)
    \/ \E h \in Handlers : RequestStep(h) \/ \E n \in DOMAIN ops : Accept(h, n)

Spec == Init /\ [][Next]_vars

\* Goroutines that can run do; sync.Mutex starves nobody; a call has a
\* deadline and a dial ends once serviceCtx is done.  Nothing else ends one,
\* and nothing at all the Close of a session.
FairSpec ==
    /\ Spec
    /\ WF_vars(MainStep) /\ SF_vars(CloseMcpBegins)
    /\ WF_vars(ServerStep) /\ WF_vars(CacheReturns)
    /\ \A h \in Handlers :
          SF_vars(Begin(h)) /\ WF_vars(CallEnds(h)) /\ WF_vars(DialCancelled(h))
          /\ WF_vars(Respond(h))

-----------------------------------------------------------------------------
(* Properties *)

\* Type correctness: in particular every operation is published under one of
\* the agent's skills (main.go:67, wire.go:37-52).
TypeOK ==
    /\ main \in {"boot", "built", "proxying", "select", "draining", "closeMcp",
                 "closingMcp", "closeApp", "exited"}
    /\ code \in {0, 1}
    /\ {signalled, cancelled, mcpClosed} \subseteq BOOLEAN
    /\ {cacheErr, serveErr} \subseteq {"empty", "nil", "error"}
    /\ server \in {"off", "starting", "listening", "closed", "returned", "failed"}
    /\ service \in Catalogs /\ tools \in Catalogs \cup {NoCatalog}
    /\ \A n \in DOMAIN ops : ops[n].skill \in Skills
    /\ DOMAIN card \subseteq Skills
    /\ req \in [Handlers -> {"idle", "waiting", "calling", "dropping", "dialing", "discarding",
                         "done"}]
    /\ lock \in Handlers \cup {Closer, Nobody}

\* While the agent listens, what it publishes is a function of the catalog it
\* froze: its own tools, served by itself, and every other tool of the
\* catalog with the service's schema, whatever order the map was ranged in
\* and whatever the service lists meanwhile (main.go:62-72, meta.go:64-81).
ServesTheFrozenCatalog ==
    server = "listening" =>
        Published =
            {[skill |-> Own[n].skill, tool |-> n, schema |-> LocalSchema] : n \in DOMAIN Own}
            \cup {[skill |-> "svpchain-evm", tool |-> n, schema |-> tools[n]] :
                     n \in DOMAIN tools \ {"auth_challenge", "auth_verify",
                                           "broadcast_evm_tx", "evm_tx_status", "list_tools"}}

\* The name a caller finds on the card dispatches under that skill, and to
\* this process when it is one of the agent's own (docs, design lines 47-49).
CardDispatches ==
    server = "listening" =>
        /\ \A s \in DOMAIN card : \A n \in card[s] : n \in DOMAIN ops /\ ops[n].skill = s
        /\ \A n \in DOMAIN ops : ops[n].by = "mcp" => n \in DOMAIN tools
        /\ \A n \in DOMAIN ops \ DOMAIN tools : ops[n].by = "local"
        /\ \A n \in DOMAIN Own : ops[n].by = "local"

\* The exit status: 0 exactly for a run that was told to stop; a server that
\* could not listen or accept is reported unless the stop came as well
\* (server.go:48-59, main.go:33-36).
ExitIsTruthful ==
    main = "exited" =>
        /\ code = 0 => signalled
        /\ code = 1 /\ card # Empty => server = "failed"

\* Somebody closes a session, a step the service may never answer
\* (client.go:187, 194, 252), or dials it (client.go:91).
Closing == main = "closingMcp" \/ \E h \in Handlers : req[h] \in {"dropping", "discarding"}
Dialing == \E h \in Handlers : req[h] = "dialing"

Stops == main = "exited"

\* A signal ends the process, whatever its goroutines, its requests and its
\* mutex are doing, dials included, unless a session is never closed
\* (main.go:28-31, server.go:48-59).
SignalStops == []<>~Closing => (signalled ~> Stops)

\* server.go:45-47: a dead HTTP server takes the whole agent down; the Close
\* of a session may even be taken to end.
DeadServerStops == []<>~Closing => ((server = "failed") ~> Stops)

\* What the code does make sure of: the only things that keep the process of
\* a dead server are a session that is not closed and a reconnect that waits
\* in client.Connect, holding the mutex Close needs (server.go:48-59).
DeadServerStopsUnlessDialing == []<>~(Closing \/ Dialing) => ((server = "failed") ~> Stops)
=============================================================================
