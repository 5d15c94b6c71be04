------------------------------ MODULE DefiMcp -------------------------------
(***************************************************************************)
(* internal/defimcp/client.go: the one connection of the agent to the      *)
(* private DeFi MCP service.  Every skill call and every LLM tool call     *)
(* goes through Client.Call, which holds one mutex from its first line to  *)
(* its return: across the network call, the reconnect and the retry.       *)
(*                                                                         *)
(* The service is external.  It keeps sessions in memory, so stopping it   *)
(* breaks every session and loses what is in flight; it may come back with *)
(* another catalog.  A connection may also break while the service is up,  *)
(* in which case a request already sent may still be run.                  *)
(***************************************************************************)
EXTENDS Naturals, Sequences

CONSTANTS Calls,        \* call slots: goroutines inside Client.Call
          Names,        \* tool names callers ask for, listed or not
          RetrySafe,    \* the names retrySafeTool accepts
          Listings,     \* what the service may answer to tools/list
          Blank,        \* a name that is empty once trimmed
          NoSchema,     \* a missing InputSchema
          NoTool,       \* the name of an idle slot
          NoOwner,      \* the mutex is free
          Closer        \* main's deferred Close, as an owner of the mutex

VARIABLES lock,         \* who holds Client.mu
          session,      \* Client.session: nil ("none"), usable or broken
          tools,        \* Client.tools: the catalog frozen at startup
          pc,           \* where call c is in Client.Call
          tool,         \* the name it was given
          sent,         \* the fate of its (at most two) requests: "ran" is
                        \* a success, "erred" a run that ends in a tool error
          outcome,      \* what it returned
          dial,         \* connectSession's own session, during a reconnect
          closed,       \* Client.Close has run
          up,           \* the service is reachable
          served        \* the listing it serves

clientVars  == <<lock, session, tools, dial, closed>>
callVars    == <<pc, tool, sent, outcome>>
serviceVars == <<up, served>>
vars == <<clientVars, callVars, serviceVars>>

-----------------------------------------------------------------------------
(* The catalog *)

\* What connectSession accepts: tools, each named and with a schema, no
\* name twice.
ValidListing(l) ==
    /\ Len(l) > 0
    /\ \A i \in 1..Len(l) : l[i].name # Blank /\ l[i].schema # NoSchema
    /\ \A i, j \in 1..Len(l) : l[i].name = l[j].name => i = j

\* The map from name to schema that connectSession builds.
Catalog(l) ==
    [n \in {l[i].name : i \in 1..Len(l)} |->
        l[CHOOSE i \in 1..Len(l) : l[i].name = n].schema]

\* Mutated: schemas are not compared.
SameCatalog_NamesOnly(want, got) == DOMAIN want = DOMAIN got

SameCatalog(want, got) ==
    /\ DOMAIN want = DOMAIN got
    /\ \A n \in DOMAIN want : want[n] = got[n]

ValidListings == {l \in Listings : ValidListing(l)}
Catalogs == {Catalog(l) : l \in ValidListings}

ASSUME OwnerAssumption == NoOwner \notin Calls /\ Closer \notin Calls \cup {NoOwner}
ASSUME NoToolAssumption == NoTool \notin Names
ASSUME ListingAssumption == ValidListings # {}

-----------------------------------------------------------------------------
(* Predicates on the state *)

\* Between the loss of a session and what replaces it.
Reconnecting == {"dropping", "dialing", "listing", "discarding"}
Holding == {"calling"} \cup Reconnecting
Ended == {"refused", "answered", "failed"}

\* Which of Call's two callTool calls c is in.
Attempt(c) == IF sent[c][2] = "unsent" THEN 1 ELSE 2

InFlight(c) == \E k \in 1..2 : sent[c][k] = "inflight"

\* Type correctness: in particular the frozen catalog is one that
\* connectSession would accept (client.go:104-121), after a restart as well.
TypeOK ==
    /\ lock \in Calls \cup {NoOwner, Closer}
    /\ session \in {"none", "open", "broken"}
    /\ tools \in Catalogs
    /\ pc \in [Calls -> {"idle", "queued", "done"} \cup Holding]
    /\ tool \in [Calls -> Names \cup {NoTool}]
    /\ sent \in [Calls -> [1..2 -> {"unsent", "inflight", "ran", "erred", "lost"}]]
    /\ outcome \in [Calls -> {"none"} \cup Ended]
    /\ dial \in {"none", "open", "broken"}
    /\ closed \in BOOLEAN
    /\ up \in BOOLEAN
    /\ served \in Listings

\* The agent has just started: Connect froze the catalog.
Init ==
    /\ lock = NoOwner
    /\ session = "open" /\ dial = "none" /\ closed = FALSE
    /\ up = TRUE /\ served \in ValidListings
    /\ tools = Catalog(served)
    /\ pc = [c \in Calls |-> "idle"]
    /\ tool = [c \in Calls |-> NoTool]
    /\ sent = [c \in Calls |-> [k \in 1..2 |-> "unsent"]]
    /\ outcome = [c \in Calls |-> "none"]

-----------------------------------------------------------------------------
(* Client.Call *)

\* An A2A request or the runner calls Call(name) and waits for the mutex.
Submit(c, n) ==
    /\ pc[c] = "idle"
    /\ pc' = [pc EXCEPT ![c] = "queued"]
    /\ tool' = [tool EXCEPT ![c] = n]
    /\ UNCHANGED <<clientVars, sent, outcome, serviceVars>>

\* Mutated: somebody else may be inside.
MutexFree_NotAsked == TRUE

\* Lock() succeeds.
MutexFree == lock = NoOwner

\* Mutated: a return without the Unlock.
Return_KeepsMutex(c, o) ==
    /\ pc' = [pc EXCEPT ![c] = "done"]
    /\ outcome' = [outcome EXCEPT ![c] = o]
    /\ UNCHANGED lock

\* Call returns o; the deferred Unlock runs.
Return(c, o) ==
    /\ pc' = [pc EXCEPT ![c] = "done"]
    /\ outcome' = [outcome EXCEPT ![c] = o]
    /\ lock' = NoOwner

\* Mutated: the catalog is not consulted.
Listed_Unchecked(n) == TRUE

Listed(n) == n \in DOMAIN tools

\* The name is not in the startup catalog.
RejectUnknown(c) ==
    /\ pc[c] = "queued" /\ MutexFree
    /\ ~Listed(tool[c])
    /\ Return(c, "refused")
    /\ UNCHANGED <<session, tools, dial, closed, tool, sent, serviceVars>>

\* callTool finds a nil session.  Its error is not one that sessionFailure
\* recognises, so Call returns it and does not reconnect.
RefuseDisconnected(c) ==
    /\ pc[c] = "queued" /\ MutexFree
    /\ Listed(tool[c])
    /\ session = "none"
    /\ Return(c, "refused")
    /\ UNCHANGED <<session, tools, dial, closed, tool, sent, serviceVars>>

\* callTool writes the request.
SendFirst(c) ==
    /\ pc[c] = "queued" /\ MutexFree
    /\ Listed(tool[c])
    /\ session # "none"
    /\ lock' = c
    /\ pc' = [pc EXCEPT ![c] = "calling"]
    /\ sent' = [sent EXCEPT ![c][1] = IF session = "open" THEN "inflight" ELSE "lost"]
    /\ UNCHANGED <<session, tools, dial, closed, tool, outcome, serviceVars>>

\* Mutated: the error of a lost request is not looked at.
AnswerGuard_ErrorUnchecked(c) == sent[c][Attempt(c)] \in {"ran", "erred", "lost"}

\* callTool came back without an error.
AnswerGuard(c) == sent[c][Attempt(c)] \in {"ran", "erred"}

\* Mutated: IsError is not looked at.
Result_ErrorIgnored(c) == "answered"

\* A tool error comes inside a result, and Call makes an error of it.
Result(c) == IF sent[c][Attempt(c)] = "erred" THEN "failed" ELSE "answered"

\* The result arrives.
Answer(c) ==
    /\ pc[c] = "calling"
    /\ AnswerGuard(c)
    /\ session = "open"
    /\ Return(c, Result(c))
    /\ UNCHANGED <<session, tools, dial, closed, tool, sent, serviceVars>>

\* The per-call deadline, a cancelled caller, or any error whose text
\* sessionFailure does not know; on the second attempt, any error at all.
CallFails(c) ==
    /\ pc[c] = "calling"
    /\ Return(c, "failed")
    /\ UNCHANGED <<session, tools, dial, closed, tool, sent, serviceVars>>

\* The error text is one of sessionFailure's.
SessionFailure == session = "broken"

\* An error that sessionFailure recognises: reconnect drops the old session
\* and closes it.  Only the first attempt gets here.
SessionFails(c) ==
    /\ pc[c] = "calling" /\ Attempt(c) = 1
    /\ SessionFailure
    /\ session' = "none"
    /\ pc' = [pc EXCEPT ![c] = "dropping"]
    /\ UNCHANGED <<lock, tools, dial, closed, tool, sent, outcome, serviceVars>>

-----------------------------------------------------------------------------
(* reconnect and connectSession, still under the mutex.  Closing a session *)
(* is a request to the service, without a deadline; its error is ignored.  *)

\* old.Close() comes back.
OldClosed(c) ==
    /\ pc[c] = "dropping"
    /\ pc' = [pc EXCEPT ![c] = "dialing"]
    /\ UNCHANGED <<clientVars, tool, sent, outcome, serviceVars>>

\* client.Connect has no deadline: it ends when the network or the service
\* ends it.
DialSucceeds(c) ==
    /\ pc[c] = "dialing" /\ up
    /\ dial' = "open"
    /\ pc' = [pc EXCEPT ![c] = "listing"]
    /\ UNCHANGED <<lock, session, tools, closed, tool, sent, outcome, serviceVars>>

DialFails(c) ==
    /\ pc[c] = "dialing"
    /\ Return(c, "failed")
    /\ UNCHANGED <<session, tools, dial, closed, tool, sent, serviceVars>>

\* The new session is given up and closed.
Discard(c) ==
    /\ dial' = "none"
    /\ pc' = [pc EXCEPT ![c] = "discarding"]
    /\ UNCHANGED <<lock, session, tools, closed, tool, sent, outcome, serviceVars>>

\* ListTools fails or reaches its deadline.
ListFails(c) == pc[c] = "listing" /\ Discard(c)

\* The service lists tools that connectSession refuses, or that are not the
\* frozen catalog: the client stays without a session.
ListRefused(c) ==
    /\ pc[c] = "listing" /\ dial = "open"
    /\ ~(ValidListing(served) /\ SameCatalog(tools, Catalog(served)))
    /\ Discard(c)

\* The Close of the session that was given up comes back.
NewClosed(c) ==
    /\ pc[c] = "discarding"
    /\ Return(c, "failed")
    /\ UNCHANGED <<session, tools, dial, closed, tool, sent, serviceVars>>

\* Mutated: every tool is sent again after a reconnect.
MayRetry_Always(c) == TRUE

MayRetry(c) == tool[c] \in RetrySafe

\* The catalog is the frozen one: the client has a session again, and the
\* request is sent once more if the tool may be run twice.
ListAccepted(c) ==
    /\ pc[c] = "listing" /\ dial = "open"
    /\ ValidListing(served) /\ SameCatalog(tools, Catalog(served))
    /\ session' = "open" /\ dial' = "none"
    /\ \/ /\ MayRetry(c)
          /\ pc' = [pc EXCEPT ![c] = "calling"]
          /\ sent' = [sent EXCEPT ![c][2] = "inflight"]
          /\ UNCHANGED <<lock, outcome>>
       \/ /\ ~MayRetry(c)
          /\ Return(c, "failed")
          /\ UNCHANGED sent
    /\ UNCHANGED <<tools, closed, tool, serviceVars>>

\* The caller takes its result.  The slot serves another call once nothing
\* of this one can be run any more.
Leave(c) ==
    /\ pc[c] = "done" /\ ~InFlight(c)
    /\ pc' = [pc EXCEPT ![c] = "idle"]
    /\ tool' = [tool EXCEPT ![c] = NoTool]
    /\ sent' = [sent EXCEPT ![c] = [k \in 1..2 |-> "unsent"]]
    /\ outcome' = [outcome EXCEPT ![c] = "none"]
    /\ UNCHANGED <<clientVars, serviceVars>>

-----------------------------------------------------------------------------
(* Client.Close, and the agent's process *)

\* Close takes the mutex; without a session it returns at once.
CloseBegins ==
    /\ MutexFree /\ ~closed
    /\ IF session = "none" THEN closed' = TRUE /\ UNCHANGED lock
                           ELSE lock' = Closer /\ UNCHANGED closed
    /\ UNCHANGED <<session, tools, dial, callVars, serviceVars>>

\* session.Close() comes back.
CloseEnds ==
    /\ lock = Closer
    /\ session' = "none" /\ closed' = TRUE /\ lock' = NoOwner
    /\ UNCHANGED <<tools, dial, callVars, serviceVars>>

Close == CloseBegins \/ CloseEnds

\* Mutated: Connect takes whatever is listed.
StartupAccepts_Unvalidated == up

\* Connect's connectSession succeeds.
StartupAccepts == up /\ ValidListing(served)

\* The process dies and a new one runs Connect: calls are lost to their
\* callers, the catalog is frozen again, from what the service lists now.
Restart ==
    /\ StartupAccepts
    /\ lock' = NoOwner
    /\ session' = "open" /\ dial' = "none" /\ closed' = FALSE
    /\ tools' = Catalog(served)
    /\ pc' = [c \in Calls |-> IF pc[c] = "idle" THEN "idle" ELSE "done"]
    /\ outcome' = [c \in Calls |->
                     IF pc[c] = "queued" \/ pc[c] \in Holding
                     THEN "failed" ELSE outcome[c]]
    /\ UNCHANGED <<tool, sent, serviceVars>>

-----------------------------------------------------------------------------
(* The service and the network (external) *)

\* A request that reached the service is run, whatever became of its caller;
\* the tool works, or reports an error.
Execute(c, k) ==
    /\ sent[c][k] = "inflight"
    /\ \E fate \in {"ran", "erred"} : sent' = [sent EXCEPT ![c][k] = fate]
    /\ UNCHANGED <<clientVars, pc, tool, outcome, serviceVars>>

Lose(c, k) ==
    /\ sent[c][k] = "inflight"
    /\ sent' = [sent EXCEPT ![c][k] = "lost"]
    /\ UNCHANGED <<clientVars, pc, tool, outcome, serviceVars>>

Broken(s) == IF s = "open" THEN "broken" ELSE s

\* Connection closed, stream conflict, hanging GET torn down.
LinkFails ==
    /\ "open" \in {session, dial}
    /\ session' = Broken(session) /\ dial' = Broken(dial)
    /\ UNCHANGED <<lock, tools, closed, callVars, serviceVars>>

ServiceStops ==
    /\ up /\ up' = FALSE
    /\ session' = Broken(session) /\ dial' = Broken(dial)
    /\ sent' = [c \in Calls |-> [k \in 1..2 |->
                  IF sent[c][k] = "inflight" THEN "lost" ELSE sent[c][k]]]
    /\ UNCHANGED <<lock, tools, closed, pc, tool, outcome, served>>

ServiceStarts(l) ==
    /\ ~up /\ up' = TRUE /\ served' = l
    /\ UNCHANGED <<clientVars, callVars>>

-----------------------------------------------------------------------------
\* One of the three ways past Lock().
Enter(c) == RejectUnknown(c) \/ RefuseDisconnected(c) \/ SendFirst(c)

CallStep(c) ==
    \/ \E n \in Names : Submit(c, n)
    \/ Enter(c)
    \/ Answer(c) \/ CallFails(c) \/ SessionFails(c)
    \/ OldClosed(c) \/ DialSucceeds(c) \/ DialFails(c)
    \/ ListFails(c) \/ ListRefused(c) \/ ListAccepted(c) \/ NewClosed(c)
    \/ Leave(c)

Environment ==
    \/ \E c \in Calls, k \in 1..2 : Execute(c, k) \/ Lose(c, k)
    \/ LinkFails
    \/ ServiceStops
    \/ \E l \in Listings : ServiceStarts(l)

Next ==
    \/ \E c \in Calls : CallStep(c)
    \/ Close
    \/ Restart
    \/ Environment

Spec == Init /\ [][Next]_vars

\* What the code itself guarantees to happen: sync.Mutex lets no waiter
\* starve (starvation mode), callTool and ListTools have a deadline.
\* client.Connect and session.Close have none, so nothing is promised of a
\* call that dials or closes, nor of Close.
FairSpec ==
    /\ Spec
    /\ \A c \in Calls : SF_vars(Enter(c)) /\ WF_vars(CallFails(c))
                        /\ WF_vars(ListFails(c))

\* The same, under a kind environment: callers keep calling, a dial and a
\* session's Close are answered, a broken session is reported in words sessionFailure knows,
\* and a service that is down comes back.
KindSpec ==
    /\ FairSpec
    /\ \A c \in Calls :
          /\ SF_vars(\E n \in Names \cap DOMAIN tools : Submit(c, n))
          /\ WF_vars(Leave(c))
          /\ \A k \in 1..2 : WF_vars(Execute(c, k))
          /\ SF_vars(Answer(c)) /\ SF_vars(SessionFails(c))
          /\ WF_vars(OldClosed(c)) /\ WF_vars(NewClosed(c))
          /\ SF_vars(DialSucceeds(c)) /\ WF_vars(DialFails(c))
          /\ SF_vars(ListAccepted(c))
    /\ WF_vars(CloseEnds)
    /\ WF_vars(\E l \in Listings : ServiceStarts(l))

-----------------------------------------------------------------------------
(* Properties *)

\* A tool retrySafeTool refuses is sent to the service at most once, so it
\* cannot be run twice, whatever sessions, deadlines and restarts do to its
\* answer (client.go:147-154, comment at 231-232).
UnsafeAtMostOnce ==
    \A c \in Calls : (tool[c] \notin RetrySafe) => sent[c][2] = "unsent"

\* A call that was refused (unknown name, nil session) has sent nothing: its
\* caller may safely repeat it.  A call that was answered was run, and at
\* least one of its runs was no tool error (client.go:144-168).
OutcomeIsTruthful ==
    \A c \in Calls :
        /\ outcome[c] = "refused" => \A k \in 1..2 : sent[c][k] = "unsent"
        /\ outcome[c] = "answered" => \E k \in 1..2 : sent[c][k] = "ran"

\* The mutex is held exactly by the call that is between callTool and its
\* return, so two calls never use, drop or replace the session together
\* (client.go:142-143).
OneCallAtATime ==
    \A c \in Calls : (pc[c] \in Holding) <=> (lock = c)

\* A usable session always belongs to a service that lists the frozen
\* catalog, names and schemas alike (client.go:193-196).
OpenServesFrozen == session = "open" => tools = Catalog(served)

\* Nothing is in flight that the service does not list, and so that the
\* agent did not list at startup (client.go:144-146, comment at 1-4).
InFlightIsServed ==
    \A c \in Calls : InFlight(c) => tool[c] \in DOMAIN Catalog(served)

\* Close is final for this process: neither a call that waited for the
\* mutex nor a reconnect gives a closed client a session (client.go:243-255).
ClosedStaysClosed == closed => session = "none" /\ \A c \in Calls : pc[c] \notin Holding

\* Every waiting call returns, unless somebody waits for ever with the mutex
\* in one of the network steps without a deadline: client.Connect (client.go:91)
\* and session.Close (client.go:101-115, 187, 194, 252).
WaitsWithMutex == lock = Closer \/ \E c \in Calls : pc[c] \in Reconnecting \ {"listing"}
CallReturns == ([]<>~WaitsWithMutex) => \A c \in Calls : pc[c] = "queued" ~> pc[c] \in {"done", "idle"}

\* The service has come back for good, with the frozen catalog.
ServiceStays == <>[](up /\ ~closed /\ ValidListing(served) /\ Catalog(served) = tools)

\* What client.go:180-182 says reconnect does: a broken session is replaced,
\* as long as the catalog is the frozen one.  Once the service stays up with
\* that catalog and nobody closes the client, it has a session again.
Recovers == ServiceStays => []<>(session = "open")

-----------------------------------------------------------------------------
(* The inductive invariant the proofs rest on *)

\* What each place in Client.Call says of the call's requests.
CallShape(c) ==
    /\ pc[c] \in {"idle", "queued"} => \A k \in 1..2 : sent[c][k] = "unsent"
    /\ (outcome[c] = "none") <=> (pc[c] # "done")
    /\ pc[c] \in Reconnecting => sent[c][2] = "unsent"
    /\ pc[c] \in Holding => tool[c] \in DOMAIN tools /\ sent[c][1] # "unsent"
    /\ pc[c] # "idle" => tool[c] \in Names

\* A usable session, a usable dial and a request in flight all need a
\* service that has not stopped since.
NeedsService ==
    /\ "open" \in {session, dial} => up
    /\ \A c \in Calls : InFlight(c) => up

\* While a call reconnects there is no session.
NoSessionWhileReconnecting ==
    \A c \in Calls : pc[c] \in Reconnecting => session = "none"

IInv ==
    /\ TypeOK /\ OneCallAtATime /\ NeedsService /\ NoSessionWhileReconnecting
    /\ \A c \in Calls : CallShape(c)
    /\ UnsafeAtMostOnce /\ OutcomeIsTruthful
    /\ OpenServesFrozen /\ InFlightIsServed /\ ClosedStaysClosed

-----------------------------------------------------------------------------
(* The refinement of McpRelay *)

StatusOf(c) ==
    CASE pc[c] = "idle" -> "idle"
      [] pc[c] = "done" -> outcome[c]
      [] OTHER          -> "open"

Ran(c, k) == sent[c][k] \in {"ran", "erred"}

RunsOf(c) == (IF Ran(c, 1) THEN 1 ELSE 0) + (IF Ran(c, 2) THEN 1 ELSE 0)

WorkedFor(c) == \E k \in 1..2 : sent[c][k] = "ran"

Relay == INSTANCE McpRelay WITH
            status <- [c \in Calls |-> StatusOf(c)],
            runs   <- [c \in Calls |-> RunsOf(c)],
            worked <- [c \in Calls |-> WorkedFor(c)]

\* Client.Call, with all it does about sessions, keeps McpRelay's promise.
ImplementsRelay == Relay!AbsSpec
=============================================================================
