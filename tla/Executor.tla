------------------------------ MODULE Executor ------------------------------
(***************************************************************************)
(* a2aserver.Executor over the private MCP client and the EVM node: tasks  *)
(* run concurrently, each yields its events to a consumer that may stop    *)
(* reading, and each dispatches one envelope, to the agent's own tools, to *)
(* a proxied tool or to the natural-language runner.                       *)
(*                                                                         *)
(* What defimcp.Client.Call does to a task is McpRelay's abstract promise, *)
(* which DefiMcp implements: the tasks of this module are its call slots.  *)
(* What the runner does is IntentLoop's, which Runner implements.  The EVM *)
(* node is external: it takes a transaction or not, mines it or forgets    *)
(* it, and its answer may be lost.                                         *)
(***************************************************************************)
EXTENDS FiniteSets, IntentLoop

CONSTANTS Skill,        \* the registry: [tool name -> skill]
          Proxied,      \* the tools AddProxy registered
          Catalog,      \* the private service's tools, the reserved ones included
          Retried,      \* those retrySafeTool accepts
          Envelopes,    \* the requests callers send
          NoTool, NoEnvelope,
          Txs,          \* signed EVM transactions, each with its hash
          NoTx

\* The agent's own tools that its envelopes reach; main proxies no private
\* tool of these names (reservedMCPTool).
OwnTools == {"broadcast_evm_tx", "evm_tx_status", "list_tools"}

ASSUME ExecutorAssumption == Proxied \subseteq (Catalog \cap DOMAIN Skill) \ OwnTools
\* Arguments that decode to a broadcast or to a status query hold a
\* transaction or its hash.
ASSUME EnvelopeAssumption ==
    /\ NoEnvelope \notin Envelopes
    /\ \A e \in Envelopes :
          e.decodes /\ e.tool \in {"broadcast_evm_tx", "evm_tx_status"} => e.tx \in Txs

VARIABLES tool, status, runs, worked,   \* McpRelay: the private calls
          pc,           \* where Execute is
          envelope,     \* the request
          events,       \* what Execute and Cancel have yielded
          reply,        \* the text of the last event
          chain,        \* chain[x]: what the EVM node knows of transaction x
          stopped,      \* the event the consumer stopped at, or "none"
                        \* (history)
          everRan,      \* what the service ran for the task (history)
          taken         \* the transactions the node has ever taken (history)

relay == <<tool, status, runs, worked>>
node == <<chain, taken>>
vars == <<relay, loopVars, node, pc, envelope, events, reply, stopped, everRan>>

Relay == INSTANCE McpRelay WITH Calls <- Tasks, Names <- DOMAIN Skill \cup ReadOnly,
                                RetrySafe <- Retried

\* The two forms of reply: an encoded Response, or a plain text.
Response(ok) == [form |-> "response", ok |-> ok, says |-> ""]
Plain(ok) == [form |-> "text", ok |-> ok, says |-> ""]
NoReply == [form |-> "none", ok |-> FALSE, says |-> ""]

Init ==
    /\ Relay!AbsInit /\ LoopInit
    /\ pc = [t \in Tasks |-> "idle"]
    /\ envelope = [t \in Tasks |-> NoEnvelope]
    /\ events = [t \in Tasks |-> <<>>]
    /\ chain = [x \in Txs |-> "unknown"] /\ taken = {}
    /\ reply = [t \in Tasks |-> NoReply]
    /\ stopped = [t \in Tasks |-> "none"]
    /\ everRan = [t \in Tasks |-> {}]

-----------------------------------------------------------------------------
(* Execute's events *)

\* A request without a message is given an error, and no task.
ReceiveNothing(t) ==
    /\ pc[t] = "idle"
    /\ events' = [events EXCEPT ![t] = <<"error">>]
    /\ pc' = [pc EXCEPT ![t] = "done"]
    /\ UNCHANGED <<relay, loopVars, node, envelope, reply, stopped, everRan>>

\* A message arrives, for a new task or for a stored one.
Receive(t, e, stored) ==
    /\ pc[t] = "idle"
    /\ pc' = [pc EXCEPT ![t] = IF stored THEN "submitted" ELSE "received"]
    /\ envelope' = [envelope EXCEPT ![t] = e]
    /\ UNCHANGED <<relay, loopVars, node, events, reply, stopped, everRan>>

\* Mutated: the answer of yield is not looked at.
AfterYield_Ignored(goesOn, then) == then

\* Where Execute goes; yield returns false when the consumer stopped.
AfterYield(goesOn, then) == IF goesOn THEN then ELSE "done"

Yield(t, event, then) ==
    /\ events' = [events EXCEPT ![t] = Append(@, event)]
    /\ \E goesOn \in BOOLEAN :
          /\ pc' = [pc EXCEPT ![t] = AfterYield(goesOn, then)]
          /\ stopped' = [stopped EXCEPT ![t] = IF goesOn THEN @ ELSE event]

YieldSubmitted(t) ==
    /\ pc[t] = "received"
    /\ Yield(t, "submitted", "submitted")
    /\ UNCHANGED <<relay, loopVars, node, envelope, reply, everRan>>

YieldWorking(t) ==
    /\ pc[t] = "submitted"
    /\ Yield(t, "working", "handling")
    /\ UNCHANGED <<relay, loopVars, node, envelope, reply, everRan>>

\* Mutated: an error ends the task without its last event.
YieldCompleted_OnlyOk(t) ==
    /\ pc[t] = "replied" /\ reply[t].ok
    /\ events' = [events EXCEPT ![t] = Append(@, "completed")]
    /\ pc' = [pc EXCEPT ![t] = "done"]
    /\ UNCHANGED <<relay, loopVars, node, envelope, reply, stopped, everRan>>

\* The last event carries the reply, an error's text included.
YieldCompleted(t) ==
    /\ pc[t] = "replied"
    /\ events' = [events EXCEPT ![t] = Append(@, "completed")]
    /\ pc' = [pc EXCEPT ![t] = "done"]
    /\ UNCHANGED <<relay, loopVars, node, envelope, reply, stopped, everRan>>

\* Cancel only reports: it does not touch what Execute is doing.
Cancel(t) ==
    /\ pc[t] # "idle" /\ \A i \in 1..Len(events[t]) : events[t][i] # "canceled"
    /\ events' = [events EXCEPT ![t] = Append(@, "canceled")]
    /\ UNCHANGED <<relay, loopVars, node, pc, envelope, reply, stopped, everRan>>

-----------------------------------------------------------------------------
(* handle *)

Reply(t, r) ==
    /\ reply' = [reply EXCEPT ![t] = r]
    /\ pc' = [pc EXCEPT ![t] = "replied"]

\* Text that is no JSON, or an envelope with an intent.
IsIntent(e) == e.intent

SkillMatches(e) == Skill[e.tool] = e.skill

\* The operation an envelope names.
Dispatches(e) ==
    /\ ~IsIntent(e)
    /\ e.skill # "" /\ e.tool # ""
    /\ e.tool \in DOMAIN Skill /\ SkillMatches(e)

\* No skill or tool, an unknown tool, another skill's tool.
Refuse(t) ==
    /\ pc[t] = "handling"
    /\ ~IsIntent(envelope[t]) /\ ~Dispatches(envelope[t])
    /\ Reply(t, Plain(FALSE))
    /\ UNCHANGED <<relay, loopVars, node, envelope, events, stopped, everRan>>

\* The operation runs.  Its result is JSON that was decoded, a text or a plain
\* record, so the encoding of the Response that follows cannot fail.
Serves(t, n) == pc[t] = "handling" /\ Dispatches(envelope[t]) /\ envelope[t].tool = n

Local == DOMAIN Skill \ Proxied

\* Arguments of another shape; for a broadcast, also no client_id or bytes
\* that are no signed transaction.
LocalRefuses(t) ==
    /\ \E n \in Local : Serves(t, n)
    /\ ~envelope[t].decodes
    /\ Reply(t, Response(FALSE))
    /\ UNCHANGED <<relay, loopVars, node, envelope, events, stopped, everRan>>

ListTools(t) ==
    /\ Serves(t, "list_tools") /\ envelope[t].decodes
    /\ Reply(t, Response(TRUE))
    /\ UNCHANGED <<relay, loopVars, node, envelope, events, stopped, everRan>>

\* SendTransaction: the node takes a transaction it does not know.
BroadcastTaken(t) ==
    /\ Serves(t, "broadcast_evm_tx") /\ envelope[t].decodes
    /\ LET x == envelope[t].tx
       IN /\ chain[x] = "unknown"
          /\ chain' = [chain EXCEPT ![x] = "pool"]
          /\ taken' = taken \cup {x}
    /\ pc' = [pc EXCEPT ![t] = "taken"]
    /\ UNCHANGED <<relay, loopVars, envelope, events, reply, stopped, everRan>>

\* The node has it, does not like it, or was not reached.
BroadcastRefused(t) ==
    /\ Serves(t, "broadcast_evm_tx") /\ envelope[t].decodes
    /\ Reply(t, Response(FALSE))
    /\ UNCHANGED <<relay, loopVars, node, envelope, events, stopped, everRan>>

\* The node's answer, or none.
BroadcastReturns(t) ==
    /\ pc[t] = "taken"
    /\ \E ok \in BOOLEAN : Reply(t, Response(ok))
    /\ UNCHANGED <<relay, loopVars, node, envelope, events, stopped, everRan>>

\* ethereum.NotFound is pending, of a transaction nobody sent as well.
TxStatus(x) == IF chain[x] \in {"success", "failed"} THEN chain[x] ELSE "pending"

\* The receipt, or an error of the node.
StatusReturns(t) ==
    /\ Serves(t, "evm_tx_status") /\ envelope[t].decodes
    /\ \/ Reply(t, Response(FALSE))
       \/ Reply(t, [Response(TRUE) EXCEPT !.says = TxStatus(envelope[t].tx)])
    /\ UNCHANGED <<relay, loopVars, node, envelope, events, stopped, everRan>>

\* A block has the transaction, which succeeds or reverts.
Mine(x, outcome) ==
    /\ chain[x] = "pool"
    /\ chain' = [chain EXCEPT ![x] = outcome]
    /\ UNCHANGED <<relay, loopVars, pc, envelope, events, reply, stopped, everRan, taken>>

Evict(x) ==
    /\ chain[x] = "pool"
    /\ chain' = [chain EXCEPT ![x] = "unknown"]
    /\ UNCHANGED <<relay, loopVars, pc, envelope, events, reply, stopped, everRan, taken>>

\* The proxy does not get arguments that are an object: no call is made.
ProxyRefuses(t) ==
    /\ pc[t] = "handling"
    /\ Dispatches(envelope[t]) /\ envelope[t].tool \in Proxied
    /\ ~envelope[t].decodes
    /\ Reply(t, Response(FALSE))
    /\ UNCHANGED <<relay, loopVars, node, envelope, events, stopped, everRan>>

ProxyCalls(t) ==
    /\ pc[t] = "handling"
    /\ Dispatches(envelope[t]) /\ envelope[t].tool \in Proxied
    /\ envelope[t].decodes
    /\ Relay!Ask(t, envelope[t].tool)
    /\ pc' = [pc EXCEPT ![t] = "calling"]
    /\ UNCHANGED <<loopVars, node, envelope, events, reply, stopped, everRan>>

\* Mutated: any end of the call is a success.
Succeeds_Always(t) == TRUE

\* Call returned no error.
Succeeds(t) == status[t] = "answered"

ProxyReturns(t) ==
    /\ pc[t] = "calling"
    /\ status[t] \in {"refused", "answered", "failed"}
    /\ Reply(t, Response(Succeeds(t)))
    /\ UNCHANGED <<relay, loopVars, node, envelope, events, stopped, everRan>>

-----------------------------------------------------------------------------
(* The runner, for an intent *)

\* Run starts, or ends at once for want of tools or of a key.
RunnerBegins(t) ==
    /\ pc[t] = "handling" /\ IsIntent(envelope[t])
    /\ Enter(t) \/ Break(t)
    /\ pc' = [pc EXCEPT ![t] = "running"]
    /\ UNCHANGED <<relay, node, envelope, events, reply, stopped, everRan>>

\* A message of the model: tools, perhaps some nobody published, or a text.
RunnerHears(t) ==
    /\ pc[t] = "running"
    /\ (\E w \in Asks : AskFor(t, w)) \/ Tell(t)
    /\ UNCHANGED <<relay, node, pc, envelope, events, reply, stopped, everRan>>

\* An error: of the model service, or of a tool it may not use.
RunnerFails(t) ==
    /\ pc[t] = "running" /\ Break(t)
    /\ UNCHANGED <<relay, node, pc, envelope, events, reply, stopped, everRan>>

RunnerCalls(t) ==
    /\ pc[t] = "running"
    /\ Make(t) /\ Relay!Ask(t, Head(wanted[t]))
    /\ UNCHANGED <<node, pc, envelope, events, reply, stopped, everRan>>

\* The outcome goes to the model.
RunnerReads(t) ==
    /\ pc[t] = "running"
    /\ Hear(t) /\ Relay!Leave(t)
    /\ UNCHANGED <<node, pc, envelope, events, reply, stopped, everRan>>

RunnerReturns(t) ==
    /\ pc[t] = "running" /\ stage[t] \in {"text", "error"}
    /\ Reply(t, Plain(stage[t] = "text"))
    /\ Forget(t)
    /\ UNCHANGED <<relay, node, envelope, events, stopped, everRan>>

\* The slot takes another request, once the service has nothing left of it.
Recycle(t) ==
    /\ pc[t] = "done"
    /\ status[t] # "open"
    /\ tool' = [tool EXCEPT ![t] = NoTool]
    /\ status' = [status EXCEPT ![t] = "idle"]
    /\ runs' = [runs EXCEPT ![t] = 0]
    /\ worked' = [worked EXCEPT ![t] = FALSE]
    /\ pc' = [pc EXCEPT ![t] = "idle"]
    /\ envelope' = [envelope EXCEPT ![t] = NoEnvelope]
    /\ events' = [events EXCEPT ![t] = <<>>]
    /\ reply' = [reply EXCEPT ![t] = NoReply]
    /\ stopped' = [stopped EXCEPT ![t] = "none"]
    /\ everRan' = [everRan EXCEPT ![t] = {}]
    /\ UNCHANGED <<loopVars, node>>

-----------------------------------------------------------------------------
(* The private calls, as McpRelay promises *)

\* Only a tool of the startup catalog is ever run.
ServiceRuns(t) ==
    /\ tool[t] \in Catalog
    /\ Relay!Run(t)
    /\ everRan' = [everRan EXCEPT ![t] = @ \cup {tool[t]}]
    /\ UNCHANGED <<loopVars, node, pc, envelope, events, reply, stopped>>

CallEnds(t) ==
    /\ Relay!Refuse(t) \/ Relay!Answered(t) \/ Relay!Fail(t)
    /\ UNCHANGED <<loopVars, node, pc, envelope, events, reply, stopped, everRan>>

\* What Execute's goroutine does by itself.  The model service is among it:
\* each of its attempts has a deadline (Runner).
OwnStep(t) ==
    \/ YieldSubmitted(t) \/ YieldWorking(t) \/ YieldCompleted(t)
    \/ Refuse(t) \/ LocalRefuses(t) \/ ListTools(t)
    \/ ProxyRefuses(t) \/ ProxyCalls(t) \/ ProxyReturns(t)
    \/ RunnerBegins(t) \/ RunnerHears(t) \/ RunnerFails(t)
    \/ RunnerCalls(t) \/ RunnerReads(t) \/ RunnerReturns(t)

\* What takes an answer of the EVM node, for which the agent sets no deadline.
NodeAnswers(t) ==
    \/ BroadcastTaken(t) \/ BroadcastRefused(t) \/ BroadcastReturns(t)
    \/ StatusReturns(t)

NodeStep == \E x \in Txs : Evict(x) \/ \E outcome \in {"success", "failed"} : Mine(x, outcome)

Next ==
    \/ NodeStep
    \/ \E t \in Tasks :
        \/ ReceiveNothing(t)
        \/ \E e \in Envelopes, stored \in BOOLEAN : Receive(t, e, stored)
        \/ OwnStep(t) \/ NodeAnswers(t)
        \/ Cancel(t) \/ Recycle(t)
        \/ ServiceRuns(t) \/ CallEnds(t)

Spec == Init /\ [][Next]_vars

\* A goroutine that can go on does.  Nothing is promised of a private call,
\* which may wait behind a reconnect that dials without a deadline, nor of
\* the EVM node.
FairSpec == Spec /\ \A t \in Tasks : WF_vars(OwnStep(t))

-----------------------------------------------------------------------------
(* Properties *)

\* Type correctness: in particular a natural-language task asks its model no
\* more often than the runner's bound (runner.go:36), and a task that has
\* been answered has no call left to hear of.
TypeOK ==
    /\ tool \in [Tasks -> DOMAIN Skill \cup ReadOnly \cup {NoTool}]
    /\ status \in [Tasks -> Relay!AbsStatus] /\ worked \in [Tasks -> BOOLEAN]
    /\ pc \in [Tasks -> {"idle", "received", "submitted", "handling", "taken", "calling",
                         "running", "replied", "done"}]
    /\ envelope \in [Tasks -> Envelopes \cup {NoEnvelope}]
    /\ LoopTypeOK
    /\ chain \in [Txs -> {"unknown", "pool", "success", "failed"}] /\ taken \subseteq Txs
    /\ \A t \in Tasks : /\ everRan[t] \subseteq Catalog
                        /\ pc[t] # "running" => stage[t] = "off"

\* What a reply says of the other side is so: an ok Response to a proxied
\* tool means the service ran it and it worked, one to a broadcast that the node took the
\* transaction, a status that is not pending is the transaction's own, and a
\* request that was turned down in plain text has run nothing and may be sent
\* again (executor.go:59-95, adapter.go:32-49, service.go:132-168).
ReplyIsTruthful ==
    \A t \in Tasks : pc[t] \in {"replied", "done"} /\ envelope[t] # NoEnvelope
                     /\ ~IsIntent(envelope[t]) =>
        /\ reply[t] = Response(TRUE) /\ envelope[t].tool \in Proxied
              => envelope[t].tool \in everRan[t] /\ worked[t]
        /\ reply[t].ok /\ envelope[t].tool = "broadcast_evm_tx" => envelope[t].tx \in taken
        /\ reply[t].says \in {"success", "failed"} => reply[t].says = chain[envelope[t].tx]
        /\ reply[t].form = "text" => everRan[t] = {}
        /\ everRan[t] \subseteq {envelope[t].tool}

\* Whatever a text, a model and its tool results lead to, the service runs
\* nothing for a natural-language task but tools that read
\* (docs/defi-mcp-backed-agent-design.md:115-119, runner.go:47-50).
IntentNeverWrites ==
    \A t \in Tasks : envelope[t] # NoEnvelope /\ IsIntent(envelope[t])
                        => everRan[t] \subseteq ReadOnly

\* The events of a task so far, and the order Execute yields its own in.
Yielded(t) == {events[t][i] : i \in 1..Len(events[t])}

Follows(a, b) ==
    \/ a = "submitted" /\ b \in {"working", "completed"}
    \/ a = "working" /\ b = "completed"

\* The consumer sees one task: submitted, working and completed in this
\* order, each at most once, whatever a Cancel puts in between.  A consumer
\* that stopped reading is given nothing more, which would be a panic in Go,
\* and costs no call (executor.go:32-51).
EventsInOrder ==
    \A t \in Tasks :
        /\ \A i, j \in 1..Len(events[t]) : i < j =>
              \/ "canceled" \in {events[t][i], events[t][j]}
              \/ Follows(events[t][i], events[t][j])
        /\ "completed" \in Yielded(t) => "working" \in Yielded(t)
        /\ stopped[t] # "none" => status[t] = "idle" /\ everRan[t] = {}
        /\ \A i, j \in 1..Len(events[t]) : i < j /\ events[t][i] = stopped[t] =>
              events[t][j] = "canceled"

\* The task waits for somebody who has no deadline: for a private call
\* (defimcp/client.go:142, 189), or for the EVM node (service.go:144, 161).
WaitsForOthers(t) ==
    \/ status[t] = "open" \/ pc[t] = "taken"
    \/ /\ envelope[t] # NoEnvelope /\ envelope[t].decodes
       /\ \E n \in {"broadcast_evm_tx", "evm_tx_status"} : Serves(t, n)

\* Unless its private call or the EVM node never answers, a task ends: its
\* request is answered or its consumer has gone, whatever form the request
\* has, whatever fails and whatever Cancel reports (executor.go:32-57).
EveryTaskEnds ==
    \A t \in Tasks : ([]<>~WaitsForOthers(t)) => (pc[t] # "idle" ~> pc[t] = "done")

=============================================================================
