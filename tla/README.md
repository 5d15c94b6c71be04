# svpchain-evm-agent: a TLA+ model of the agent

This directory holds TLA+ specifications of the EVM agent, TLC configurations
that check them on small instances, and machine-checked proofs of their safety
properties for every value of the constants. References to `file:line` are to
the repository's sources; the Go packages are named without `internal/`.

## 1. The system

The agent is an A2A server in front of a private DeFi MCP service, plus the
command line tools with which its owner puts it on the chain.

| Part | State it keeps | Operations | Talks to |
|---|---|---|---|
| Private MCP client, `defimcp/client.go` | one session, one mutex, the catalog frozen at startup | `Connect`, `Tools`, `Call` (one retry), `reconnect`, `Close` | the service over Streamable HTTP; called by the executor's proxies and by the runner |
| Agent process, `cmd/svpchain-evm-agent`, `a2aserver/server.go`, `toolbridge`, `wire`, `a2aserver/card.go` | the registry, the card, two goroutines and their channels | `run`, `AddProxy`, `StartFullFor`, `serve`, the deferred closes | everything else |
| A2A executor, `a2aserver/executor.go` | none between tasks | `Execute`, `Cancel`, `handle` | registry, runner |
| LLM runner, `agentrunner`, `llm` | a transcript per intent | `Run`, `Chat`, `withRetry`, the two stream adapters | the model's HTTP API, the private client |
| Authentication stores, `mcp/auth`, `agenttools/service.go`, `a2aserver/auth.go` | nonces; bearers and tenants, in two maps | `Issue`, `Consume`, `Mint`, `LookupByBearer`, `Sweep`, `AuthChallenge`, `AuthVerify`, `Attach` | the executor, for `Attach` |
| Registration tools, `cmd/agent-register`, `cmd/agent-deregister`, `agentchain`, `owner` | none: all state is the chain's | read the card, read the record, decide, read the sequence, sign, broadcast | the running agent, the chain |
| Launcher, `scripts/local-evm-agent.sh` | the pid file | `start`, `stop`, `status`; `register` and `gen-owner-key` by way of the tools | the machine's processes, the port, the chain |
| Owner key, `cmd/owner-keygen`, `owner/key.go`, `gen-owner-key` of both scripts | the key file, the config file that names it | create, write, rename the config, `Load` | the registration tools, the operator |
| Broadcast and status, `agenttools/service.go:132-185` | an idempotency map nothing calls | `Broadcast`, `TxStatus` | the executor, the EVM node |
| Rate limiter, `mcp/auth/ip_rate_limiter.go` | counters per address | `Allow`, `Sweep` | nothing in the program calls it |
| Configuration, challenge text, gRPC clients, image cache of `deploy.sh` | files | load, format, one remote call each | |

### What is hard about it, and what makes each part correct

* **Private client.** A call holds one mutex across the network call, a
  reconnection and a retry. The service may run a call whose reply is lost, be
  redeployed with other tools, or be gone; `Close` waits for the mutex; a dial
  and the close of a session have no deadline. Correct means: a tool that writes
  is run at most once, a caller is never told a lie about what ran or failed,
  nothing outside the frozen catalog is served, a closed client stays closed,
  and a call comes back unless a step without a deadline hangs.
* **Agent process.** Signals, two goroutines reporting to one select, requests
  in flight and deferred closes that wait for them. Correct means: what is
  published is exactly the catalog read at startup, the exit status tells why
  the process ended, and a signal ends it.
* **Executor.** Cancellation beside execution, a consumer that leaves, a node
  that takes a transaction and loses the answer. Correct means: events in
  order, a reply that agrees with what the relay and the node did, and no write
  on behalf of a natural-language intent.
* **Runner.** Streams that break, end early or lose frames, retries, parallel
  tool calls. Correct means: a transcript the provider accepts, no text emitted
  twice, the calls that arrived, each once, in order and with the arguments that
  were meant, and an end.
* **Authentication.** Expiry is computed outside the locks and a verification
  is several critical sections. Correct means: one bearer per nonce, for the
  address that signed, two maps that stay one, and everything issued honoured
  until it expires.
* **Registration.** Everything read from the chain is stale when it is used;
  a broadcast is not an inclusion; a failed query may read as "not
  registered"; runs overlap and are repeated. Correct means: a transaction
  changes the record it was signed against, an update keeps what it was not
  asked to change, and repeating the tool converges.
* **Owner key.** The file is created, then written, then named in the config
  file, and a process may end between any two; two shells may generate at once.
  Correct means: an address the operator was told to fund, or a tool signed
  for, is never replaced by another.
* **Launcher.** Reads of the pid file, a process and a port at different times,
  slow stops, reused pids. Correct means: a running agent can always be found,
  and "ready" is about the agent that was just started.

`PROJECT.json` lists each hazard with its line and the properties aimed at it.

## 2. The modules

| Module | Models | Extends or uses |
|---|---|---|
| `McpRelay` | what a caller of `Client.Call` may assume, whatever happens below | |
| `DefiMcp` | `defimcp/client.go`, the service, the network | `INSTANCE McpRelay` in the refinement |
| `IntentLoop` | what an intent does to the rest of the agent, without provider, stream or retry | |
| `Runner` | `agentrunner/runner.go` and `llm` | `INSTANCE IntentLoop` in the refinement |
| `Executor` | `a2aserver/executor.go`, `Broadcast` and `TxStatus`, the EVM node | `IntentLoop`, `INSTANCE McpRelay` |
| `AgentProcess` | one process from `main` to its exit status | |
| `Auth` | both stores and the handlers over them | |
| `OwnerKey` | the key and config files, `owner-keygen`, `Load`, the operator | |
| `Registration` | both owner tools, x/agent and the mempool | `OwnerKey` |
| `Launcher` | start, stop and status of the local script | |
| `DefiMcpProofs`, `ExecutorProofs`, `RunnerProofs`, `AuthProofs`, `RegistrationProofs`, `AgentProcessProofs`, `LauncherProofs` | the inductive invariant and the theorems of each | the module they name, `TLAPS`, and the library's theorems about finite sets and sequences |
| `MC...` | small instances of each for TLC | the module they name |

Definitions named `X_Something` with the comment "Mutated" are not part of a
model: each is a plausible bug in `X`, and the property it is paired with in
`PROJECT.json` catches it.

### How state and actions correspond to the code

**DefiMcp.** `lock` is `Client.mu`, `session` is `Client.session` ("none" for
nil; while it is being closed the model has it as "none" in a reconnection, as
the code does, and unchanged in `Close`), `tools` the map built by
`connectSession`, `pc[c]` the place of call `c` in `Call`. `Enter` is everything
from `Lock` to the first network step, or to the early return (`RejectUnknown`,
`RefuseDisconnected`, `SendFirst`). `Answer` and `CallFails` are the returns of
`callTool` (lines 156-178), `SessionFails` is an error `sessionFailure`
recognises, which drops the session; `OldClosed` is the return of its close
(187), after which the client dials. `DialSucceeds`, `DialFails`, `ListFails`,
`ListRefused` and `ListAccepted` are the outcomes of `connectSession` and of the
comparison in `reconnect`; a new session that is given up is closed first
(`NewClosed`, 101-115, 194). `ListAccepted` sends the retry when `retrySafeTool`
allows it. `sent[c]` holds the two requests a call can make; the service runs
them (`Execute`), with success ("ran") or a tool error ("erred"), late or never,
also after the caller has gone. `Result` is the test of `IsError` (165-168).
`CloseBegins` and `CloseEnds` are `Close` around its `session.Close()`, with the
mutex held by `Closer`; `Restart` is a new process.

**McpRelay.** A call is idle, open, refused, answered or failed; the service runs
it at most `Limit` times, at most once unless the tool is retry-safe. `refused`
implies that it never ran and `answered` that it did, at least once without a
tool error (`worked`).

**IntentLoop.** A task is off, thinking (the model is asked), at its tools, or
at a text or an error. `wanted` is what the model asked for and has no answer
yet, `calling` the tool a private call is under way for, `asked` the number of
messages with calls. `MayMake` is `readOnly` (`runner.go:47-50`), `Thinks` the
bound of line 36.

**Executor.** `pc[t]` is the place in `Execute` and `handle`; every `yield` is an
action, and `AfterYield` is its test of the result. A private call is a slot of
`McpRelay` and an intent is a task of `IntentLoop`: `RunnerCalls` is a step of
both (`Make` and the relay's `Ask`), `RunnerReads` another (`Hear` and `Leave`).
The module is thus the composition of the executor with the abstractions that
`DefiMcp` and `Runner` implement. `chain[x]` is what the EVM node knows of a
transaction: nothing, in the pool, mined with success or reverted. A broadcast
is two steps, as the node may take the transaction and the answer be lost.
`OwnStep` is what the goroutine does by itself, `NodeAnswers` what waits for the
node. A message that is nil gets an error event and no task (`ReceiveNothing`).
The encoding of a Response cannot fail (`executor.go:95-98`): what is encoded is
decoded JSON, a text or a record of plain fields.
`stopped[t]` is a history of the event at which the consumer stopped reading.
`TxStatus` answers "pending" for whatever the node does not find.

**Runner.** `phase` says which of the nested loops of `Run`, `withRetry` and the
adapter is at work; `calls` is what the frames have assembled so far, `messages`
the transcript. The adapter is the one `newModel` chooses for a configuration. A
message the model means to send is a member of `Meanings`; arguments are whole,
half, empty or `{}`, or, when a frame in their middle was no JSON and was
dropped, "torn" (they do not decode) or "other" (they do). `StreamEnds` may come
at any frame, with what has arrived; any frame may have been dropped before it,
the one that starts a call or names it included. `CallMade` and `CallReturned`
are the two sides of a private call. `Wire` is what `toAnthropicMessages` makes
of a message of the transcript. `Loop` maps this state to `IntentLoop`'s by way
of `Stage`, `Wanted` (the names not yet answered), `Calling` and the number of
messages that ask (`AskedIn`).

**AgentProcess.** `main` is the line of `run` and `StartFullFor`, `server` the
line of `serve`, `cacheErr` and `serveErr` the two channels. The startup loop
takes the catalog's names in any order. A request's private call is reduced to
the mutex and to whether it dials or closes a session; `CloseMcpBegins` and
`CloseMcpEnds` are the deferred `Close` of the client.

**Auth.** One action per critical section: `IssueDraw`/`IssueStore`,
`ConsumeTaken`/`CheckRefused`/`MintDraw`/`MintStore`, `Attach`, the sweeps. Time
is a bounded counter. A signature is the key that made it. `promised` is a
history of what was issued with its expiry. The handlers are kept on `Service`
but not registered as public operations (`wire.go:41-43`); the module checks
them as they stand.

**Registration.** A run of a tool goes idle, fetched, built, signed, done. One
action per request that can see another state of the world: the card, the
record, the account, the broadcast. A run begins by loading the key of
`OwnerKey` and cannot sign before its account has coins. `-dry-run` and
`-confirm` are parameters of the reads, chosen anew by every run. `Misread` is
the `-rpc` client's reading of a failed query (`agentchain/client.go:215-217`),
by either tool; `Rpc` is the set of runs that use it. `LeaveRefused` is
`-agent-id` and the owner check of `agent-deregister`. `Rerun` does not wait for
the last transaction: what a run went by is kept in its mempool entry
(`SignTx`), and the properties read it there when a block applies it
(`Applies`). x/agent is modelled by what the tools rely on: an update replaces
every mutable field, tags come back in the order of an index, a transaction is
valid for one sequence.

**OwnerKey.** `gen[g]` is how far a generation is: `minting` before the
exclusive creation, `writing` between creation and write, `wiring` between the
write and the rename of the config file (`deploy.sh` only). `GenerationEnds`
takes any of them away. `keyFile` may be empty, `wired` says that the config
file names it. The operator's actions are what the messages ask for:
`SetAside`, `WireByHand`, `Fund`. `identities` is a history of the keys whose
address was shown or used.

**Launcher.** One action per command of the script that reads or changes the pid
file, a process or the port. `Interrupted` ends the script at any of them: ^C,
or `set -e` after a command that failed; an agent that was spawned and not
recorded then is an orphan. `BindLate` is an agent that listens although it was
told to stop, `OtherBinds` another program on the port. The build between the
checks and the spawn is the step during which anything else may happen.

## 3. What is checked

| Run | Result | What it shows |
|---|---|---|
| `DefiMcp` | passes | writes at most once, truthful outcomes, frozen catalog, final close, refinement of `McpRelay`, every call returns unless a dial or a close hangs |
| `DefiMcpRecovers` | violated | a client that failed one reconnection never recovers |
| `Registration` | passes | overlapping runs: the sequence protects the record of signing; an update keeps what it was not asked to change unless a transaction came between read and signing; what was applied leaves no drift; runs are previews or not, and are repeated while their last transaction is pending |
| `RegistrationConverges` | passes | from a machine without a key: two generations that stop anywhere keep one identity, and repeated runs reach the wanted record and stay there |
| `RegistrationSubmitted` | violated | a transaction the node rejected with a log the tool does not know is reported as submitted |
| `Auth` | passes | one bearer per nonce, for its signer, maps that agree, everything issued is honoured until it expires |
| `AgentProcess` | passes | frozen catalog, card and dispatch agree, truthful exit status, a signal ends the process unless the close of a session hangs, a dead listener unless a close or a dial does |
| `AgentProcessDead` | violated | a dead listener does not end the process while a call dials, even if every close ends |
| `Runner` | passes | well-formed transcript, no doubled text, arguments as meant, refinement of `IntentLoop`, an end unless a private call hangs |
| `Executor` | passes | truthful replies (of the service and of the EVM node), intents never write, events in order, every task ends that does not wait for the service or the node for ever |
| `Launcher` | passes | agents are findable, but for a script that ends between spawn and pid file; "ready" is true, but for an agent that listens later |
| `LauncherStop` | violated | a stop that worked fails and leaves the pid file |

### Bounds, and why they are enough

* `DefiMcp`: two calls (one in the mutex, one waiting; a third would wait like
  the second), a read tool, a write tool and an unlisted name, and one listing
  for each way `connectSession` or `sameCatalog` can judge it: the same, the
  same in another order, another schema, a tool less, a duplicate, a missing
  schema, an empty name, no tool. Nothing else is bounded; a slot is reused.
  `DefiMcpRecovers` needs one call.
* `Registration`: a first registration and a redeployment that names no price
  and no metadata, a deregistration, three cards (another hash, another
  interface), one foreign price. `MaxOther` stops the owner's other tool and
  redeployments at a sequence, `MaxSeq` the repetition of runs; two committed
  transactions are what a lost update takes. The key exists in this run and no
  generation runs; the redeployment and the deregistration use `-rpc`. In
  `RegistrationConverges` one registrar with `-rpc` is repeated up to `MaxSeq`,
  rehearsals included, on a machine without a key: two shells (a third would
  meet the same file), two keys, and either script, as an operator uses one of
  them. A key is never drawn twice, so two keys are two completed creations; a
  third is not needed for one identity to replace another. `Misread` stops with
  the other disturbances at `MaxOther`. These runs switch the deadlock check
  off, as tools that have all ended really stop.
* `Auth`: two requests, owners, nonces and bearers; a nonce lives one tick, a
  bearer two, and the clock stops at three, so each can expire between any two
  steps and one can outlive the other.
* `AgentProcess`: two requests and three catalogs: plain, one schema changed,
  and one that lists reserved names.
* `Runner`: three rounds instead of eight (a first, a middle and a last) and the
  code's two retries; four provider names with and without Anthropic's host;
  messages with a text, one or two calls, complete or without arguments, and a
  call to a tool that writes.
* `Executor`: one task at a time, two rounds and one transaction. Tasks share
  only the private client, whose calls have a state each in `McpRelay`, and the
  node, which remembers the transaction when the slot is reused: a second
  broadcast of it and a status after it both occur.
* `Runner` and `DefiMcp` treat a lost frame and a tool error as a choice at every
  frame and every run, so neither has a bound.
* `Launcher`: one shell, three pids, two polls instead of twenty. lsof is
  installed (without it the port check of line 159 looks at nothing and
  `ReadyIsTrue` fails). The script makes no promise to two operators at once.

### Fairness

Three kinds of step have no deadline in this program: a dial (`client.go:91`,
which `reconnect` makes with the context of the service, 189), the close of a
session (101-115, 187, 194, 252) and a request to the EVM node
(`agenttools/service.go:144`, 161). No specification assumes that one of them
ends. Where a liveness property needs it, it is a hypothesis of the property, so
that the run shows that nothing else can hang.

* `DefiMcp`: Go's mutex is not starving (strong fairness of `Enter`), and
  `callTool` and the listing run under a timeout (weak fairness of `CallFails`,
  `ListFails`). `CallReturns` is for behaviours in which nobody stays for ever
  in a dial or a close with the mutex (`WaitsWithMutex`). `KindSpec` adds an
  environment that does everything to help, dials and closes included; it is
  used for the refuted `Recovers`, so that the counterexample does not rest on
  a service that stays away.
* `AgentProcess`: goroutines run, the mutex does not starve, calls have a
  deadline, a dial ends when its context does. `SignalStops` is for behaviours in
  which no close hangs (`Closing`), `DeadServerStopsUnlessDialing` for those in
  which no dial does either; `DeadServerStops` is refuted although no close hangs.
* `Runner`: a task that can take a step does, and an HTTP exchange has a
  timeout. A private call has none that counts: its deadline begins when the
  mutex is held. `Terminates` is for behaviours that do not stay in one.
* `Executor`: weak fairness of `OwnStep` alone. `EveryTaskEnds` is for tasks that
  do not wait for the private service or the node for ever (`WaitsForOthers`).
* `Registration`: runs go on and are repeated, not always as rehearsals, a block
  is made again and again, and neither the mempool, a deadline, a fee nor a
  misleading query wins for ever. The operator starts a generation again when
  it stopped (strong fairness of its steps), moves an empty file aside, names
  the key in the config and funds its address, as the tools' messages ask.
  These are people and services, not code: `Converges` says what repetition
  achieves if somebody repeats.

## 4. What is proved

Every safety property that a passing run checks, invariant, action property or
refinement, is also a theorem, proved for every value of the constants: any
number of calls, tasks, requests, handlers, runs and pids, any catalogs, cards,
messages and keys. The bounds of section 3 (`MaxOther`, `MaxSeq`, `MaxTime`) are
arbitrary naturals there.

| Module | Theorem | States |
|---|---|---|
| `DefiMcpProofs` | `Invariant` | `IInv` is an invariant |
| | `TypeCorrect` | `TypeOK` |
| | `AtMostOnce` | `UnsafeAtMostOnce` |
| | `TruthfulOutcome` | `OutcomeIsTruthful` |
| | `MutualExclusion` | `OneCallAtATime` |
| | `FrozenCatalog` | `OpenServesFrozen` |
| | `InFlightServed` | `InFlightIsServed` |
| | `CloseIsFinal` | `ClosedStaysClosed` |
| | `Refinement` | `ImplementsRelay`: `DefiMcp` implements `McpRelay` |
| `ExecutorProofs` | `TypeCorrect` | `TypeOK` |
| | `RepliesAreTruthful` | `ReplyIsTruthful` |
| | `IntentsOnlyRead` | `IntentNeverWrites` |
| | `EventsOrdered` | `EventsInOrder` |
| | `UsesRelay` | the private calls of all tasks are a behaviour of `McpRelay` |
| | `UsesLoop` | what an intent does is a behaviour of `IntentLoop` |
| `RunnerProofs` | `TypeCorrect` | `TypeOK` |
| | `WellFormed` | `TranscriptIsWellFormed` |
| | `NotDoubled` | `AnswerIsNotDoubled` |
| | `ArgumentsAsMeant` | `CallsAsMeant` |
| | `Refinement` | `ImplementsLoop`: `Runner` implements `IntentLoop` |
| `AuthProofs` | `TypeCorrect` | `TypeOK`, as all below with and without sweeps |
| | `NonceMakesOneBearer` | `OneBearerPerNonce` |
| | `BearerSigned` | `BearerIsTheSigners` |
| | `MapsStayTogether` | `MapsAgree` |
| | `HonouredUntilExpiry` | `HonoursUntilExpiry` |
| `RegistrationProofs` | `TypeCorrect` | `TypeOK` |
| | `OneIdentity` | `IdentityIsKept` |
| | `SequenceIsALock` | `SequenceProtects` |
| | `UnsetFieldsAreKept` | `KeepsFieldsUnlessRaced` |
| | `AppliedIsCurrent` | `AppliedLeavesNoDrift` |
| `AgentProcessProofs` | `TypeCorrect` | `TypeOK` |
| | `FrozenCatalogServed` | `ServesTheFrozenCatalog` |
| | `CardTruthful` | `CardDispatches` |
| | `ExitTruthful` | `ExitIsTruthful` |
| `LauncherProofs` | `TypeCorrect` | `TypeOK`, for any number of shells |
| | `AgentsFindable` | `AgentsAreFindable`, for one shell, orphans excepted |
| | `ReadyTrue` | `ReadyIsTrue`, for one shell and with lsof, late listeners excepted |

Two chains go through the abstract specifications. The executor uses `McpRelay`
(`UsesRelay`), which the client implements (`DefiMcpProofs!Refinement`); and it
uses `IntentLoop` (`UsesLoop`), which the runner implements
(`RunnerProofs!Refinement`). What `RepliesAreTruthful` and `IntentsOnlyRead` say
of the executor thus rests on steps that the code below it is proved to take.

### The inductive invariants

None of the properties is inductive alone. Each proof module defines `IInv`,
which TLC has checked on the instance of the module's runs, and proves it of the
initial state and of every action in turn; each theorem then follows from it.

* **DefiMcp.** That nothing outside the catalog is in flight depends on who holds
  the mutex and on what a usable session says about the service; that a write
  runs at most once depends on the second request being unsent until a
  reconnection ends. `IInv` adds `CallShape` (what each `pc` says of the call's
  requests and outcome), `NeedsService` (a usable session, a usable dial or a
  request in flight means the service has not stopped since) and
  `NoSessionWhileReconnecting`. `SameCatalogIsEquality` is the fact about data: a
  catalog `sameCatalog` accepts is the frozen one, as a function.
* **Executor.** A reply is about a call that ended earlier and a transaction
  whose fate goes on changing. `TaskShape` says what a task has run at each
  place of `Execute`, `RelayShape` that what the client counts as run is in the
  task's own history and is what the envelope, or `readOnly`, allowed;
  `ReplyShape` keeps a reported receipt true, as a mined transaction is never
  evicted; `EventShape` ties the events to the place, with a cancellation
  anywhere. `Still` and `OthersKeep` are the frame: a step of one task leaves the
  shape of the others alone, although they share the node.
* **Runner.** `StreamShape` says that what the frames have assembled is some
  of what was meant, in its order, each with its name or none and with its
  arguments, a part of them or what a dropped frame left; `TranscriptShape` that
  the transcript is complete up to the message whose calls are under way, which
  is found at a distance of `next` from its end. `RetryShape` is why an attempt
  is repeated only before it emitted. The refinement needs `RoundShape`: the
  number of messages that ask is the round, a cardinality that each round raises
  by one (`AskedAppend`).
* **Auth.** A nonce is in at most one of three places: the store, the hands of
  one handler, or the past of one bearer (`NonceInOnePlace`); a bearer likewise
  (`BearerInOnePlace`). `Kept` is what makes expiry computed outside the locks
  harmless: the stores hold the expiry that was promised.
* **Registration.** `WriterAlone` says that whoever created the key file is alone
  with it until its key is in it, which gives `IdentityIsKept`. `RunShape` is
  about time: the record is still the one of signing, and still holds the fields
  that were read, for as long as the sequence is the one that was read; `Pool`
  says the same of a transaction that was sent (`Sound`), which can only be the
  head of the mempool, whatever its run does meanwhile. That the chain
  returns tags in any order is `StoredTags`, which rests on a reordering having
  an inverse (`ReorderingBack`).
* **AgentProcess.** `Registered` follows the startup loop: the registry is the
  agent's own tools and what has been taken off the list so far, in whatever
  order. `ServeReports` and `EndsForAReason` tie each channel to what its
  goroutine did and why.
* **Launcher.** `Knows` says what the one shell can rely on at each line: after
  the first check no agent runs but orphans, after the port check nobody who
  was there before listens, and from the spawn on the only agent that is no
  orphan is its own. `Coherent` says which lines a command
  can be at. With two shells `Knows` is false, and so are the two properties.

### Assumptions

The named assumptions in the modules are all there is; TLC evaluates each on the
instances of the runs. Markers such as "no tool", "nobody" or the empty name are
not members of the sets they mark. Beyond that:

* `Auth.KeyAssumption`: nonces and bearers are different strings (16
  bytes and 32; the history `promised` is keyed by both). That one drawn from
  `crypto/rand` was never drawn before is part of the actions that draw it.
* `Executor.ExecutorAssumption`: the proxies are private tools the registry
  holds, and none has one of the names `OwnTools` (`main.go:62-66`, 78-85);
  `EnvelopeAssumption`: arguments that decode to a broadcast or a status query
  hold a transaction or its hash.
* `IntentLoop.LoopAssumption`, `Runner.MeaningAssumption`: a message that asks for
  tools names at least one; arguments are nothing, `{}` or whole when the model
  sent them; the empty name is not read-only.
* `Registration.ConfigAssumption`: the configured capabilities are a sequence of
  strings, and "no price" is not a price. `OwnerKey.KeyAssumption`: an empty or a
  missing file is not a key.
* `DefiMcp.ListingAssumption`: some listing would be accepted at startup.
* `OwnerKey.Quiet`, a guard of `SetAside` and `WireByHand`: the operator does not
  move the key file aside or edit the config in the moment in which another
  shell writes them. No lock of the scripts sees to that
  (`deploy.sh:723-725` only asks for the file to be moved).
* `LauncherProofs` states its hypotheses in the theorems: one shell, and lsof
  for `ReadyTrue`.

### What stays model-checked, and why

* The liveness properties `CallReturns`, `Converges`, `SignalStops`,
  `DeadServerStopsUnlessDialing`, `Terminates` and `EveryTaskEnds`: fairness and
  ENABLED are outside the prover's reach.
* The refuted properties of the four runs that end in a violation.

## 5. Findings

Four runs end in a violation of something the repository says of itself; each
is in `PROJECT.json` with its quotation.

1. After one failed reconnection the session is nil; the error of every later
   call, "private defi mcp session is not connected", is none that reconnects,
   and the client stays disconnected (`client.go:172-173`, against 180-182).
2. A transaction that CheckTx rejected with a log `ParseBroadcastError` does not
   know, whatever the reason, is reported as submitted
   (`mcp/chain/errors.go:48`, against `agentchain/client.go:153-154`).
3. A process whose HTTP server died waits for a dial that has no deadline
   (`client.go:189`, against `server.go:45-47`). The close of a session can keep
   it as well, and then a signal does not end it either.
4. `local-evm-agent.sh stop` exits with status 1 after stopping the agent and
   leaves the pid file (line 155).

Divergences seen while modelling that no run states as a property:

* A price set between `AgentByID` and `Account` is overwritten by the one read
  before (`agent-register/main.go:185`, against `register.go:59-63`):
  `KeepsFieldsUnlessRaced` has to exclude this race.
* The `-rpc` client takes any failed query whose log says "not found" for an
  agent that is not registered (`agentchain/client.go:215-217`, beside the
  status code the gRPC one asks for, 177-181). `Registration` has it as
  `Misread`; the chain refuses what follows and a rerun recovers.
* `deploy.sh:742-743` says "key generation failed; ... was not written" also
  when the file was created and its write failed; the empty file then stops
  the next generation until it is moved aside. `IdentityIsKept` holds all the
  same.
* `evm_tx_status` says "pending" of a hash nobody ever sent
  (`agenttools/service.go:162-163`).
* Nothing starts the sweepers that `nonce_store.go:28-30` and 101-103 mention.
  `Auth` has a specification without them and one with them.
* The model is offered reserved read names of the private catalog
  (`list_tools`) that the registry does not publish (`agentrunner/runner.go:23`,
  against section 2 of the design document, lines 51-56).
* A request without a tool, with an unknown tool or another skill's is answered
  in plain text, not by a Response with OK=false (`executor.go:74-83`, against
  `envelope.go:35-37`), and so is the legacy query form
  (`envelope.go:9-11`).
* A stream that ends early is taken for complete (`llm_sse.go:33`). Over the
  Anthropic adapter a call whose arguments never arrived is then made with `{}`
  (`llm_anthropic.go:151-153`); the OpenAI one fails the intent instead. A
  stream cut before its first call ends the intent with the text so far, though
  calls were meant: `IntentLoop` allows it, so no property here rules it out.
* A frame that is no JSON is dropped as a keep-alive would be
  (`llm_openai.go:111-112`, `llm_anthropic.go:104-106`). If it carried the middle
  of some arguments, what is left may be other JSON, with which the call is made;
  `CallsAsMeant` excludes this one case.
* Under `set -e` a failing `printf` of the pid, or ^C in that moment, leaves an
  agent that no pid file names (`local-evm-agent.sh:392-394`):
  `AgentsAreFindable` excepts it.

## 6. What is not modelled

* The idempotency claim (`agenttools/service.go:170-185`) and the rate limiter:
  nothing in the program calls them.
* Configuration, challenge text, codecs and gRPC wrappers: no state and no
  interleaving. Their outcomes are in `AgentProcess`, `Auth` and `Registration`.
* The remote commands of `deploy.sh`, which run in one order, and its image
  cache (`save_if_changed`, `load_if_missing`): local files and a remote docker,
  and no promise about an interrupted save to check them against.
* Two shells at the launcher's `start` and `stop`, to which the script promises
  nothing.
* Fees, gas, signatures as bytes, texts, tokens and latency: data no property
  is about.

## 7. Plan

Done, in this order: `McpRelay` and `DefiMcp` with its proofs; `Registration`;
`Auth`; `AgentProcess`; `Runner`; `Executor` over `McpRelay`; `Launcher`; then
`OwnerKey` under `Registration`; `IntentLoop`, which `Runner` implements and
`Executor` uses; the EVM node in `Executor`.

Then the proofs: type correctness, the safety invariants, the action properties
and both refinements of every module, in the order of section 4.

Then a pass over what takes time or fails without notice: tool errors, the closes
of sessions, dropped frames, previews, reruns that do not wait, scripts that end
half way; and every liveness property made conditional on the steps that have no
deadline.

Left to do:

1. `McpRelay` and `IntentLoop` on their own: the invariants a caller relies on,
   so that the executor's proof can cite them instead of repeating them.
2. `AgentProcess` over `McpRelay`: its requests are reduced to the mutex today.
3. What the refuted properties would take: for each finding, the condition under
   which the property holds, as a theorem where it is a safety property.
