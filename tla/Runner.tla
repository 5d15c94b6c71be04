------------------------------- MODULE Runner -------------------------------
(***************************************************************************)
(* One natural-language task: agentrunner.Runner.Run, llm.Client.Chat with *)
(* its retries, and the two streaming adapters under it, openaiModel and   *)
(* anthropicModel.                                                         *)
(*                                                                         *)
(* The model service is external: it means to send a message (a text, or   *)
(* tool calls with or without arguments), which arrives frame by frame, in *)
(* any interleaving of the parallel calls' shards.  A frame that is no     *)
(* JSON is dropped without a word, and the stream may break (an error) or  *)
(* be cut (a clean end of the body) anywhere.  A private MCP call begins   *)
(* and ends here; DefiMcp says what is between.  IntentLoop is what all    *)
(* this amounts to, and this module implements it.                         *)
(***************************************************************************)
EXTENDS Naturals, Sequences, FiniteSets

CONSTANTS Configs,      \* llm.Config, as far as the choice of the adapter goes
          Meanings,     \* the messages the model service may mean to send
          ReadOnly,     \* the names readOnly accepts
          MaxRounds,    \* maxRounds
          MaxRetries    \* llmMaxRetries

ASSUME RoundAssumption == MaxRounds \in Nat \ {0} /\ MaxRetries \in Nat
\* A call has a name, and all of its arguments, an empty object or nothing; a
\* name readOnly accepts begins with one of its prefixes.
Requests == [name : STRING, args : {"", "{}", "full"}]
ASSUME MeaningAssumption ==
    /\ \A m \in Meanings : m.text \in BOOLEAN /\ m.calls \in Seq(Requests)
    /\ "" \notin ReadOnly

VARIABLES provider,     \* the adapter newModel chose
          phase,        \* where the task is
          round, attempt,
          started,      \* withRetry's bit: a delta was emitted
          meant,        \* what the model service is sending
          text,         \* a text delta of it has arrived
          calls,        \* its calls as far as they have arrived, each with its index
          messages,     \* the transcript, without its fixed prompt
          next,         \* the call of the last message to be made
          cancelled,    \* the task's context is done
          result,       \* what Run returned
          emitted       \* the attempts of this Chat that emitted text (history)

stream == <<started, meant, text, calls>>
loop == <<round, attempt, messages, next>>
vars == <<provider, phase, loop, stream, cancelled, result, emitted>>

Nothing == [text |-> FALSE, calls |-> <<>>]

\* Lower case and trimmed; a provider that is not named is read off the URL.
normalized(c) ==
    IF c.provider # "" THEN c.provider ELSE IF c.anthropicHost THEN "anthropic" ELSE "openai"

\* Every other provider is taken for an OpenAI-compatible one.
newModel(c) == IF normalized(c) = "anthropic" THEN "anthropic" ELSE "openai"

Init ==
    /\ provider \in {newModel(c) : c \in Configs}
    /\ phase = "run" /\ round = 0 /\ attempt = 0
    /\ started = FALSE /\ meant = Nothing /\ text = FALSE /\ calls = <<>>
    /\ messages = <<>> /\ next = 1
    /\ cancelled = FALSE /\ result = "none"
    /\ emitted = {}

\* Run ends.
Return(r) == phase' = "returned" /\ result' = r

\* Without a read-only tool in the frozen catalog, or without an API key,
\* which the first Chat looks for, the task ends at once.
Begin(tools, key) ==
    /\ phase = "run"
    /\ IF tools # {} /\ key THEN phase' = "chat" /\ UNCHANGED result ELSE Return("error")
    /\ UNCHANGED <<loop, stream, cancelled, provider, emitted>>

-----------------------------------------------------------------------------
(* withRetry *)

\* The context is looked at before every attempt.
Send ==
    /\ phase = "chat"
    /\ IF cancelled THEN Return("error") ELSE phase' = "sent" /\ UNCHANGED result
    /\ started' = FALSE /\ meant' = Nothing /\ text' = FALSE /\ calls' = <<>>
    /\ UNCHANGED <<loop, cancelled, provider, emitted>>

\* Mutated: a delta does not end the retries.
MayRetry_Started(transient) == transient /\ attempt < MaxRetries

MayRetry(transient) == ~started /\ transient /\ attempt < MaxRetries

\* do() returned an error.
AttemptFails(transient) ==
    /\ IF MayRetry(transient)
       THEN phase' = "backoff" /\ UNCHANGED result
       ELSE Return("error")
    /\ UNCHANGED <<loop, stream, cancelled, provider, emitted>>

\* 429, 5xx and anything below HTTP may pass; another 4xx will not.
HttpFails == phase = "sent" /\ \E transient \in BOOLEAN : AttemptFails(transient)

StreamBreaks == phase = "stream" /\ AttemptFails(TRUE)

\* Mutated: the attempt is not counted.
NextAttempt_Same == attempt

NextAttempt == attempt + 1

BackoffEnds ==
    /\ phase = "backoff"
    /\ phase' = "chat" /\ attempt' = NextAttempt
    /\ UNCHANGED <<round, messages, next, stream, cancelled, provider, result, emitted>>

BackoffCancelled ==
    /\ phase = "backoff" /\ cancelled
    /\ Return("error")
    /\ UNCHANGED <<loop, stream, cancelled, provider, emitted>>

-----------------------------------------------------------------------------
(* The stream *)

\* json.Unmarshal: no arguments at all is no JSON either.
Decodes(c) == c.args \in {"{}", "full", "other"}

StreamOpens(m) ==
    /\ phase = "sent"
    /\ phase' = "stream" /\ meant' = m
    /\ UNCHANGED <<loop, started, text, calls, cancelled, provider, result, emitted>>

\* emit sets the bit, whether or not there is an onDelta.
TextDelta ==
    /\ phase = "stream" /\ meant.text /\ ~text
    /\ text' = TRUE /\ started' = TRUE
    /\ emitted' = emitted \cup {attempt}
    /\ UNCHANGED <<phase, loop, meant, calls, cancelled, provider, result>>

\* The index of the last call that began.
LastIndex == IF calls = <<>> THEN 0 ELSE calls[Len(calls)].of

\* The first frame of a call that is JSON.  A call of which none is has no part in the message.  If
\* the one with the name is dropped, a later one begins a call without a name over the OpenAI-shaped
\* adapter, and over the Anthropic one a block of no kind, which it leaves out.
CallStarts(k, name) ==
    /\ phase = "stream"
    /\ k > LastIndex
    /\ name = meant.calls[k].name \/ provider = "openai"
    /\ calls' = Append(calls, [of |-> k, name |-> name, args |-> ""])
    /\ UNCHANGED <<phase, loop, started, meant, text, cancelled, provider, result, emitted>>

\* The call the i-th one that began is a part of.
Meant(i) == meant.calls[calls[i].of]

\* A shard of a call, collected by its index: arguments arrive in two parts, no arguments in none or
\* as an empty object.
Shard(i) ==
    /\ phase = "stream"
    /\ \/ Meant(i).args = "full" /\ calls[i].args = ""
          /\ calls' = [calls EXCEPT ![i].args = "half"]
       \/ Meant(i).args = "full" /\ calls[i].args = "half"
          /\ calls' = [calls EXCEPT ![i].args = "full"]
       \/ Meant(i).args = "{}" /\ calls[i].args = ""
          /\ calls' = [calls EXCEPT ![i].args = "{}"]
    /\ UNCHANGED <<phase, loop, started, meant, text, cancelled, provider, result, emitted>>

\* A shard of a call is dropped and a later one is not: what is joined is no JSON, or other arguments.
Torn(i, rest) ==
    /\ phase = "stream"
    /\ Meant(i).args = "full" /\ calls[i].args \in {"", "half"}
    /\ calls' = [calls EXCEPT ![i].args = rest]
    /\ UNCHANGED <<phase, loop, started, meant, text, cancelled, provider, result, emitted>>

\* The input of a tool_use block: arguments that are no JSON become {}.
Input(c) == IF Decodes(c) THEN c ELSE [c EXCEPT !.args = "{}"]

\* toAnthropicMessages keeps the order and one message per message: only an
\* assistant's calls are rewritten, from text to an object.
Wire(m) ==
    IF provider = "anthropic" /\ m.role = "assistant"
    THEN [m EXCEPT !.calls = [i \in DOMAIN @ |-> Input(@[i])]]
    ELSE m

\* Mutated: the OpenAI adapter, too, takes no arguments for an empty object.
Arguments_Defaulted(i) == IF calls[i].args = "" THEN "{}" ELSE calls[i].args

\* The arguments the adapter returns for call i.
Arguments(i) ==
    IF provider = "anthropic" /\ calls[i].args = "" THEN "{}" ELSE calls[i].args

Assistant ==
    [role |-> "assistant", calls |-> [i \in 1..Len(calls) |-> [id |-> <<round, i>>,
        name |-> calls[i].name, args |-> Arguments(i)]]]

\* The stream says it is over, or its body just ends, which is no error to
\* scanSSE: the adapter returns the message as far as it has come, and Run
\* appends it.
StreamEnds ==
    /\ phase = "stream"
    /\ messages' = Append(messages, Assistant)
    /\ IF calls = <<>>
       THEN Return("text") /\ UNCHANGED next
       ELSE phase' = "tools" /\ next' = 1 /\ UNCHANGED result
    /\ UNCHANGED <<round, attempt, stream, cancelled, provider, emitted>>

-----------------------------------------------------------------------------
(* The calls of one round *)

\* Mutated: the loop's index is not used.
Current_First == messages[Len(messages) - (next - 1)].calls[1]

Current == messages[Len(messages) - (next - 1)].calls[next]

Permitted(c) == c.name \in ReadOnly

CallRefused ==
    /\ phase = "tools"
    /\ ~(Permitted(Current) /\ Decodes(Current))
    /\ Return("error")
    /\ UNCHANGED <<loop, stream, cancelled, provider, emitted>>

\* Mutated: a call that failed leaves nothing in the transcript.
Answered_OnlyResults(c, ok) ==
    IF ok THEN Append(messages, [role |-> "tool", calls |-> <<c>>]) ELSE messages

\* The result, or the error as a text: either goes to the model.
Answered(c, ok) == Append(messages, [role |-> "tool", calls |-> <<c>>])

\* Mutated: the last round does not count.
RoundsLeft_Always == TRUE

RoundsLeft == round + 1 < MaxRounds

\* The task waits for the private client.
CallMade ==
    /\ phase = "tools"
    /\ Permitted(Current) /\ Decodes(Current)
    /\ phase' = "calling"
    /\ UNCHANGED <<loop, stream, cancelled, provider, result, emitted>>

\* The answer, and what follows the round's last one.
CallReturned(ok) ==
    /\ phase = "calling"
    /\ messages' = Answered(Current, ok)
    /\ IF next < Len(calls)
       THEN phase' = "tools" /\ next' = next + 1 /\ UNCHANGED <<round, attempt, result, emitted>>
       ELSE /\ next' = 1 /\ attempt' = 0 /\ emitted' = {}
            /\ IF RoundsLeft
               THEN phase' = "chat" /\ round' = round + 1 /\ UNCHANGED result
               ELSE Return("error") /\ UNCHANGED round
    /\ UNCHANGED <<stream, cancelled, provider>>

\* The A2A request, or the server, goes away.
ContextDone ==
    /\ ~cancelled /\ phase # "returned"
    /\ cancelled' = TRUE
    /\ UNCHANGED <<phase, loop, stream, provider, result, emitted>>

Returned == phase = "returned" /\ UNCHANGED vars

-----------------------------------------------------------------------------
Frame ==
    \/ TextDelta
    \/ \E k \in 1..Len(meant.calls) : \E name \in {meant.calls[k].name, ""} : CallStarts(k, name)
    \/ \E i \in 1..Len(calls) : Shard(i) \/ \E rest \in {"torn", "other"} : Torn(i, rest)

\* What the task does, and what the model service does to it.
Step ==
    \/ \E tools \in {{}, ReadOnly}, key \in BOOLEAN : Begin(tools, key)
    \/ Send \/ HttpFails \/ StreamBreaks \/ BackoffEnds \/ BackoffCancelled
    \/ \E m \in Meanings : StreamOpens(m)
    \/ Frame \/ StreamEnds
    \/ CallRefused \/ CallMade

Next == Step \/ (\E ok \in BOOLEAN : CallReturned(ok)) \/ ContextDone \/ Returned

Spec == Init /\ [][Next]_vars

\* The HTTP client's timeout ends every exchange and the timer every backoff.
\* Nothing is assumed of a private call: it waits for a mutex that is held
\* across a dial without a deadline (client.go:142, 189).
FairSpec == Spec /\ WF_vars(Step)

-----------------------------------------------------------------------------
(* Properties *)

\* Type correctness: in particular rounds and attempts stay in their bounds
\* (runner.go:36, llm_retry.go:35).
TypeOK ==
    /\ provider \in {"openai", "anthropic"}
    /\ phase \in {"run", "chat", "sent", "backoff", "stream", "tools", "calling", "returned"}
    /\ round \in 0..MaxRounds - 1 /\ attempt \in 0..MaxRetries
    /\ {started, text, cancelled} \subseteq BOOLEAN
    /\ meant \in Meanings \cup {Nothing}
    /\ result \in {"none", "text", "error"}
    /\ \A i \in 1..Len(calls) : calls[i].args \in {"", "half", "full", "{}", "torn", "other"}
    /\ next \in Nat \ {0}
    /\ emitted \subseteq 0..MaxRetries

\* What is sent to the model service is a transcript it accepts: after a
\* message with n calls come the answers to these n calls, each once and in
\* order, then the next message (runner.go:36-61, llm_message.go:18-24).
TranscriptIsWellFormed ==
    phase \in {"sent", "stream"} =>
        \A k \in 1..Len(messages) :
            messages[k].role = "assistant" =>
                LET asked == Wire(messages[k]).calls
                    n == Len(asked)
                IN /\ n > 0
                   /\ \A i \in 1..n : k + i <= Len(messages)
                                      /\ messages[k + i].role = "tool"
                                      /\ messages[k + i].calls = <<asked[i]>>
                   /\ k + n < Len(messages) => messages[k + n + 1].role = "assistant"

\* A text the caller saw a part of is never begun again: of all the attempts
\* of one Chat, one at most emits (llm.go:99-102, llm_retry.go:30-32).
AnswerIsNotDoubled == Cardinality(emitted) <= 1

\* Over the OpenAI-shaped adapter a call that is made has the name and the
\* arguments the model meant, wherever its stream ended and whatever frames
\* were dropped; but for a frame dropped in the middle of the arguments that
\* leaves JSON (llm_openai.go:106-160, llm_sse.go:12-35).  The Anthropic one
\* takes no arguments for {}.
CallsAsMeant ==
    provider = "openai" /\ phase = "calling" =>
        Current.name = Meant(next).name /\ Current.args \in {Meant(next).args, "other"}

NamesOf(c) == [i \in 1..Len(c) |-> c[i].name]

\* The messages that ask for tools.
AskedIn(ms) == {k \in 1..Len(ms) : ms[k].role = "assistant" /\ ms[k].calls # <<>>}

\* What IntentLoop sees of the task.
Stage == CASE phase = "run" -> "off"
           [] phase \in {"tools", "calling"} -> "tools"
           [] phase = "returned" -> result
           [] OTHER -> "thinking"
Wanted == IF phase \in {"tools", "calling"} THEN NamesOf(SubSeq(calls, next, Len(calls))) ELSE <<>>
Calling == IF phase = "calling" THEN Current.name ELSE ""

\* The indices of k of n calls.
Chosen(k, n) == {f \in [1..k -> 1..n] : \A i, j \in 1..k : i < j => f[i] < f[j]}

\* Some of the calls of a message, in its order, some without a name.
Heard(m, f, named) == [i \in DOMAIN f |-> IF i \in named THEN m.calls[f[i]].name ELSE ""]
HeardOf(m, k) ==
    {Heard(m, f, named) : f \in Chosen(k, Len(m.calls)), named \in SUBSET (1..k)}
Askable == UNION {UNION {HeardOf(m, k) : k \in 1..Len(m.calls)} : m \in Meanings}

\* One task of IntentLoop.
Loop == INSTANCE IntentLoop WITH
    Tasks <- {"task"}, Rounds <- MaxRounds, NoCall <- "", Asks <- Askable,
    stage <- [t \in {"task"} |-> Stage], wanted <- [t \in {"task"} |-> Wanted],
    calling <- [t \in {"task"} |-> Calling],
    asked <- [t \in {"task"} |-> Cardinality(AskedIn(messages))]

\* Whatever arrives and whatever fails, the task does what IntentLoop says:
\* the calls of the message as it arrived, each once, in its order and only
\* reads (runner.go:31-64).  That the message may be a part of what was meant,
\* down to a text without its calls, is not ruled out.
ImplementsLoop == Loop!LoopSpec

\* Every task ends, within its rounds and attempts, unless a private call
\* never answers (runner.go:36, 63).
Terminates == []<>(phase # "calling") => <>(phase = "returned")
=============================================================================
