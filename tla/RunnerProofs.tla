---------------------------- MODULE RunnerProofs ----------------------------
(***************************************************************************)
(* The safety of one natural-language task, for every set of messages the  *)
(* model service may send, every set of read-only names and every number   *)
(* of rounds and retries; and Runner implements IntentLoop.                *)
(***************************************************************************)
EXTENDS Runner, FiniteSetTheorems, SequenceTheorems, TLAPS

-----------------------------------------------------------------------------
(* The invariant *)

Args == {"", "half", "full", "{}", "torn", "other"}
\* A call's name, or none (that "" is a STRING is not known to the provers).
Names == STRING \cup {""}
Arriving == [of : Nat, name : Names, args : Args]
Call == [id : Nat \X Nat, name : Names, args : Args]
Message == [role : {"assistant", "tool"}, calls : Seq(Call)]

Flags == started \in BOOLEAN /\ text \in BOOLEAN /\ cancelled \in BOOLEAN

Types ==
    /\ provider \in {"openai", "anthropic"}
    /\ phase \in {"run", "chat", "sent", "backoff", "stream", "tools", "calling", "returned"}
    /\ round \in 0..MaxRounds - 1 /\ attempt \in 0..MaxRetries
    /\ meant \in Meanings \cup {Nothing}
    /\ calls \in Seq(Arriving)
    /\ messages \in Seq(Message)
    /\ next \in Nat \ {0}
    /\ result \in {"none", "text", "error"}
    /\ emitted \subseteq {attempt}

\* While an attempt may be repeated nothing was emitted.
RetryShape ==
    /\ phase = "backoff" => attempt < MaxRetries
    /\ phase \in {"run", "chat", "sent", "backoff"} => emitted = {}
    /\ phase = "stream" /\ emitted # {} => started

\* The i-th call that began is a part of a meant one, a later one than those before.
Arrived(i) ==
    /\ calls[i].of \in 1..Len(meant.calls) /\ i <= calls[i].of
    /\ \A j \in 1..i - 1 : calls[j].of < calls[i].of
    /\ calls[i].name \in {Meant(i).name, ""}
    /\ calls[i].args \in {"", Meant(i).args, "torn", "other"}
       \/ (calls[i].args = "half" /\ Meant(i).args = "full")

\* Some of the meant calls have arrived.
StreamShape ==
    /\ phase = "sent" => calls = <<>>
    /\ phase \in {"stream", "tools", "calling"} =>
          meant \in Meanings /\ \A i \in 1..Len(calls) : Arrived(i)

\* The message asks for the call that message k + i answers.
AnsweredAt(k, i) ==
    /\ messages[k + i].role = "tool" /\ messages[k + i].calls = <<messages[k].calls[i]>>
    /\ Decodes(messages[k].calls[i])

\* Every round up to message n is complete, and another follows it.
Complete(n) ==
    \A k \in 1..n :
       messages[k].role = "assistant" =>
          LET len == Len(messages[k].calls)
          IN /\ len > 0 /\ k + len <= n
             /\ \A i \in 1..len : AnsweredAt(k, i)
             /\ k + len < n => messages[k + len + 1].role = "assistant"

\* The message whose calls are being made.
Top == Len(messages) - (next - 1)

TranscriptShape ==
    /\ phase \in {"run", "chat", "sent", "backoff", "stream"} => Complete(Len(messages))
    /\ phase \in {"tools", "calling"} =>
          /\ next <= Len(calls) /\ Top >= 1
          /\ messages[Top] = Assistant
          /\ Complete(Top - 1)
          /\ \A i \in 1..next - 1 : AnsweredAt(Top, i)
    /\ phase = "calling" => Permitted(Current) /\ Decodes(Current)

\* Every round asked once.
RoundShape ==
    phase # "returned" =>
        Cardinality(AskedIn(messages)) = IF phase \in {"tools", "calling"} THEN round + 1 ELSE round

IInv == Flags /\ Types /\ RetryShape /\ StreamShape /\ TranscriptShape /\ RoundShape

-----------------------------------------------------------------------------
(* Transcripts and streams *)

LEMMA MeantCalls ==
    ASSUME NEW m \in Meanings
    PROVE  /\ m.calls \in Seq(Requests) /\ Len(m.calls) \in Nat
           /\ \A i \in 1..Len(m.calls) : m.calls[i] \in Requests
<1>1. m.calls \in Seq(Requests)
  BY Zenon, MeaningAssumption
<1> QED
  BY <1>1

LEMMA RequestName ==
    ASSUME NEW r \in Requests
    PROVE  r.name \in Names
  BY DEF Requests, Names

LEMMA AppendMessage ==
    ASSUME NEW ms \in Seq(Message), NEW m \in Message
    PROVE  /\ Append(ms, m) \in Seq(Message) /\ Len(Append(ms, m)) = Len(ms) + 1
           /\ Append(ms, m)[Len(ms) + 1] = m
           /\ \A k \in 1..Len(ms) : Append(ms, m)[k] = ms[k]
  OBVIOUS

LEMMA AskedAppend ==
    ASSUME NEW ms \in Seq(Message), NEW m \in Message
    PROVE  /\ Cardinality(AskedIn(ms)) \in Nat
           /\ Cardinality(AskedIn(Append(ms, m)))
                = IF m.role = "assistant" /\ m.calls # <<>>
                  THEN Cardinality(AskedIn(ms)) + 1 ELSE Cardinality(AskedIn(ms))
<1>1. IsFiniteSet(AskedIn(ms))
  <2>1. AskedIn(ms) \subseteq 1..Len(ms) /\ IsFiniteSet(1..Len(ms))
    BY FS_Interval DEF AskedIn
  <2> QED
    BY <2>1, FS_Subset
<1>2. Len(ms) + 1 \notin AskedIn(ms)
  BY DEF AskedIn
<1>3. CASE m.role = "assistant" /\ m.calls # <<>>
  <2>1. AskedIn(Append(ms, m)) = AskedIn(ms) \cup {Len(ms) + 1}
    BY <1>3, AppendMessage DEF AskedIn
  <2> QED
    BY <1>1, <1>2, <1>3, <2>1, FS_AddElement, FS_CardinalityType
<1>4. CASE ~(m.role = "assistant" /\ m.calls # <<>>)
  <2>1. AskedIn(Append(ms, m)) = AskedIn(ms)
    BY <1>4, AppendMessage DEF AskedIn
  <2> QED
    BY <1>1, <1>4, <2>1, FS_CardinalityType
<1> QED
  BY <1>3, <1>4

\* The message an adapter returns asks for the calls that arrived.
LEMMA AssistantType ==
    ASSUME Types
    PROVE  /\ Assistant \in Message /\ Assistant.role = "assistant"
           /\ Len(Assistant.calls) = Len(calls)
           /\ \A i \in 1..Len(calls) : /\ Assistant.calls[i].name = calls[i].name
                                       /\ Assistant.calls[i].args = Arguments(i)
           /\ Assistant.calls = <<>> <=> calls = <<>>
<1> DEFINE entry(i) == [id |-> <<round, i>>, name |-> calls[i].name, args |-> Arguments(i)]
           cs == [i \in 1..Len(calls) |-> entry(i)]
<1>1. Len(calls) \in Nat /\ round \in Nat
  BY RoundAssumption DEF Types
<1>2. ASSUME NEW i \in 1..Len(calls) PROVE entry(i) \in Call
  <2>1. calls[i] \in Arriving
    BY DEF Types
  <2>2. Arguments(i) \in Args
    BY <2>1 DEF Arriving, Arguments, Args
  <2> QED
    BY <1>1, <2>1, <2>2 DEF Arriving, Call
<1>3. cs \in Seq(Call) /\ Len(cs) = Len(calls)
  <2> HIDE DEF entry
  <2> QED
    BY <1>1, <1>2
<1>4. Assistant = [role |-> "assistant", calls |-> cs]
  BY DEF Assistant
<1>5. cs = <<>> <=> calls = <<>>
  BY <1>3 DEF Types
<1>6. \A i \in 1..Len(calls) : cs[i].name = calls[i].name /\ cs[i].args = Arguments(i)
  OBVIOUS
<1> HIDE DEF cs
<1> QED
  BY <1>3, <1>4, <1>5, <1>6 DEF Message

\* The call the task is at is one of its last question.
LEMMA CurrentType ==
    ASSUME IInv, phase \in {"tools", "calling"}
    PROVE  /\ next \in 1..Len(calls) /\ Top \in 1..Len(messages) /\ Len(messages) = Top + next - 1
           /\ Current \in Call /\ Current = Assistant.calls[next]
           /\ Current.name = calls[next].name /\ Current.args = Arguments(next)
<1>1. Types /\ next <= Len(calls) /\ Top >= 1 /\ messages[Top] = Assistant
  BY DEF IInv, TranscriptShape
<1>2. next \in 1..Len(calls) /\ Top \in 1..Len(messages) /\ Len(messages) = Top + next - 1
  BY <1>1 DEF Types, Top
<1>3. Current = Assistant.calls[next]
  BY <1>1 DEF Current, Top
<1>4. Assistant.calls \in Seq(Call) /\ Len(Assistant.calls) = Len(calls)
  BY <1>1, AssistantType DEF Message
<1>5. Current \in Call
  BY <1>2, <1>3, <1>4
<1> QED
  BY <1>1, <1>2, <1>3, <1>5, AssistantType

LEMMA InitEstablishes == Init => IInv
<1> SUFFICES ASSUME Init PROVE IInv
  OBVIOUS
<1>1. calls \in Seq(Arriving) /\ messages \in Seq(Message) /\ Len(messages) = 0
  <2>1. calls = <<>> /\ messages = <<>>
    BY DEF Init
  <2> QED
    BY <2>1
<1>2. Types
  <2>1. provider \in {"openai", "anthropic"}
    BY DEF Init, newModel
  <2>2. 0 \in 0..MaxRounds - 1 /\ 0 \in 0..MaxRetries
    BY RoundAssumption
  <2> QED
    BY <1>1, <2>1, <2>2 DEF Init, Types
<1>3. Flags /\ RetryShape /\ StreamShape
  BY DEF Init, Flags, RetryShape, StreamShape
<1>4. TranscriptShape
  BY <1>1 DEF Init, TranscriptShape, Complete
<1>5. RoundShape
  <2>1. AskedIn(messages) = {}
    BY <1>1 DEF AskedIn
  <2> QED
    BY <2>1, FS_EmptySet DEF Init, RoundShape
<1> QED
  BY <1>2, <1>3, <1>4, <1>5 DEF IInv

-----------------------------------------------------------------------------
(* The steps *)

LEMMA SameTranscript ==
    ASSUME UNCHANGED <<messages, next>>
    PROVE  /\ \A n : Complete(n)' <=> Complete(n)
           /\ \A k, i : AnsweredAt(k, i)' <=> AnsweredAt(k, i)
           /\ (Permitted(Current) /\ Decodes(Current))' <=> Permitted(Current) /\ Decodes(Current)
           /\ Top' = Top /\ Len(messages)' = Len(messages)
           /\ AskedIn(messages)' = AskedIn(messages)
           /\ (UNCHANGED <<round, provider, calls>> => Assistant' = Assistant)
<1>1. \A n : Complete(n)' <=> Complete(n)
  BY DEF Complete, AnsweredAt, Decodes
<1>2. \A k, i : AnsweredAt(k, i)' <=> AnsweredAt(k, i)
  BY DEF AnsweredAt, Decodes
<1>3. Top' = Top /\ AskedIn(messages)' = AskedIn(messages) /\ Len(messages)' = Len(messages)
  BY DEF Top, AskedIn
<1>4. UNCHANGED <<round, provider, calls>> => Assistant' = Assistant
  BY DEF Assistant, Arguments
<1>5. (Permitted(Current) /\ Decodes(Current))' <=> Permitted(Current) /\ Decodes(Current)
  BY DEF Permitted, Decodes, Current
<1> QED
  BY <1>1, <1>2, <1>3, <1>4, <1>5

\* Nothing is written to the transcript, and no round begins or ends.
LEMMA TranscriptStays ==
    ASSUME IInv, UNCHANGED <<messages, next, round, provider>>,
           \/ phase' = "returned"
           \/ phase' = phase /\ UNCHANGED calls
           \/ {phase, phase'} \subseteq {"run", "chat", "sent", "backoff", "stream"}
    PROVE  TranscriptShape' /\ RoundShape'
<1>1. RoundShape'
  BY SameTranscript DEF IInv, RoundShape
<1>2. TranscriptShape'
  BY SameTranscript DEF IInv, TranscriptShape
<1> QED
  BY <1>1, <1>2

\* Nothing arrives.
LEMMA SameStream ==
    ASSUME UNCHANGED <<calls, meant>>
    PROVE  \A i : Arrived(i)' <=> Arrived(i)
  BY DEF Arrived, Meant

\* Another call begins.
LEMMA LaterIndex ==
    ASSUME NEW s \in Seq(Arriving), NEW c \in Arriving,
           \A i \in 1..Len(s) : i <= s[i].of /\ \A j \in 1..i - 1 : s[j].of < s[i].of,
           c.of > IF s = <<>> THEN 0 ELSE s[Len(s)].of
    PROVE  /\ Append(s, c) \in Seq(Arriving) /\ Len(Append(s, c)) = Len(s) + 1
           /\ Append(s, c)[Len(s) + 1] = c
           /\ \A i \in 1..Len(s) : Append(s, c)[i] = s[i]
           /\ \A i \in 1..Len(Append(s, c)) :
                 /\ i <= Append(s, c)[i].of
                 /\ \A j \in 1..i - 1 : Append(s, c)[j].of < Append(s, c)[i].of
<1>1. /\ Append(s, c) \in Seq(Arriving) /\ Len(Append(s, c)) = Len(s) + 1
      /\ Append(s, c)[Len(s) + 1] = c
      /\ \A i \in 1..Len(s) : Append(s, c)[i] = s[i]
  OBVIOUS
<1>2. Len(s) \in Nat /\ c.of \in Nat /\ \A i \in 1..Len(s) : s[i].of \in Nat
  <2>1. \A i \in 1..Len(s) : s[i] \in Arriving
    OBVIOUS
  <2> QED
    BY <2>1 DEF Arriving
<1>3. Len(s) + 1 <= c.of /\ \A j \in 1..Len(s) : s[j].of < c.of
  <2>1. CASE s = <<>>
    BY <1>2, <2>1
  <2>2. CASE s # <<>>
    <3>1. PICK n \in Nat : n = Len(s) /\ n \in 1..Len(s)
      BY <2>2
    <3>2. n <= s[n].of /\ s[n].of < c.of /\ \A j \in 1..n - 1 : s[j].of < s[n].of
      BY <2>2, <3>1
    <3> QED
      BY <1>2, <3>1, <3>2
  <2> QED
    BY <2>1, <2>2
<1>4. PICK t \in Seq(Arriving) : t = Append(s, c)
  BY <1>1
<1>5. ASSUME NEW i \in 1..Len(t)
      PROVE  i <= t[i].of /\ \A j \in 1..i - 1 : t[j].of < t[i].of
  <2>1. CASE i \in 1..Len(s)
    BY <1>1, <1>2, <1>4, <2>1
  <2>2. CASE i = Len(s) + 1
    BY <1>1, <1>2, <1>3, <1>4, <2>2
  <2> QED
    BY <1>1, <1>2, <1>4, <2>1, <2>2
<1> QED
  BY <1>1, <1>4, <1>5

\* Some more of the message arrives.
LEMMA FrameKeeps ==
    ASSUME IInv, Frame
    PROVE  IInv'
<1>1. Types /\ phase = "stream" /\ phase' = "stream"
      /\ UNCHANGED <<loop, meant, cancelled, provider, result>>
  BY DEF IInv, Frame, TextDelta, CallStarts, Shard, Torn
<1>2. calls' \in Seq(Arriving) /\ StreamShape'
  <2>1. meant \in Meanings /\ Len(calls) \in Nat /\ \A i \in 1..Len(calls) : Arrived(i)
    BY <1>1 DEF IInv, Types, StreamShape
  <2>2. CASE TextDelta
    <3>1. UNCHANGED calls
      BY <2>2 DEF TextDelta
    <3> QED
      BY <1>1, <2>1, <3>1, SameStream DEF Types, StreamShape
  <2>3. ASSUME NEW k, NEW name, CallStarts(k, name),
               k \in 1..Len(meant.calls), name \in {meant.calls[k].name, ""}
        PROVE  calls' \in Seq(Arriving) /\ StreamShape'
    <3> DEFINE c == [of |-> k, name |-> name, args |-> ""]
    <3>1. k \in Nat /\ name \in Names
      <4>1. Len(meant.calls) \in Nat /\ meant.calls[k] \in Requests
        BY <2>1, <2>3, MeantCalls, Zenon
      <4>2. k \in 1..Len(meant.calls) /\ (name = meant.calls[k].name \/ name = "")
        BY <2>3, Zenon
      <4>3. PICK n : n = Len(meant.calls) /\ n \in Nat /\ k \in 1..n
        BY <4>1, <4>2, Zenon
      <4>4. k \in Nat
        BY <4>3
      <4>5. meant.calls[k].name \in Names
        BY <4>1, RequestName, Zenon
      <4> QED
        BY <4>2, <4>4, <4>5 DEF Names
    <3>2. c \in Arriving /\ c.of = k /\ c.name = name /\ c.args = ""
      BY <3>1 DEF Arriving, Args
    <3> HIDE DEF c
    <3>3. calls' = Append(calls, c) /\ k > LastIndex
      BY <2>3 DEF CallStarts, c
    <3>4. \A i \in 1..Len(calls) : i <= calls[i].of /\ \A j \in 1..i - 1 : calls[j].of < calls[i].of
      BY <2>1, Zenon DEF Arrived
    <3>5. /\ calls' \in Seq(Arriving) /\ Len(calls') = Len(calls) + 1 /\ calls'[Len(calls) + 1] = c
          /\ \A i \in 1..Len(calls) : calls'[i] = calls[i]
          /\ \A i \in 1..Len(calls') : i <= calls'[i].of
                                       /\ \A j \in 1..i - 1 : calls'[j].of < calls'[i].of
      BY <1>1, <3>2, <3>3, <3>4, LaterIndex DEF Types, LastIndex
    <3>6. ASSUME NEW i \in 1..Len(calls')
          PROVE  /\ calls'[i].of \in 1..Len(meant.calls)
                 /\ calls'[i].name \in {meant.calls[calls'[i].of].name, ""}
                 /\ \/ calls'[i].args \in {"", meant.calls[calls'[i].of].args, "torn", "other"}
                    \/ calls'[i].args = "half" /\ meant.calls[calls'[i].of].args = "full"
      <4>1. CASE i \in 1..Len(calls)
        <5>1. Arrived(i) /\ calls'[i] = calls[i]
          BY <2>1, <3>5, <4>1, Zenon
        <5> QED
          BY <5>1, Zenon DEF Arrived, Meant
      <4>2. CASE i \notin 1..Len(calls)
        <5>1. i = Len(calls) + 1
          BY <2>1, <3>5, <4>2
        <5>2. calls'[i] = c
          BY <3>5, <5>1
        <5> QED
          BY <2>3, <3>2, <5>2, Zenon
      <4> QED
        BY <4>1, <4>2
    <3>7. \A i \in 1..Len(calls') : Arrived(i)'
      BY <1>1, <3>5, <3>6 DEF Arrived, Meant
    <3> QED
      BY <1>1, <2>1, <3>5, <3>7 DEF StreamShape
  <2>4. ASSUME NEW j \in 1..Len(calls),
               Shard(j) \/ \E rest \in {"torn", "other"} : Torn(j, rest)
        PROVE  calls' \in Seq(Arriving) /\ StreamShape'
    <3>1. PICK a \in Args :
             /\ calls' = [calls EXCEPT ![j].args = a]
             /\ a \in {Meant(j).args, "torn", "other"} \/ (a = "half" /\ Meant(j).args = "full")
      BY <2>4 DEF Shard, Torn, Args
    <3>2. calls \in Seq(Arriving) /\ calls[j] \in Arriving
      BY <1>1 DEF Types
    <3>3. calls'[j] = [calls[j] EXCEPT !.args = a] /\ calls'[j] \in Arriving
      BY <3>1, <3>2 DEF Arriving
    <3>4. calls' \in Seq(Arriving) /\ Len(calls') = Len(calls)
          /\ \A i \in 1..Len(calls) : i # j => calls'[i] = calls[i]
      <4>1. calls' = [calls EXCEPT ![j] = calls'[j]]
        BY <3>1, <3>3
      <4> QED
        BY <3>2, <3>3, <4>1
    <3>5. calls'[j].of = calls[j].of /\ calls'[j].name = calls[j].name /\ calls'[j].args = a
      BY <3>2, <3>3 DEF Arriving
    <3>6. \A i \in 1..Len(calls) : calls'[i].of = calls[i].of /\ calls'[i].name = calls[i].name
      BY <3>4, <3>5
    <3>7. ASSUME NEW i \in 1..Len(calls') PROVE Arrived(i)'
      <4>1. Arrived(i) /\ i \in 1..Len(calls) /\ Meant(i)' = Meant(i)
        BY <1>1, <2>1, <3>4, <3>6 DEF Meant
      <4>2. \A h \in 1..i - 1 : h \in 1..Len(calls)
        BY <2>1, <4>1
      <4>3. /\ calls'[i].of \in 1..Len(meant.calls) /\ i <= calls'[i].of
            /\ \A h \in 1..i - 1 : calls'[h].of < calls'[i].of
            /\ calls'[i].name \in {Meant(i).name, ""}
        BY <3>6, <4>1, <4>2 DEF Arrived
      <4>4. calls'[i].args \in {"", Meant(i).args, "torn", "other"}
            \/ (calls'[i].args = "half" /\ Meant(i).args = "full")
        BY <3>1, <3>4, <3>5, <4>1 DEF Arrived
      <4> QED
        BY <1>1, <4>1, <4>3, <4>4 DEF Arrived
    <3> QED
      BY <1>1, <2>1, <3>4, <3>7 DEF StreamShape
  <2> QED
    BY <2>2, <2>3, <2>4 DEF Frame
<1>3. Types' /\ RetryShape'
  BY <1>1, <1>2 DEF IInv, Types, RetryShape, Frame, TextDelta, CallStarts, Shard, Torn, loop
<1>4. TranscriptShape' /\ RoundShape'
  BY <1>1, TranscriptStays DEF loop
<1>5. Flags'
  BY DEF IInv, Flags, Frame, TextDelta, CallStarts, Shard, Torn
<1> QED
  BY <1>2, <1>3, <1>4, <1>5 DEF IInv

\* The steps that neither take a frame nor write the transcript.
LEMMA WaitingKeeps ==
    ASSUME IInv,
           \/ \E tools \in {{}, ReadOnly}, key \in BOOLEAN : Begin(tools, key)
           \/ Send \/ HttpFails \/ StreamBreaks \/ BackoffEnds \/ BackoffCancelled
           \/ \E m \in Meanings : StreamOpens(m)
           \/ CallRefused \/ ContextDone \/ UNCHANGED vars
    PROVE  IInv'
<1>1. UNCHANGED <<messages, next, round, provider>>
  BY DEF Begin, Send, HttpFails, StreamBreaks, AttemptFails, BackoffEnds, BackoffCancelled,
         StreamOpens, CallRefused, ContextDone, loop, vars
<1>2. Types'
  <2>1. calls' \in Seq(Arriving)
    <3>1. calls' = calls \/ calls' = <<>>
      BY DEF Begin, Send, HttpFails, StreamBreaks, AttemptFails, BackoffEnds, BackoffCancelled,
             StreamOpens, CallRefused, ContextDone, stream, vars
    <3>2. <<>> \in Seq(Arriving)
      OBVIOUS
    <3> QED
      BY <3>1, <3>2 DEF IInv, Types
  <2>2. CASE BackoffEnds
    <3>1. attempt' \in 0..MaxRetries /\ emitted' = {}
      BY <2>2, RoundAssumption DEF IInv, Types, RetryShape, BackoffEnds, NextAttempt
    <3> QED
      BY <1>1, <2>1, <2>2, <3>1 DEF IInv, Types, BackoffEnds, stream
  <2>3. CASE ~BackoffEnds
    <3>1. UNCHANGED <<attempt, emitted>>
      BY <2>3 DEF Begin, Send, HttpFails, StreamBreaks, AttemptFails, BackoffCancelled,
             StreamOpens, CallRefused, ContextDone, loop, vars
    <3>2. meant' \in Meanings \cup {Nothing}
      BY <2>3 DEF IInv, Types, Begin, Send, HttpFails, StreamBreaks, AttemptFails,
             BackoffCancelled, StreamOpens, CallRefused, ContextDone, stream, vars
    <3>3. phase' \in {"run", "chat", "sent", "backoff", "stream", "tools", "calling", "returned"}
          /\ result' \in {"none", "text", "error"}
      BY <2>3 DEF IInv, Types, Begin, Send, HttpFails, StreamBreaks, AttemptFails,
             BackoffCancelled, StreamOpens, CallRefused, ContextDone, Return, vars
    <3> QED
      BY <1>1, <2>1, <3>1, <3>2, <3>3 DEF IInv, Types
  <2> QED
    BY <2>2, <2>3
<1>3. RetryShape'
  BY DEF IInv, Types, RetryShape, Begin, Send, HttpFails, StreamBreaks, AttemptFails, MayRetry,
         BackoffEnds, BackoffCancelled, StreamOpens, CallRefused, ContextDone,
         Return, loop, stream, vars
<1>4. StreamShape'
  <2> USE DEF Arrived, Meant
  <2>1. CASE \E m \in Meanings : StreamOpens(m)
    <3>1. PICK m \in Meanings : phase = "sent" /\ phase' = "stream" /\ meant' = m /\ calls' = calls
      BY <2>1 DEF StreamOpens
    <3>2. calls' = <<>> /\ Len(calls') = 0 /\ Len(m.calls) \in Nat
      BY <3>1, MeantCalls DEF IInv, StreamShape
    <3> QED
      BY <3>1, <3>2 DEF StreamShape
  <2>2. CASE Send
    BY <2>2 DEF IInv, StreamShape, Send, Return
  <2>3. CASE ~Send /\ ~ \E m \in Meanings : StreamOpens(m)
    <3>1. /\ UNCHANGED <<calls, meant>>
          /\ phase' = phase \/ phase' \notin {"sent", "stream", "tools", "calling"}
      BY <2>3 DEF Begin, HttpFails, StreamBreaks, AttemptFails, BackoffEnds, BackoffCancelled,
             CallRefused, ContextDone, Return, stream, vars
    <3> QED
      BY <2>3, <3>1 DEF IInv, StreamShape
  <2> QED
    BY <2>1, <2>2, <2>3
<1>5. \/ phase' = "returned"
      \/ phase' = phase /\ UNCHANGED calls
      \/ {phase, phase'} \subseteq {"run", "chat", "sent", "backoff", "stream"}
  BY DEF Begin, Send, HttpFails, StreamBreaks, AttemptFails, BackoffEnds, BackoffCancelled,
         StreamOpens, CallRefused, ContextDone, Return, stream, vars
<1>6. TranscriptShape' /\ RoundShape'
  BY <1>1, <1>5, TranscriptStays
<1>7. Flags'
  BY DEF IInv, Flags, Begin, Send, HttpFails, StreamBreaks, AttemptFails, BackoffEnds,
         BackoffCancelled, StreamOpens, CallRefused, ContextDone, stream, vars
<1> QED
  BY <1>2, <1>3, <1>4, <1>6, <1>7 DEF IInv

\* What was complete stays so when a message is appended.
LEMMA PrefixStays ==
    ASSUME Types, NEW m \in Message, messages' = Append(messages, m)
    PROVE  /\ messages' \in Seq(Message) /\ Len(messages') = Len(messages) + 1
           /\ messages'[Len(messages) + 1] = m
           /\ \A k \in 1..Len(messages) : messages'[k] = messages[k]
           /\ \A k, i \in Nat \ {0} :
                 k + i <= Len(messages) /\ AnsweredAt(k, i) => AnsweredAt(k, i)'
           /\ \A n \in 0..Len(messages) : Complete(n) => Complete(n)'
<1>1. /\ messages' \in Seq(Message) /\ Len(messages') = Len(messages) + 1
      /\ messages'[Len(messages) + 1] = m
      /\ \A k \in 1..Len(messages) : messages'[k] = messages[k]
  BY AppendMessage DEF Types
<1>2. Len(messages) \in Nat
  BY DEF Types
<1>3. ASSUME NEW k \in Nat \ {0}, NEW i \in Nat \ {0}, k + i <= Len(messages), AnsweredAt(k, i)
      PROVE  AnsweredAt(k, i)'
  <2>1. messages'[k] = messages[k] /\ messages'[k + i] = messages[k + i]
    BY <1>1, <1>2, <1>3
  <2> QED
    BY <1>3, <2>1 DEF AnsweredAt, Decodes
<1>4. ASSUME NEW n \in 0..Len(messages), Complete(n)
      PROVE  Complete(n)'
  <2>1. SUFFICES ASSUME NEW k \in 1..n, messages'[k].role = "assistant"
                 PROVE  LET len == Len(messages'[k].calls)
                        IN /\ len > 0 /\ k + len <= n
                           /\ \A i \in 1..len : AnsweredAt(k, i)'
                           /\ k + len < n => messages'[k + len + 1].role = "assistant"
    BY DEF Complete
  <2> DEFINE len == Len(messages[k].calls)
  <2>2. messages'[k] = messages[k] /\ k \in 1..Len(messages)
    BY <1>1, <1>2
  <2>3. /\ len > 0 /\ k + len <= n
        /\ \A i \in 1..len : AnsweredAt(k, i)
        /\ k + len < n => messages[k + len + 1].role = "assistant"
    BY <1>4, <2>1, <2>2 DEF Complete
  <2>4. len \in Nat
    <3>1. messages[k] \in Message
      BY <2>2 DEF Types
    <3>2. messages[k].calls \in Seq(Call)
      BY <3>1 DEF Message
    <3> QED
      BY <3>2
  <2> HIDE DEF len
  <2>5. \A i \in 1..len : AnsweredAt(k, i)'
    BY <1>2, <1>3, <2>3, <2>4
  <2>6. k + len < n => messages'[k + len + 1] = messages[k + len + 1]
    BY <1>1, <1>2, <2>3, <2>4
  <2>7. len = Len(messages'[k].calls)
    BY <2>2 DEF len
  <2> QED
    BY <2>3, <2>5, <2>6, <2>7
<1> QED
  BY <1>1, <1>3, <1>4

\* The adapter returns what arrived; the round's calls follow.
LEMMA StreamEndsKeeps ==
    ASSUME IInv, StreamEnds
    PROVE  IInv'
<1>1. phase = "stream" /\ Types /\ Assistant \in Message /\ messages' = Append(messages, Assistant)
      /\ UNCHANGED <<round, attempt, started, meant, text, calls, cancelled, provider, emitted>>
  BY AssistantType DEF IInv, StreamEnds, stream
<1>2. \/ calls = <<>> /\ phase' = "returned" /\ result' = "text" /\ next' = next
      \/ calls # <<>> /\ phase' = "tools" /\ result' = result /\ next' = 1
  BY DEF StreamEnds, Return
<1>3. Types'
  BY <1>1, <1>2, PrefixStays DEF Types
<1>4. Flags' /\ RetryShape' /\ StreamShape'
  BY <1>1, <1>2 DEF IInv, Flags, RetryShape, StreamShape, Arrived, Meant
<1>5. TranscriptShape'
  <2>1. SUFFICES ASSUME calls # <<>>, phase' = "tools", next' = 1 PROVE TranscriptShape'
    BY <1>2 DEF TranscriptShape
  <2>2. Len(calls) \in Nat \ {0}
    BY <1>1, <2>1 DEF Types
  <2>3. PICK n \in Nat : n = Len(messages)
    BY <1>1 DEF Types
  <2>4. Len(messages') = n + 1 /\ messages'[n + 1] = Assistant /\ Top' = n + 1
    BY <1>1, <2>1, <2>3, PrefixStays DEF Top
  <2>5. Assistant' = Assistant
    BY <1>1 DEF Assistant, Arguments
  <2>6. Complete(n)'
    BY <1>1, <2>3, PrefixStays DEF IInv, TranscriptShape
  <2>7. (Top - 1)' = n
    BY <2>4
  <2> QED
    BY <1>1, <2>1, <2>2, <2>4, <2>5, <2>6, <2>7 DEF TranscriptShape
<1>6. RoundShape'
  <2>1. calls # <<>> => Cardinality(AskedIn(messages')) = Cardinality(AskedIn(messages)) + 1
    BY <1>1, AskedAppend, AssistantType DEF Types
  <2> QED
    BY <1>1, <1>2, <2>1 DEF IInv, RoundShape
<1> QED
  BY <1>3, <1>4, <1>5, <1>6 DEF IInv

LEMMA CallMadeKeeps ==
    ASSUME IInv, CallMade
    PROVE  IInv'
<1>1. UNCHANGED <<round, attempt, messages, next, started, meant, text, calls, cancelled, provider,
                  result, emitted>>
      /\ phase = "tools" /\ phase' = "calling" /\ Permitted(Current) /\ Decodes(Current)
  BY DEF CallMade, loop, stream
<1>2. Flags' /\ Types' /\ RetryShape'
  BY <1>1 DEF IInv, Flags, Types, RetryShape
<1>3. StreamShape' /\ RoundShape'
  BY <1>1, SameStream DEF IInv, StreamShape, RoundShape, AskedIn
<1>4. TranscriptShape'
  BY <1>1, SameTranscript DEF IInv, TranscriptShape
<1> QED
  BY <1>2, <1>3, <1>4 DEF IInv

\* An answer in the middle of a round, or the last one.
LEMMA CallReturnedKeeps ==
    ASSUME IInv, NEW ok \in BOOLEAN, CallReturned(ok)
    PROVE  IInv'
<1> DEFINE m == [role |-> "tool", calls |-> <<Current>>]
<1>1. /\ Types /\ phase = "calling" /\ messages' = Append(messages, m)
      /\ UNCHANGED <<started, meant, text, calls, cancelled, provider>>
  BY DEF IInv, CallReturned, Answered, stream
<1>2. /\ next \in 1..Len(calls) /\ Top \in 1..Len(messages) /\ Len(messages) = Top + next - 1
      /\ Current \in Call /\ Current = messages[Top].calls[next] /\ Decodes(Current)
      /\ messages[Top] = Assistant /\ Len(messages[Top].calls) = Len(calls)
      /\ messages[Top].role = "assistant"
  BY <1>1, CurrentType, AssistantType DEF IInv, TranscriptShape
<1>3. m \in Message /\ m.role = "tool" /\ m.calls = <<Current>>
  <2>1. <<Current>> \in Seq(Call)
    BY <1>2
  <2> QED
    BY <2>1 DEF Message
<1> HIDE DEF m
<1>4. \/ /\ next < Len(calls) /\ phase' = "tools" /\ next' = next + 1
         /\ UNCHANGED <<round, attempt, result, emitted>>
      \/ /\ next = Len(calls) /\ next' = 1 /\ attempt' = 0 /\ emitted' = {}
         /\ \/ /\ phase' = "chat" /\ round' = round + 1 /\ round + 1 < MaxRounds
               /\ result' = result
            \/ phase' = "returned" /\ round' = round /\ result' = "error"
  BY <1>1, <1>2 DEF Types, CallReturned, RoundsLeft, Return
<1>5. Types'
  <2>1. /\ round' \in 0..MaxRounds - 1 /\ attempt' \in 0..MaxRetries /\ next' \in Nat \ {0}
        /\ emitted' \subseteq {attempt'} /\ phase' \in {"tools", "chat", "returned"}
        /\ result' \in {"none", "text", "error"}
    <3>1. round \in 0..MaxRounds - 1 /\ attempt \in 0..MaxRetries /\ next \in Nat \ {0}
      BY <1>1 DEF Types
    <3>2. round' \in 0..MaxRounds - 1
      BY <1>4, <3>1, RoundAssumption
    <3>3. attempt' \in 0..MaxRetries /\ next' \in Nat \ {0}
      BY <1>4, <3>1, RoundAssumption
    <3> QED
      BY <1>1, <1>4, <3>2, <3>3 DEF Types
  <2> QED
    BY <1>1, <1>3, <1>4, <2>1, PrefixStays DEF Types
<1>6. Flags' /\ RetryShape' /\ StreamShape'
  BY <1>1, <1>4 DEF IInv, Flags, RetryShape, StreamShape, Arrived, Meant
<1>7. RoundShape'
  <2>1. Cardinality(AskedIn(messages')) = Cardinality(AskedIn(messages))
    BY <1>1, <1>3, AskedAppend DEF Types
  <2> QED
    BY <1>1, <1>4, <2>1 DEF IInv, RoundShape
<1>8. PICK top \in 1..Len(messages) : top = Top
  BY <1>2
<1>9. /\ Len(messages) \in Nat /\ Len(messages') = Len(messages) + 1
      /\ messages'[Len(messages) + 1] = m
      /\ \A k \in 1..Len(messages) : messages'[k] = messages[k]
  BY <1>1, <1>3, PrefixStays DEF Types
<1>10. Complete(top - 1) /\ Complete(top - 1)'
  BY <1>1, <1>3, <1>8, <1>9, PrefixStays DEF IInv, TranscriptShape
<1>11. ASSUME NEW i \in 1..next PROVE AnsweredAt(top, i)'
  <2>1. CASE i < next
    <3>1. AnsweredAt(top, i)
      BY <1>1, <1>2, <1>8, <2>1 DEF IInv, TranscriptShape
    <3> QED
      BY <1>1, <1>2, <1>3, <1>8, <1>9, <2>1, <3>1, PrefixStays
  <2>2. CASE i = next
    <3>1. top + i = Len(messages) + 1 /\ messages'[top] = messages[top]
      BY <1>2, <1>8, <1>9, <2>2
    <3>2. messages'[top + i] = m
      BY <1>9, <3>1
    <3> QED
      BY <1>2, <1>3, <1>8, <2>2, <3>1, <3>2 DEF AnsweredAt, Decodes
  <2> QED
    BY <1>2, <2>1, <2>2
<1>12. CASE phase' = "tools"
  <2>1. next' = next + 1 /\ next < Len(calls) /\ Assistant' = Assistant
    BY <1>1, <1>4, <1>12 DEF Assistant, Arguments
  <2>2. Top' = top /\ Len(messages') \in Nat
    BY <1>2, <1>8, <1>9, <2>1 DEF Top
  <2>3. messages'[top] = Assistant
    BY <1>2, <1>8, <1>9
  <2>4. (Top - 1)' = top - 1
    BY <2>2
  <2>5. \A i \in 1..next' - 1 : AnsweredAt(top, i)'
    BY <1>2, <1>11, <2>1
  <2>6. TranscriptShape'
    BY <1>1, <1>2, <1>10, <1>12, <2>1, <2>2, <2>3, <2>4, <2>5 DEF TranscriptShape
  <2> QED
    BY <1>5, <1>6, <1>7, <2>6 DEF IInv
<1>13. CASE phase' # "tools"
  <2>1. PICK n \in Nat : n = Len(messages')
    BY <1>9
  <2>2. next = Len(calls) /\ n = top + next /\ phase' \in {"chat", "returned"}
    BY <1>2, <1>4, <1>8, <1>9, <1>13, <2>1
  <2>3. ASSUME NEW k \in 1..n, messages'[k].role = "assistant"
        PROVE  LET len == Len(messages'[k].calls)
               IN /\ len > 0 /\ k + len <= n
                  /\ \A i \in 1..len : AnsweredAt(k, i)'
                  /\ k + len < n => messages'[k + len + 1].role = "assistant"
    <3>1. CASE k = top
      <4>1. Len(messages'[k].calls) = next
        BY <1>2, <1>8, <1>9, <2>2, <3>1
      <4> QED
        BY <1>2, <1>11, <2>2, <3>1, <4>1
    <3>2. CASE k < top
      <4> DEFINE len == Len(messages'[k].calls)
      <4>1. /\ len > 0 /\ k + len <= top - 1
            /\ \A i \in 1..len : AnsweredAt(k, i)'
            /\ k + len < top - 1 => messages'[k + len + 1].role = "assistant"
        BY <1>10, <2>3, <3>2 DEF Complete
      <4>2. len \in Nat
        <5>1. messages'[k] \in Message
          BY <1>5, <2>1 DEF Types
        <5>2. messages'[k].calls \in Seq(Call)
          BY <5>1 DEF Message
        <5> QED
          BY <5>2
      <4> HIDE DEF len
      <4>3. k + len = top - 1 => messages'[k + len + 1].role = "assistant"
        BY <1>2, <1>8, <1>9, <4>2
      <4>4. k + len <= n /\ (k + len < n => messages'[k + len + 1].role = "assistant")
        BY <1>2, <1>8, <2>2, <4>1, <4>2, <4>3
      <4> QED
        BY <4>1, <4>4 DEF len
    <3>3. CASE k > top
      <4>1. k - top \in 1..next /\ top + (k - top) = k
        BY <1>2, <1>8, <2>2, <3>3
      <4>2. AnsweredAt(top, k - top)'
        BY <1>11, <4>1
      <4> QED
        BY <2>3, <4>1, <4>2 DEF AnsweredAt
    <3> QED
      BY <3>1, <3>2, <3>3
  <2>4. Complete(n)'
    BY <2>3 DEF Complete
  <2>5. Len(messages)' = n
    BY <2>1
  <2>6. TranscriptShape'
    BY <2>2, <2>4, <2>5 DEF TranscriptShape
  <2> QED
    BY <1>5, <1>6, <1>7, <2>6 DEF IInv
<1> QED
  BY <1>12, <1>13

LEMMA Invariant == Spec => []IInv
<1>1. ASSUME IInv, [Next]_vars PROVE IInv'
  <2>1. CASE UNCHANGED vars
    BY <1>1, <2>1, WaitingKeeps
  <2>2. CASE StreamEnds
    BY <1>1, <2>2, StreamEndsKeeps
  <2> QED
    BY <1>1, <2>1, <2>2, FrameKeeps, WaitingKeeps, CallMadeKeeps, CallReturnedKeeps
    DEF Next, Step, Returned
<1> QED
  BY <1>1, InitEstablishes, PTL DEF Spec

-----------------------------------------------------------------------------
(* The theorems *)

\* Rounds and attempts stay in their bounds, whatever the model service
\* sends (runner.go:36, llm_retry.go:35).
THEOREM TypeCorrect == Spec => []TypeOK
<1>1. IInv => TypeOK
  <2> SUFFICES ASSUME IInv PROVE TypeOK
    OBVIOUS
  <2>1. Types
    BY DEF IInv
  <2>2. {started, text, cancelled} \subseteq BOOLEAN
    BY DEF IInv, Flags
  <2>3. ASSUME NEW i \in 1..Len(calls) PROVE calls[i].args \in Args
    <3>1. calls[i] \in Arriving
      BY <2>1 DEF Types
    <3> QED
      BY <3>1 DEF Arriving
  <2> QED
    BY <2>1, <2>2, <2>3 DEF Types, TypeOK, Args
<1> QED
  BY <1>1, Invariant, PTL

\* The transcript that goes on the wire, after either adapter's rewriting,
\* answers every call once and in order (runner.go:36-61,
\* llm_anthropic.go's toAnthropicMessages).
THEOREM WellFormed == Spec => []TranscriptIsWellFormed
<1>1. IInv => TranscriptIsWellFormed
  <2> SUFFICES ASSUME IInv, phase \in {"sent", "stream"},
                      NEW k \in 1..Len(messages), messages[k].role = "assistant"
               PROVE  LET asked == Wire(messages[k]).calls
                          n == Len(asked)
                      IN /\ n > 0
                         /\ \A i \in 1..n : k + i <= Len(messages)
                                            /\ messages[k + i].role = "tool"
                                            /\ messages[k + i].calls = <<asked[i]>>
                         /\ k + n < Len(messages) => messages[k + n + 1].role = "assistant"
    BY DEF TranscriptIsWellFormed
  <2> DEFINE cs == messages[k].calls
  <2>1. messages[k] \in Message /\ Len(messages) \in Nat
    BY DEF IInv, Types
  <2>2. cs \in Seq(Call)
    BY <2>1 DEF Message
  <2>3. /\ Len(cs) > 0 /\ k + Len(cs) <= Len(messages)
        /\ \A i \in 1..Len(cs) : AnsweredAt(k, i)
        /\ k + Len(cs) < Len(messages) => messages[k + Len(cs) + 1].role = "assistant"
    BY DEF IInv, TranscriptShape, Complete
  <2>4. ASSUME NEW i \in DOMAIN cs PROVE Input(cs[i]) = cs[i]
    <3>1. AnsweredAt(k, i)
      BY <2>2, <2>3
    <3>2. Decodes(cs[i])
      BY <3>1 DEF AnsweredAt
    <3> HIDE DEF cs
    <3> QED
      BY <3>2 DEF Input
  <2>5. Wire(messages[k]).calls = cs
    <3>1. CASE provider = "anthropic"
      <4>1. Wire(messages[k]).calls = [i \in DOMAIN cs |-> Input(cs[i])]
        BY <2>1, <3>1 DEF Wire, Message
      <4>2. [i \in DOMAIN cs |-> Input(cs[i])] = [i \in DOMAIN cs |-> cs[i]]
        BY <2>4
      <4>3. [i \in DOMAIN cs |-> cs[i]] = cs
        BY <2>2
      <4> QED
        BY <4>1, <4>2, <4>3
    <3>2. CASE provider # "anthropic"
      BY <3>2 DEF Wire
    <3> QED
      BY <3>1, <3>2
  <2>6. \A i \in 1..Len(cs) : messages[k + i].role = "tool" /\ messages[k + i].calls = <<cs[i]>>
    BY <2>3 DEF AnsweredAt
  <2>7. Len(cs) \in Nat
    BY <2>2
  <2> HIDE DEF cs
  <2> QED
    BY <2>1, <2>3, <2>5, <2>6, <2>7
<1> QED
  BY <1>1, Invariant, PTL

\* A retry never repeats text the caller has seen (llm.go:99-102,
\* llm_retry.go:30-32).
THEOREM NotDoubled == Spec => []AnswerIsNotDoubled
<1>1. IInv => AnswerIsNotDoubled
  <2> SUFFICES ASSUME IInv PROVE Cardinality(emitted) <= 1
    BY DEF AnswerIsNotDoubled
  <2>1. emitted = {} \/ emitted = {attempt}
    BY DEF IInv, Types
  <2>2. Cardinality(emitted) \in {0, 1}
    BY <2>1, FS_EmptySet, FS_Singleton
  <2> QED
    BY <2>2
<1> QED
  BY <1>1, Invariant, PTL

\* A stream that is cut anywhere never makes a call with arguments the model
\* did not mean, over the OpenAI-shaped adapter (llm_openai.go:150-160).
THEOREM ArgumentsAsMeant == Spec => []CallsAsMeant
<1>1. IInv => CallsAsMeant
  <2> SUFFICES ASSUME IInv, provider = "openai", phase = "calling"
               PROVE  Current.name = Meant(next).name /\ Current.args \in {Meant(next).args, "other"}
    BY DEF CallsAsMeant
  <2>1. next \in 1..Len(calls) /\ Current.name = calls[next].name /\ Current.args = calls[next].args
    BY CurrentType DEF Arguments
  <2>2. Current.args \in {"{}", "full", "other"} /\ Current.name # ""
    BY MeaningAssumption DEF IInv, TranscriptShape, Decodes, Permitted
  <2>3. Arrived(next)
    BY <2>1 DEF IInv, StreamShape
  <2> QED
    BY <2>1, <2>2, <2>3 DEF Arrived
<1> QED
  BY <1>1, Invariant, PTL

-----------------------------------------------------------------------------
(* Runner implements IntentLoop *)

Asked == Cardinality(AskedIn(messages))

LEMMA One ==
    ASSUME NEW a, NEW b
    PROVE  /\ [[t \in {"task"} |-> a] EXCEPT !["task"] = b] = [t \in {"task"} |-> b]
           /\ [t \in {"task"} |-> a]["task"] = a
  OBVIOUS

\* A task that waits for the model, begins, or gives up.
LEMMA WaitingRefines ==
    ASSUME UNCHANGED messages,
           \/ UNCHANGED <<Stage, Wanted, Calling>>
           \/ Stage = "off" /\ Stage' = "thinking" /\ UNCHANGED <<Wanted, Calling>>
           \/ /\ Stage \in {"off", "thinking", "tools"} /\ Calling = ""
              /\ Stage' = "error" /\ Wanted' = <<>> /\ Calling' = ""
    PROVE  [Loop!LoopNext]_Loop!loopVars
<1>1. Asked' = Asked
  BY DEF Asked, AskedIn
<1>2. CASE UNCHANGED <<Stage, Wanted, Calling>>
  BY <1>1, <1>2 DEF Loop!loopVars, Asked
<1>3. CASE Stage = "off" /\ Stage' = "thinking" /\ UNCHANGED <<Wanted, Calling>>
  <2>1. Loop!Enter("task")
    BY <1>1, <1>3, One DEF Loop!Enter, Asked
  <2> QED
    BY <2>1 DEF Loop!LoopNext
<1>4. CASE /\ Stage \in {"off", "thinking", "tools"} /\ Calling = ""
           /\ Stage' = "error" /\ Wanted' = <<>> /\ Calling' = ""
  <2>1. Loop!Break("task")
    BY <1>1, <1>4, One DEF Loop!Break, Asked
  <2> QED
    BY <2>1 DEF Loop!LoopNext
<1> QED
  BY <1>2, <1>3, <1>4

\* The names of a list from its i-th call on.
LEMMA NamesFrom ==
    ASSUME NEW s \in Seq(Arriving), NEW i \in 1..Len(s)
    PROVE  LET w == NamesOf(SubSeq(s, i, Len(s)))
           IN /\ w \in Seq(Names) /\ w # <<>> /\ Len(w) = Len(s) - i + 1
              /\ Head(w) = s[i].name
              /\ Tail(w) = NamesOf(SubSeq(s, i + 1, Len(s)))
<1> DEFINE w == NamesOf(SubSeq(s, i, Len(s)))
           v == NamesOf(SubSeq(s, i + 1, Len(s)))
<1>1. ASSUME NEW j \in 1..Len(s) + 1
      PROVE  NamesOf(SubSeq(s, j, Len(s))) = [k \in 1..Len(s) - j + 1 |-> s[j + k - 1].name]
  <2>1. Len(SubSeq(s, j, Len(s))) = Len(s) - j + 1
    OBVIOUS
  <2>2. \A k \in 1..Len(s) - j + 1 : SubSeq(s, j, Len(s))[k] = s[j + k - 1]
    OBVIOUS
  <2> QED
    BY <2>1, <2>2 DEF NamesOf
<1>2. \A k \in 1..Len(s) : s[k].name \in Names
  <2>1. \A k \in 1..Len(s) : s[k] \in Arriving
    OBVIOUS
  <2> QED
    BY <2>1 DEF Arriving
<1>3. w = [k \in 1..Len(s) - i + 1 |-> s[i + k - 1].name]
  BY <1>1
<1>4. v = [k \in 1..Len(s) - i |-> s[i + k].name]
  <2>1. v = [k \in 1..Len(s) - (i + 1) + 1 |-> s[(i + 1) + k - 1].name]
    BY <1>1
  <2>2. Len(s) - (i + 1) + 1 = Len(s) - i
        /\ \A k \in 1..Len(s) - i : (i + 1) + k - 1 = i + k
    OBVIOUS
  <2> QED
    BY <2>1, <2>2
<1> HIDE DEF w, v
<1>5. Len(s) - i + 1 \in Nat \ {0} /\ \A k \in 1..Len(s) - i + 1 : i + k - 1 \in 1..Len(s)
  OBVIOUS
<1>6. w \in Seq(Names) /\ Len(w) = Len(s) - i + 1
  BY <1>2, <1>3, <1>5
<1>7. w # <<>> /\ Head(w) = w[1] /\ w[1] = s[i].name
  <2>1. w[1] = s[i].name
    BY <1>3, <1>5
  <2>2. w # <<>>
    BY <1>5, <1>6
  <2>3. Head(w) = w[1]
    BY <1>6, <2>2
  <2> QED
    BY <2>1, <2>2, <2>3
<1>8. Tail(w) = v
  <2>1. Tail(w) \in Seq(Names) /\ Len(Tail(w)) = Len(w) - 1
        /\ \A k \in 1..Len(Tail(w)) : Tail(w)[k] = w[k + 1]
    BY <1>6, <1>7, HeadTailProperties
  <2>2. Len(w) - 1 = Len(s) - i /\ \A k \in 1..Len(s) - i : w[k + 1] = s[i + k].name
    BY <1>3, <1>6
  <2>3. v \in Seq(Names) /\ Len(v) = Len(s) - i
    BY <1>2, <1>4, <1>5
  <2> QED
    BY <1>4, <2>1, <2>2, <2>3, SeqEqual
<1> QED
  BY <1>6, <1>7, <1>8 DEF w, v

\* The list that arrived is one of those that may be asked for.
LEMMA WantedIsAskable ==
    ASSUME IInv, phase = "stream", calls # <<>>
    PROVE  NamesOf(SubSeq(calls, 1, Len(calls))) \in Askable
<1> DEFINE k == Len(calls)
           f == [i \in 1..k |-> calls[i].of]
           named == {i \in 1..k : calls[i].name # ""}
<1>1. calls \in Seq(Arriving) /\ meant \in Meanings /\ \A i \in 1..k : Arrived(i)
  BY DEF IInv, Types, StreamShape
<1>2. k \in Nat \ {0} /\ Len(meant.calls) \in Nat
  BY <1>1, MeantCalls
<1>3. \A i \in 1..k : calls[i].of \in 1..Len(meant.calls)
  BY <1>1 DEF Arrived
<1>4. f \in Chosen(k, Len(meant.calls))
  <2>1. ASSUME NEW i \in 1..k, NEW j \in 1..k, i < j PROVE calls[i].of < calls[j].of
    <3>1. i \in 1..j - 1 /\ Arrived(j)
      BY <1>1, <1>2, <2>1
    <3> QED
      BY <3>1 DEF Arrived
  <2>2. f \in [1..k -> 1..Len(meant.calls)]
    BY <1>3
  <2> QED
    BY <2>1, <2>2 DEF Chosen
<1>5. k \in 1..Len(meant.calls)
  <2>1. k \in 1..k
    BY <1>2
  <2>2. Arrived(k)
    BY <1>1, <2>1
  <2>3. PICK n \in Nat : n = k /\ calls[n].of \in 1..Len(meant.calls) /\ n <= calls[n].of
    BY <1>2, <2>2 DEF Arrived
  <2> QED
    BY <1>2, <2>3
<1>6. NamesOf(SubSeq(calls, 1, k)) = Heard(meant, f, named)
  <2>1. Len(SubSeq(calls, 1, k)) = k /\ \A i \in 1..k : SubSeq(calls, 1, k)[i] = calls[i]
    BY <1>1, <1>2
  <2>2. \A i \in 1..k : calls[i].name = IF i \in named THEN meant.calls[f[i]].name ELSE ""
    BY <1>1 DEF Arrived, Meant
  <2>3. NamesOf(SubSeq(calls, 1, k)) = [i \in 1..k |-> calls[i].name]
    BY <2>1 DEF NamesOf
  <2>4. DOMAIN f = 1..k
    OBVIOUS
  <2> HIDE DEF f, named, k
  <2> QED
    BY <2>2, <2>3, <2>4 DEF Heard
<1>7. named \in SUBSET (1..k)
  OBVIOUS
<1> HIDE DEF f, named, k
<1>8. Heard(meant, f, named) \in HeardOf(meant, k)
  BY <1>4, <1>7 DEF HeardOf
<1> QED
  BY <1>1, <1>5, <1>6, <1>8 DEF Askable, k

LEMMA StreamEndsRefines ==
    ASSUME IInv, StreamEnds
    PROVE  Loop!LoopNext
<1>1. phase = "stream" /\ Types /\ Assistant \in Message /\ messages' = Append(messages, Assistant)
      /\ (Assistant.calls = <<>> <=> calls = <<>>) /\ Assistant.role = "assistant"
      /\ UNCHANGED calls
  BY AssistantType DEF IInv, StreamEnds, stream
<1>2. Stage = "thinking" /\ Calling = "" /\ Wanted = <<>>
  BY <1>1 DEF Stage, Calling, Wanted
<1>3. Asked' = IF calls # <<>> THEN Asked + 1 ELSE Asked
  BY <1>1, AskedAppend DEF Types, Asked
<1>4. CASE calls = <<>>
  <2>1. Stage' = "text" /\ Calling' = "" /\ Wanted' = <<>>
    BY <1>4 DEF StreamEnds, Return, Stage, Calling, Wanted
  <2>2. Loop!Tell("task")
    BY <1>2, <1>3, <1>4, <2>1, One DEF Loop!Tell, Asked
  <2> QED
    BY <2>2 DEF Loop!LoopNext
<1>5. CASE calls # <<>>
  <2> DEFINE w == NamesOf(SubSeq(calls, 1, Len(calls)))
  <2>1. phase' = "tools" /\ next' = 1
    BY <1>5 DEF StreamEnds
  <2>2. Stage' = "tools" /\ Calling' = ""
    BY <2>1 DEF Stage, Calling
  <2>3. Wanted' = w
    BY <1>1, <2>1 DEF Wanted, NamesOf
  <2>4. w \in Askable
    BY <1>1, <1>5, WantedIsAskable
  <2> HIDE DEF w
  <2>5. Loop!AskFor("task", w)
    BY <1>2, <1>3, <1>5, <2>2, <2>3, One DEF Loop!AskFor, Asked
  <2> QED
    BY <2>4, <2>5 DEF Loop!LoopNext
<1> QED
  BY <1>4, <1>5

LEMMA CallMadeRefines ==
    ASSUME IInv, CallMade
    PROVE  Loop!LoopNext
<1>1. phase = "tools" /\ phase' = "calling" /\ UNCHANGED <<messages, next, calls>>
      /\ Current.name \in ReadOnly
  BY DEF CallMade, loop, stream, Permitted
<1>2. next \in 1..Len(calls) /\ Current.name = calls[next].name /\ calls \in Seq(Arriving)
  BY <1>1, CurrentType DEF IInv, Types
<1>3. Head(Wanted) = Current.name
  BY <1>1, <1>2, NamesFrom DEF Wanted
<1>4. Stage = "tools" /\ Stage' = "tools" /\ Calling = "" /\ Calling' = Current.name
  BY <1>1 DEF Stage, Calling, Current
<1>5. Wanted' = Wanted /\ Asked' = Asked
  BY <1>1 DEF Wanted, NamesOf, Asked, AskedIn
<1>6. Loop!Make("task")
  BY <1>1, <1>3, <1>4, <1>5, One DEF Loop!Make, Loop!MayMake, Asked
<1> QED
  BY <1>6 DEF Loop!LoopNext

LEMMA CallReturnedRefines ==
    ASSUME IInv, NEW ok \in BOOLEAN, CallReturned(ok)
    PROVE  Loop!LoopNext
<1> DEFINE m == [role |-> "tool", calls |-> <<Current>>]
<1>1. /\ Types /\ phase = "calling" /\ messages' = Append(messages, m) /\ UNCHANGED calls
  BY DEF IInv, CallReturned, Answered, stream
<1>2. /\ next \in 1..Len(calls) /\ calls \in Seq(Arriving) /\ Len(calls) \in Nat
      /\ Current \in Call
  BY <1>1, CurrentType DEF Types
<1>3. m \in Message /\ m.role = "tool"
  <2>1. <<Current>> \in Seq(Call)
    BY <1>2
  <2> QED
    BY <2>1 DEF Message
<1> HIDE DEF m
<1>4. Asked' = Asked /\ Asked = round + 1
  BY <1>1, <1>3, AskedAppend DEF IInv, Types, RoundShape, Asked
<1>5. /\ Wanted \in Seq(Names) /\ Wanted # <<>> /\ Len(Wanted) = Len(calls) - next + 1
      /\ Tail(Wanted) = NamesOf(SubSeq(calls, next + 1, Len(calls)))
  BY <1>1, <1>2, NamesFrom DEF Wanted
<1>6. Stage = "tools" /\ Calling # "" /\ Calling' = ""
  <2>1. Current.name # ""
    BY <1>1, MeaningAssumption DEF IInv, TranscriptShape, Permitted
  <2>2. phase' # "calling"
    BY DEF CallReturned, Return
  <2> QED
    BY <1>1, <2>1, <2>2 DEF Stage, Calling
<1>7. Wanted' = Tail(Wanted)
      /\ Stage' = IF Len(Wanted) > 1 THEN "tools"
                  ELSE IF Asked < MaxRounds THEN "thinking" ELSE "error"
  <2>1. CASE next < Len(calls)
    <3>1. phase' = "tools" /\ next' = next + 1
      BY <2>1 DEF CallReturned
    <3>2. Wanted' = NamesOf(SubSeq(calls, next + 1, Len(calls)))
      BY <1>1, <3>1 DEF Wanted, NamesOf
    <3> QED
      BY <1>2, <1>5, <2>1, <3>1, <3>2 DEF Stage
  <2>2. CASE next = Len(calls)
    <3>1. /\ round + 1 < MaxRounds => phase' = "chat"
          /\ ~(round + 1 < MaxRounds) => phase' = "returned" /\ result' = "error"
      BY <1>2, <2>2 DEF CallReturned, RoundsLeft, Return
    <3>2. Wanted' = <<>>
      BY <3>1 DEF Wanted
    <3>3. Tail(Wanted) = <<>>
      <4>1. Tail(Wanted) \in Seq(Names) /\ Len(Tail(Wanted)) = 0
        BY <1>2, <1>5, <2>2, HeadTailProperties
      <4> QED
        BY <4>1, EmptySeq
    <3> QED
      BY <1>2, <1>4, <1>5, <2>2, <3>1, <3>2, <3>3 DEF Stage
  <2> QED
    BY <1>2, <2>1, <2>2
<1>8. Loop!Hear("task")
  BY <1>4, <1>6, <1>7, One DEF Loop!Hear, Loop!Thinks, Asked
<1> QED
  BY <1>8 DEF Loop!LoopNext

LEMMA StepRefines == IInv /\ [Next]_vars => [Loop!LoopNext]_Loop!loopVars
<1> SUFFICES ASSUME IInv, [Next]_vars PROVE [Loop!LoopNext]_Loop!loopVars
  OBVIOUS
<1>1. CASE StreamEnds
  BY <1>1, StreamEndsRefines
<1>2. CASE CallMade
  BY <1>2, CallMadeRefines
<1>3. ASSUME NEW ok \in BOOLEAN, CallReturned(ok) PROVE Loop!LoopNext
  BY <1>3, CallReturnedRefines
<1>4. ASSUME UNCHANGED messages, UNCHANGED <<next, calls, result>>,
             phase' = phase \/ {phase, phase'} \subseteq {"chat", "sent", "backoff", "stream"}
      PROVE  [Loop!LoopNext]_Loop!loopVars
  <2>1. UNCHANGED <<Stage, Wanted, Calling>>
    BY <1>4 DEF Stage, Wanted, Calling, Current, NamesOf
  <2> QED
    BY <1>4, <2>1, WaitingRefines
<1>5. ASSUME UNCHANGED messages, phase' = "returned", result' = "error",
             phase \in {"run", "chat", "sent", "backoff", "stream", "tools"}
      PROVE  [Loop!LoopNext]_Loop!loopVars
  <2>1. /\ Stage \in {"off", "thinking", "tools"} /\ Calling = ""
        /\ Stage' = "error" /\ Wanted' = <<>> /\ Calling' = ""
    BY <1>5 DEF Stage, Wanted, Calling
  <2> QED
    BY <1>5, <2>1, WaitingRefines
<1>6. ASSUME NEW tools \in {{}, ReadOnly}, NEW key \in BOOLEAN, Begin(tools, key)
      PROVE  [Loop!LoopNext]_Loop!loopVars
  <2>1. CASE phase' = "chat"
    <3>1. Stage = "off" /\ Stage' = "thinking" /\ UNCHANGED <<Wanted, Calling, messages>>
      BY <1>6, <2>1 DEF Begin, Stage, Wanted, Calling, loop
    <3> QED
      BY <3>1, WaitingRefines
  <2>2. CASE phase' # "chat"
    BY <1>5, <1>6, <2>2 DEF Begin, Return, loop
  <2> QED
    BY <2>1, <2>2
<1>7. CASE Send
  <2>1. CASE phase' = "sent"
    <3>1. phase = "chat" /\ UNCHANGED <<messages, next, result>>
      BY <1>7, <2>1 DEF Send, Return, loop
    <3>2. UNCHANGED <<Stage, Wanted, Calling>>
      BY <2>1, <3>1 DEF Stage, Wanted, Calling
    <3> QED
      BY <3>1, <3>2, WaitingRefines
  <2>2. CASE phase' # "sent"
    BY <1>5, <1>7, <2>2 DEF Send, Return, loop
  <2> QED
    BY <2>1, <2>2
<1>8. CASE HttpFails \/ StreamBreaks
  BY <1>4, <1>5, <1>8 DEF HttpFails, StreamBreaks, AttemptFails, Return, loop, stream
<1>9. CASE BackoffEnds \/ BackoffCancelled \/ ContextDone \/ CallRefused \/ UNCHANGED vars
           \/ \E m \in Meanings : StreamOpens(m)
  BY <1>4, <1>5, <1>9 DEF BackoffEnds, BackoffCancelled, ContextDone, CallRefused, StreamOpens,
     Return, loop, stream, vars
<1>10. CASE Frame
  <2>1. phase = "stream" /\ phase' = "stream" /\ UNCHANGED <<messages, next>>
    BY <1>10 DEF Frame, TextDelta, CallStarts, Shard, Torn, loop
  <2>2. UNCHANGED <<Stage, Wanted, Calling>>
    BY <2>1 DEF Stage, Wanted, Calling
  <2> QED
    BY <2>1, <2>2, WaitingRefines
<1> QED
  BY <1>1, <1>2, <1>3, <1>6, <1>7, <1>8, <1>9, <1>10 DEF Next, Step, Returned

\* Whatever the stream, the retries and the adapters do, a task is what
\* IntentLoop says (runner.go:31-64).
THEOREM Refinement == Spec => ImplementsLoop
<1>1. Init => Loop!LoopInit
  <2> SUFFICES ASSUME Init PROVE Loop!LoopInit
    OBVIOUS
  <2>1. Stage = "off" /\ Wanted = <<>> /\ Calling = ""
    BY DEF Init, Stage, Wanted, Calling
  <2>2. Asked = 0
    BY InitEstablishes DEF IInv, RoundShape, Init, Asked
  <2> QED
    BY <2>1, <2>2 DEF Loop!LoopInit, Asked
<1> QED
  BY <1>1, StepRefines, Invariant, PTL DEF Spec, ImplementsLoop, Loop!LoopSpec

=============================================================================
