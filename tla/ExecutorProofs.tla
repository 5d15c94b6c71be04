--------------------------- MODULE ExecutorProofs ---------------------------
(***************************************************************************)
(* The safety of the A2A executor, for every registry, catalog, set of     *)
(* concurrent tasks and of envelopes.  The invariant follows one task      *)
(* through Execute: what it may have run, yielded and answered at each     *)
(* place of the code.                                                      *)
(***************************************************************************)
EXTENDS Executor, SequenceTheorems, TLAPS

-----------------------------------------------------------------------------
(* The inductive invariant *)

Replies == [form : {"none", "response", "text"}, ok : BOOLEAN,
            says : {"", "pending", "success", "failed"}]

EventNames == {"submitted", "working", "completed", "canceled", "error"}

Types ==
    /\ wanted \in [Tasks -> Seq(STRING)]
    /\ runs \in [Tasks -> Nat]
    /\ events \in [Tasks -> Seq(EventNames)]
    /\ reply \in [Tasks -> Replies]
    /\ stopped \in [Tasks -> EventNames \cup {"none"}]
    /\ everRan \in [Tasks -> SUBSET Catalog]

\* A model is asked again while there are rounds left, and a call is waited
\* for only between a request for tools and its last result.
LoopShape(t) ==
    /\ stage[t] = "off" => asked[t] = 0
    /\ stage[t] = "thinking" => asked[t] < Rounds
    /\ stage[t] = "tools" => wanted[t] # <<>>
    /\ calling[t] # NoCall => stage[t] = "tools"

\* What the private client holds of the task has run if it says so, and is
\* what the task asked for.
RelayShape(t) ==
    /\ status[t] = "idle" => runs[t] = 0 /\ tool[t] = NoTool
    /\ status[t] = "answered" => worked[t]
    /\ worked[t] => runs[t] > 0
    /\ runs[t] > 0 => tool[t] \in everRan[t]
    /\ status[t] # "idle" => IF IsIntent(envelope[t]) THEN tool[t] \in ReadOnly
                             ELSE tool[t] = envelope[t].tool

\* Where Execute is tells what it has done.
TaskShape(t) ==
    /\ pc[t] = "idle" => envelope[t] = NoEnvelope
    /\ envelope[t] = NoEnvelope => pc[t] \in {"idle", "done"} /\ reply[t] = NoReply
                                   /\ status[t] = "idle" /\ everRan[t] = {}
    /\ pc[t] \in {"idle", "received", "submitted", "handling", "taken"} =>
          status[t] = "idle" /\ everRan[t] = {}
    /\ pc[t] \notin {"replied", "done"} => reply[t] = NoReply
    /\ pc[t] \in {"taken", "calling"} => ~IsIntent(envelope[t])
    /\ pc[t] = "taken" => envelope[t].tool = "broadcast_evm_tx" /\ envelope[t].tx \in taken
    /\ pc[t] = "calling" => envelope[t].tool \in Proxied
    /\ pc[t] = "running" => IsIntent(envelope[t])
    /\ stopped[t] # "none" => pc[t] = "done" /\ status[t] = "idle" /\ everRan[t] = {}
    /\ envelope[t] # NoEnvelope =>
          everRan[t] \subseteq IF IsIntent(envelope[t]) THEN ReadOnly ELSE {envelope[t].tool}

\* ... and what it has yielded.
InOrder(t) ==
    /\ \A i, j \in 1..Len(events[t]) : i < j =>
          \/ "canceled" \in {events[t][i], events[t][j]}
          \/ Follows(events[t][i], events[t][j])
    /\ \A i, j \in 1..Len(events[t]) : i < j /\ events[t][i] = stopped[t] =>
          events[t][j] = "canceled"

EventShape(t) ==
    /\ pc[t] \in {"idle", "received"} => Yielded(t) \subseteq {"canceled"}
    /\ pc[t] = "submitted" => Yielded(t) \subseteq {"submitted", "canceled"}
    /\ pc[t] \in {"handling", "taken", "calling", "running", "replied"} =>
          "working" \in Yielded(t) /\ Yielded(t) \cap {"completed", "error"} = {}
    /\ "completed" \in Yielded(t) => "working" \in Yielded(t)
    /\ InOrder(t)

\* A reply to an envelope says what is so.
ReplyShape(t) ==
    envelope[t] # NoEnvelope /\ ~IsIntent(envelope[t]) =>
        /\ reply[t] = Response(TRUE) /\ envelope[t].tool \in Proxied
              => envelope[t].tool \in everRan[t] /\ worked[t]
        /\ reply[t].ok /\ envelope[t].tool = "broadcast_evm_tx" => envelope[t].tx \in taken
        /\ reply[t].says \in {"success", "failed"} =>
              envelope[t].tx \in Txs /\ reply[t].says = chain[envelope[t].tx]
        /\ reply[t].form = "text" => status[t] = "idle" /\ everRan[t] = {}

Shape(t) == LoopShape(t) /\ RelayShape(t) /\ TaskShape(t) /\ EventShape(t) /\ ReplyShape(t)

IInv == TypeOK /\ Types /\ \A t \in Tasks : Shape(t)

-----------------------------------------------------------------------------
(* What steps have in common *)

Still(u) ==
    /\ tool'[u] = tool[u] /\ status'[u] = status[u] /\ runs'[u] = runs[u]
    /\ worked'[u] = worked[u]
    /\ stage'[u] = stage[u] /\ wanted'[u] = wanted[u]
    /\ calling'[u] = calling[u] /\ asked'[u] = asked[u]
    /\ pc'[u] = pc[u] /\ envelope'[u] = envelope[u] /\ events'[u] = events[u]
    /\ reply'[u] = reply[u] /\ stopped'[u] = stopped[u] /\ everRan'[u] = everRan[u]

Others(t) == \A u \in Tasks \ {t} : Still(u)

\* The node takes transactions, and a mined one stays as it is.
NodeAdvances ==
    /\ taken \subseteq taken'
    /\ \A x \in Txs : chain[x] \in {"success", "failed"} => chain'[x] = chain[x]

\* A task is not disturbed by another.
LEMMA StillKeeps ==
    ASSUME IInv, NEW u \in Tasks, Still(u), NodeAdvances
    PROVE  Shape(u)'
<1> USE DEF Still, NodeAdvances, IInv, Shape
<1>1. LoopShape(u)' /\ RelayShape(u)'
  BY DEF LoopShape, RelayShape
<1>2. TaskShape(u)'
  BY DEF TaskShape
<1>3. EventShape(u)'
  <2>1. Yielded(u)' = Yielded(u)
    BY DEF Yielded
  <2> QED
    BY <2>1 DEF EventShape, InOrder, Follows
<1>4. ReplyShape(u)'
  <2>1. /\ reply'[u] = reply[u] /\ envelope'[u] = envelope[u] /\ everRan'[u] = everRan[u]
        /\ pc'[u] = pc[u] /\ status'[u] = status[u] /\ worked'[u] = worked[u]
    OBVIOUS
  <2>2. ReplyShape(u)
    OBVIOUS
  <2> QED
    BY <2>1, <2>2 DEF ReplyShape, IsIntent, Response
<1> QED
  BY <1>1, <1>2, <1>3, <1>4

LEMMA OthersKeep ==
    ASSUME IInv, NEW t, Others(t), NodeAdvances
    PROVE  \A u \in Tasks \ {t} : Shape(u)'
  BY StillKeeps DEF Others

\* A request may be asked again after the last name it was asked for.
LEMMA SuffixTail ==
    ASSUME NEW w \in Seq(STRING), NEW k \in 1..Len(w),
           Tail(SubSeq(w, k, Len(w))) # <<>>
    PROVE  \E j \in 1..Len(w) : Tail(SubSeq(w, k, Len(w))) = SubSeq(w, j, Len(w))
<1>1. k + 1 \in 1..Len(w)
  OBVIOUS
<1>2. Tail(SubSeq(w, k, Len(w))) = SubSeq(w, k + 1, Len(w))
  OBVIOUS
<1> QED
  BY <1>1, <1>2

\* A task that has not been answered claims nothing.
LEMMA NoReplyClaims ==
    /\ NoReply \in Replies /\ NoReply # Response(TRUE)
    /\ ~NoReply.ok /\ NoReply.says = "" /\ NoReply.form = "none"
  BY DEF NoReply, Replies, Response

LEMMA InitIInv == Init => IInv
<1> SUFFICES ASSUME Init PROVE IInv
  OBVIOUS
<1> USE DEF Init, LoopInit, Relay!AbsInit
<1>1. TypeOK
  BY LoopAssumption DEF TypeOK, LoopTypeOK, Stages, Relay!AbsStatus
<1>2. Types
  <2>1. NoReply \in Replies
    BY DEF NoReply, Replies
  <2>2. wanted \in [Tasks -> Seq(STRING)] /\ events \in [Tasks -> Seq(EventNames)]
    OBVIOUS
  <2> QED
    BY <2>1, <2>2 DEF Types
<1>3. ASSUME NEW t \in Tasks
      PROVE  Shape(t)
  <2>1. events[t] = <<>> /\ Yielded(t) = {}
    BY DEF Yielded
  <2>2. LoopShape(t) /\ RelayShape(t)
    BY DEF LoopShape, RelayShape
  <2>3. TaskShape(t) /\ ReplyShape(t)
    BY EnvelopeAssumption DEF TaskShape, ReplyShape, NoReply, Response
  <2>4. EventShape(t)
    BY <2>1 DEF EventShape, InOrder
  <2> QED
    BY <2>2, <2>3, <2>4 DEF Shape
<1> QED
  BY <1>1, <1>2, <1>3 DEF IInv

-----------------------------------------------------------------------------
(* The events *)

\* A request without a message.
LEMMA ReceiveNothingStep ==
    ASSUME IInv, NEW t \in Tasks, ReceiveNothing(t)
    PROVE  IInv'
<1>1. /\ pc[t] = "idle" /\ pc' = [pc EXCEPT ![t] = "done"]
      /\ events' = [events EXCEPT ![t] = <<"error">>]
      /\ UNCHANGED <<tool, status, runs, worked, stage, wanted, calling, asked, chain, taken,
                     envelope, reply, stopped, everRan>>
  BY DEF ReceiveNothing, relay, loopVars, node
<1>2. TypeOK'
  BY <1>1 DEF IInv, TypeOK, LoopTypeOK
<1>3. Types'
  <2>1. <<"error">> \in Seq(EventNames)
    BY DEF EventNames
  <2> QED
    BY <1>1, <2>1 DEF IInv, Types
<1>4. \A u \in Tasks \ {t} : Shape(u)'
  BY <1>1, OthersKeep DEF IInv, TypeOK, Types, Others, Still, NodeAdvances
<1>5. LoopShape(t)' /\ RelayShape(t)'
  BY <1>1 DEF IInv, Shape, LoopShape, RelayShape
<1>6. TaskShape(t)'
  BY <1>1 DEF IInv, TypeOK, Shape, TaskShape
<1>7. EventShape(t)'
  <2>1. events'[t] = <<"error">> /\ Len(events'[t]) = 1 /\ events'[t][1] = "error"
    BY <1>1 DEF IInv, Types
  <2>2. Yielded(t)' = {"error"}
    BY <2>1 DEF Yielded
  <2> QED
    BY <1>1, <2>1, <2>2 DEF IInv, TypeOK, EventShape, InOrder
<1>8. ReplyShape(t)'
  <2>1. reply'[t] = NoReply
    BY <1>1 DEF IInv, Shape, TaskShape
  <2> QED
    BY <2>1, NoReplyClaims DEF ReplyShape, IsIntent, Response
<1> QED
  BY <1>2, <1>3, <1>4, <1>5, <1>6, <1>7, <1>8 DEF IInv, Shape

LEMMA ReceiveStep ==
    ASSUME IInv, NEW t \in Tasks, NEW e \in Envelopes, NEW stored \in BOOLEAN,
           Receive(t, e, stored)
    PROVE  IInv'
<1>1. /\ pc[t] = "idle" /\ pc' = [pc EXCEPT ![t] = IF stored THEN "submitted" ELSE "received"]
      /\ envelope' = [envelope EXCEPT ![t] = e]
      /\ UNCHANGED <<tool, status, runs, worked, stage, wanted, calling, asked, chain, taken,
                     events, reply, stopped, everRan>>
  BY DEF Receive, relay, loopVars, node
<1>2. TypeOK'
  BY <1>1 DEF IInv, TypeOK, LoopTypeOK
<1>3. Types'
  BY <1>1 DEF IInv, Types
<1>4. \A u \in Tasks \ {t} : Shape(u)'
  BY <1>1, OthersKeep DEF IInv, TypeOK, Others, Still, NodeAdvances
<1>5. LoopShape(t)' /\ RelayShape(t)'
  BY <1>1 DEF IInv, TypeOK, Shape, LoopShape, RelayShape, TaskShape
<1>6. TaskShape(t)'
  BY <1>1, EnvelopeAssumption DEF IInv, TypeOK, Shape, TaskShape
<1>7. EventShape(t)'
  <2>1. Yielded(t)' = Yielded(t) /\ Yielded(t) \subseteq {"canceled"}
    BY <1>1 DEF IInv, Shape, EventShape, Yielded
  <2> QED
    BY <1>1, <2>1 DEF IInv, TypeOK, Shape, EventShape, InOrder, Follows
<1>8. ReplyShape(t)'
  <2>1. reply'[t] = NoReply
    BY <1>1 DEF IInv, Shape, TaskShape
  <2> QED
    BY <2>1, NoReplyClaims DEF ReplyShape, IsIntent, Response
<1> QED
  BY <1>2, <1>3, <1>4, <1>5, <1>6, <1>7, <1>8 DEF IInv, Shape

\* One more event at the end.
LEMMA OneMoreEvent ==
    ASSUME NEW s \in Seq(EventNames), NEW e \in EventNames
    PROVE  /\ Append(s, e) \in Seq(EventNames)
           /\ Len(Append(s, e)) = Len(s) + 1 /\ Append(s, e)[Len(s) + 1] = e
           /\ \A i \in 1..Len(s) : Append(s, e)[i] = s[i]
           /\ {Append(s, e)[i] : i \in 1..Len(Append(s, e))} = {s[i] : i \in 1..Len(s)} \cup {e}
<1>1. /\ Append(s, e) \in Seq(EventNames)
      /\ Len(Append(s, e)) = Len(s) + 1 /\ Append(s, e)[Len(s) + 1] = e
      /\ \A i \in 1..Len(s) : Append(s, e)[i] = s[i]
  OBVIOUS
<1>2. 1..Len(Append(s, e)) = 1..Len(s) \cup {Len(s) + 1}
  BY <1>1
<1> QED
  BY <1>1, <1>2

\* A cancellation may come anywhere; another event after those it follows,
\* and only to a consumer that has not stopped.
LEMMA AppendedInOrder ==
    ASSUME IInv, NEW t \in Tasks, NEW e \in EventNames,
           events'[t] = Append(events[t], e),
           e = "canceled" \/ \A i \in 1..Len(events[t]) :
                                events[t][i] = "canceled" \/ Follows(events[t][i], e),
           \/ e = "canceled" /\ stopped'[t] = stopped[t]
           \/ \A i \in 1..Len(events[t]) : events[t][i] # stopped'[t]
    PROVE  Yielded(t)' = Yielded(t) \cup {e} /\ InOrder(t)'
<1>1. events[t] \in Seq(EventNames)
  BY DEF IInv, Types
<1>2. /\ Yielded(t)' = Yielded(t) \cup {e}
      /\ Len(events'[t]) = Len(events[t]) + 1 /\ events'[t][Len(events[t]) + 1] = e
      /\ \A i \in 1..Len(events[t]) : events'[t][i] = events[t][i]
  BY <1>1, OneMoreEvent DEF Yielded
<1>3. Len(events[t]) \in Nat
  BY <1>1
<1>4. InOrder(t)
  BY DEF IInv, Shape, EventShape
<1>5. \A i, j \in 1..Len(events'[t]) : i < j =>
         \/ "canceled" \in {events'[t][i], events'[t][j]}
         \/ Follows(events'[t][i], events'[t][j])
  BY <1>2, <1>3, <1>4 DEF InOrder
<1>6. \A i, j \in 1..Len(events'[t]) : i < j /\ events'[t][i] = stopped'[t] =>
         events'[t][j] = "canceled"
  BY <1>2, <1>3, <1>4 DEF InOrder
<1> QED
  BY <1>2, <1>5, <1>6 DEF InOrder

\* Execute yields, and stops at once when nobody reads on.
LEMMA YieldStep ==
    ASSUME IInv, NEW t \in Tasks, NEW event \in {"submitted", "working"}, NEW then,
           Yield(t, event, then),
           \/ pc[t] = "received" /\ event = "submitted" /\ then = "submitted"
           \/ pc[t] = "submitted" /\ event = "working" /\ then = "handling",
           UNCHANGED <<relay, loopVars, node, envelope, reply, everRan>>
    PROVE  IInv'
<1>1. PICK goesOn \in BOOLEAN :
          /\ events' = [events EXCEPT ![t] = Append(@, event)]
          /\ pc' = [pc EXCEPT ![t] = IF goesOn THEN then ELSE "done"]
          /\ stopped' = [stopped EXCEPT ![t] = IF goesOn THEN @ ELSE event]
          /\ UNCHANGED <<tool, status, runs, worked, stage, wanted, calling, asked, chain, taken,
                         envelope, reply, everRan>>
  BY DEF Yield, AfterYield, relay, loopVars, node
<1>2. events[t] \in Seq(EventNames) /\ event \in EventNames
  BY DEF IInv, Types, EventNames
<1>3. events'[t] = Append(events[t], event)
  BY <1>1 DEF IInv, Types
<1>4. TypeOK'
  BY <1>1 DEF IInv, TypeOK, LoopTypeOK
<1>5. Types'
  BY <1>1, <1>2, OneMoreEvent DEF IInv, Types
<1>6. \A u \in Tasks \ {t} : Shape(u)'
  BY <1>1, OthersKeep DEF IInv, TypeOK, Types, Others, Still, NodeAdvances
<1>7. LoopShape(t)' /\ RelayShape(t)'
  BY <1>1 DEF IInv, Shape, LoopShape, RelayShape
<1>8. TaskShape(t)'
  BY <1>1 DEF IInv, TypeOK, Types, Shape, TaskShape
<1>9. EventShape(t)'
  <2>1. \A i \in 1..Len(events[t]) : events[t][i] \in Yielded(t)
    BY DEF Yielded
  <2>2. \A i \in 1..Len(events[t]) : events[t][i] = "canceled" \/ Follows(events[t][i], event)
    BY <2>1 DEF IInv, Shape, EventShape, Follows
  <2>3. stopped'[t] \in {"none", event}
    BY <1>1 DEF IInv, Types, Shape, TaskShape
  <2>4. \A i \in 1..Len(events[t]) : events[t][i] # stopped'[t]
    BY <1>2, <2>1, <2>3 DEF IInv, Shape, EventShape, EventNames
  <2>5. Yielded(t)' = Yielded(t) \cup {event} /\ InOrder(t)'
    BY <1>2, <1>3, <2>2, <2>4, AppendedInOrder
  <2>6. /\ pc'[t] \in {"submitted", "handling", "done"}
        /\ pc'[t] = "submitted" => event = "submitted" /\ Yielded(t) \subseteq {"canceled"}
        /\ pc'[t] = "handling" => event = "working" /\ "error" \notin Yielded(t)
        /\ "completed" \notin Yielded(t)
    BY <1>1 DEF IInv, TypeOK, Shape, EventShape
  <2> QED
    BY <2>5, <2>6 DEF EventShape
<1>10. ReplyShape(t)'
  <2>1. reply'[t] = NoReply
    BY <1>1 DEF IInv, Shape, TaskShape
  <2> QED
    BY <2>1, NoReplyClaims DEF ReplyShape, IsIntent, Response
<1> QED
  BY <1>4, <1>5, <1>6, <1>7, <1>8, <1>9, <1>10 DEF IInv, Shape

\* The last event, of a task that has its reply.
LEMMA YieldCompletedStep ==
    ASSUME IInv, NEW t \in Tasks, YieldCompleted(t)
    PROVE  IInv'
<1>1. /\ pc[t] = "replied"
      /\ events' = [events EXCEPT ![t] = Append(@, "completed")]
      /\ pc' = [pc EXCEPT ![t] = "done"]
      /\ UNCHANGED <<tool, status, runs, worked, stage, wanted, calling, asked, chain, taken,
                     envelope, reply, stopped, everRan>>
  BY DEF YieldCompleted, relay, loopVars, node
<1>2. events[t] \in Seq(EventNames) /\ "completed" \in EventNames
  BY DEF IInv, Types, EventNames
<1>3. events'[t] = Append(events[t], "completed")
  BY <1>1 DEF IInv, Types
<1>4. TypeOK'
  BY <1>1 DEF IInv, TypeOK, LoopTypeOK
<1>5. Types'
  BY <1>1, <1>2, OneMoreEvent DEF IInv, Types
<1>6. \A u \in Tasks \ {t} : Shape(u)'
  BY <1>1, OthersKeep DEF IInv, TypeOK, Types, Others, Still, NodeAdvances
<1>7. LoopShape(t)' /\ RelayShape(t)'
  BY <1>1 DEF IInv, Shape, LoopShape, RelayShape
<1>8. TaskShape(t)'
  BY <1>1 DEF IInv, TypeOK, Types, Shape, TaskShape
<1>9. EventShape(t)'
  <2>1. \A i \in 1..Len(events[t]) : events[t][i] \in Yielded(t) /\ events[t][i] \in EventNames
    BY <1>2 DEF Yielded
  <2>2. \A i \in 1..Len(events[t]) : events[t][i] = "canceled" \/ Follows(events[t][i], "completed")
    BY <1>1, <2>1 DEF IInv, Shape, EventShape, Follows, EventNames
  <2>3. stopped'[t] = "none"
    BY <1>1 DEF IInv, Shape, TaskShape
  <2>4. \A i \in 1..Len(events[t]) : events[t][i] # stopped'[t]
    BY <2>1, <2>3 DEF EventNames
  <2>5. Yielded(t)' = Yielded(t) \cup {"completed"} /\ InOrder(t)'
    BY <1>2, <1>3, <2>2, <2>4, AppendedInOrder
  <2>6. pc'[t] = "done" /\ "working" \in Yielded(t)
    BY <1>1 DEF IInv, TypeOK, Shape, EventShape
  <2> QED
    BY <2>5, <2>6 DEF EventShape
<1>10. ReplyShape(t)'
  BY <1>1 DEF IInv, TypeOK, Shape, ReplyShape, IsIntent, Response
<1> QED
  BY <1>4, <1>5, <1>6, <1>7, <1>8, <1>9, <1>10 DEF IInv, Shape

\* A cancellation, of a task that goes on.
LEMMA CancelStep ==
    ASSUME IInv, NEW t \in Tasks, Cancel(t)
    PROVE  IInv'
<1>1. /\ pc[t] # "idle"
      /\ events' = [events EXCEPT ![t] = Append(@, "canceled")]
      /\ UNCHANGED <<tool, status, runs, worked, stage, wanted, calling, asked, chain, taken,
                     pc, envelope, reply, stopped, everRan>>
  BY DEF Cancel, relay, loopVars, node
<1>2. events[t] \in Seq(EventNames) /\ "canceled" \in EventNames
  BY DEF IInv, Types, EventNames
<1>3. events'[t] = Append(events[t], "canceled")
  BY <1>1 DEF IInv, Types
<1>4. TypeOK'
  BY <1>1 DEF IInv, TypeOK, LoopTypeOK
<1>5. Types'
  BY <1>1, <1>2, OneMoreEvent DEF IInv, Types
<1>6. \A u \in Tasks \ {t} : Shape(u)'
  BY <1>1, OthersKeep DEF IInv, TypeOK, Types, Others, Still, NodeAdvances
<1>7. LoopShape(t)' /\ RelayShape(t)' /\ TaskShape(t)'
  BY <1>1 DEF IInv, Shape, LoopShape, RelayShape, TaskShape
<1>8. EventShape(t)'
  <2>1. Yielded(t)' = Yielded(t) \cup {"canceled"} /\ InOrder(t)'
    BY <1>1, <1>2, <1>3, AppendedInOrder
  <2> QED
    BY <1>1, <2>1 DEF IInv, Shape, EventShape
<1>9. ReplyShape(t)'
  BY <1>1 DEF IInv, Shape, ReplyShape, IsIntent, Response
<1> QED
  BY <1>4, <1>5, <1>6, <1>7, <1>8, <1>9 DEF IInv, Shape

-----------------------------------------------------------------------------
(* The replies *)

\* What a reply may claim.
Claims(t, r) ==
    /\ r = Response(TRUE) /\ envelope[t].tool \in Proxied
          => envelope[t].tool \in everRan[t] /\ worked[t]
    /\ r.ok /\ envelope[t].tool = "broadcast_evm_tx" => envelope[t].tx \in taken
    /\ r.says \in {"success", "failed"} =>
          envelope[t].tx \in Txs /\ r.says = chain[envelope[t].tx]
    /\ r.form = "text" => status[t] = "idle" /\ everRan[t] = {}

\* An operation's answer, an error's included.
LEMMA ReplyStep ==
    ASSUME IInv, NEW t \in Tasks, NEW r \in Replies, Reply(t, r), Claims(t, r),
           pc[t] \in {"handling", "taken", "calling"},
           UNCHANGED <<relay, loopVars, node, envelope, events, stopped, everRan>>
    PROVE  IInv'
<1>1. /\ reply' = [reply EXCEPT ![t] = r] /\ pc' = [pc EXCEPT ![t] = "replied"]
      /\ UNCHANGED <<tool, status, runs, worked, stage, wanted, calling, asked, chain, taken,
                     envelope, events, stopped, everRan>>
  BY DEF Reply, relay, loopVars, node
<1>2. TypeOK'
  BY <1>1 DEF IInv, TypeOK, LoopTypeOK
<1>3. Types'
  BY <1>1 DEF IInv, Types
<1>4. \A u \in Tasks \ {t} : Shape(u)'
  BY <1>1, OthersKeep DEF IInv, TypeOK, Types, Others, Still, NodeAdvances
<1>5. LoopShape(t)' /\ RelayShape(t)'
  BY <1>1 DEF IInv, Shape, LoopShape, RelayShape
<1>6. TaskShape(t)'
  BY <1>1 DEF IInv, TypeOK, Types, Shape, TaskShape
<1>7. EventShape(t)'
  <2>1. Yielded(t)' = Yielded(t) /\ InOrder(t)'
    BY <1>1 DEF IInv, Shape, EventShape, InOrder, Yielded, Follows
  <2> QED
    BY <1>1, <2>1 DEF IInv, TypeOK, Shape, EventShape
<1>8. ReplyShape(t)'
  <2>1. reply'[t] = r
    BY <1>1 DEF IInv, Types
  <2> QED
    BY <1>1, <2>1 DEF Claims, ReplyShape, Response
<1> QED
  BY <1>2, <1>3, <1>4, <1>5, <1>6, <1>7, <1>8 DEF IInv, Shape

\* An envelope that names no operation: nothing has run.
LEMMA RefuseStep ==
    ASSUME IInv, NEW t \in Tasks, Refuse(t)
    PROVE  IInv'
<1>1. Plain(FALSE) \in Replies /\ Plain(FALSE) # Response(TRUE) /\ ~Plain(FALSE).ok
      /\ Plain(FALSE).says = ""
  BY DEF Plain, Replies, Response
<1>2. status[t] = "idle" /\ everRan[t] = {}
  BY DEF Refuse, IInv, Shape, TaskShape
<1>3. Claims(t, Plain(FALSE))
  BY <1>1, <1>2 DEF Claims
<1> QED
  BY <1>1, <1>3, ReplyStep DEF Refuse

\* An error of an operation claims nothing.
LEMMA ErrorReply ==
    ASSUME NEW t
    PROVE  Response(FALSE) \in Replies /\ Claims(t, Response(FALSE))
<1>1. /\ Response(FALSE) \in Replies /\ Response(FALSE) # Response(TRUE)
      /\ ~Response(FALSE).ok /\ Response(FALSE).says = "" /\ Response(FALSE).form = "response"
  BY DEF Response, Replies
<1> QED
  BY <1>1 DEF Claims

\* A success claims that a proxied tool has run and a transaction is taken.
LEMMA OkReply ==
    ASSUME NEW t,
           envelope[t].tool \in Proxied => envelope[t].tool \in everRan[t] /\ worked[t],
           envelope[t].tool = "broadcast_evm_tx" => envelope[t].tx \in taken
    PROVE  Response(TRUE) \in Replies /\ Claims(t, Response(TRUE))
<1>1. /\ Response(TRUE) \in Replies
      /\ Response(TRUE).says = "" /\ Response(TRUE).form = "response"
  BY DEF Response, Replies
<1> QED
  BY <1>1 DEF Claims

LEMMA LocalReplyStep ==
    ASSUME IInv, NEW t \in Tasks,
           LocalRefuses(t) \/ ListTools(t) \/ BroadcastRefused(t) \/ ProxyRefuses(t)
    PROVE  IInv'
<1>1. CASE LocalRefuses(t)
  BY <1>1, ErrorReply, ReplyStep DEF LocalRefuses, Serves
<1>2. CASE ListTools(t)
  <2>1. envelope[t].tool = "list_tools" /\ envelope[t].tool \notin Proxied
    BY <1>2, ExecutorAssumption DEF ListTools, Serves, OwnTools
  <2> QED
    BY <1>2, <2>1, OkReply, ReplyStep DEF ListTools, Serves
<1>3. CASE BroadcastRefused(t)
  BY <1>3, ErrorReply, ReplyStep DEF BroadcastRefused, Serves
<1>4. CASE ProxyRefuses(t)
  BY <1>4, ErrorReply, ReplyStep DEF ProxyRefuses
<1> QED
  BY <1>1, <1>2, <1>3, <1>4

-----------------------------------------------------------------------------
(* The node *)

\* The node's answer comes after the node has the transaction.
LEMMA BroadcastTakenStep ==
    ASSUME IInv, NEW t \in Tasks, BroadcastTaken(t)
    PROVE  IInv'
<1> DEFINE x == envelope[t].tx
<1>1. /\ pc[t] = "handling" /\ ~IsIntent(envelope[t])
      /\ envelope[t].tool = "broadcast_evm_tx" /\ envelope[t].decodes
      /\ chain[x] = "unknown" /\ chain' = [chain EXCEPT ![x] = "pool"]
      /\ taken' = taken \cup {x}
      /\ pc' = [pc EXCEPT ![t] = "taken"]
      /\ UNCHANGED <<tool, status, runs, worked, stage, wanted, calling, asked,
                     envelope, events, reply, stopped, everRan>>
  BY DEF BroadcastTaken, Serves, Dispatches, relay, loopVars
<1>2. x \in Txs
  BY <1>1, EnvelopeAssumption DEF IInv, TypeOK, Shape, TaskShape
<1>3. TypeOK'
  BY <1>1, <1>2 DEF IInv, TypeOK, LoopTypeOK
<1>4. Types'
  BY <1>1 DEF IInv, Types
<1>5. \A u \in Tasks \ {t} : Shape(u)'
  <2>1. NodeAdvances
    BY <1>1 DEF IInv, TypeOK, NodeAdvances
  <2>2. Others(t)
    BY <1>1 DEF IInv, TypeOK, Others, Still
  <2> QED
    BY <2>1, <2>2, OthersKeep
<1>6. LoopShape(t)' /\ RelayShape(t)'
  BY <1>1 DEF IInv, Shape, LoopShape, RelayShape
<1>7. TaskShape(t)'
  BY <1>1 DEF IInv, TypeOK, Shape, TaskShape, IsIntent
<1>8. EventShape(t)'
  <2>1. Yielded(t)' = Yielded(t) /\ InOrder(t)'
    BY <1>1 DEF IInv, Shape, EventShape, InOrder, Yielded, Follows
  <2> QED
    BY <1>1, <2>1 DEF IInv, TypeOK, Shape, EventShape
<1>9. ReplyShape(t)'
  <2>1. reply'[t] = NoReply
    BY <1>1 DEF IInv, Shape, TaskShape
  <2> QED
    BY <2>1, NoReplyClaims DEF ReplyShape, IsIntent, Response
<1> QED
  BY <1>3, <1>4, <1>5, <1>6, <1>7, <1>8, <1>9 DEF IInv, Shape

LEMMA BroadcastReturnsStep ==
    ASSUME IInv, NEW t \in Tasks, BroadcastReturns(t)
    PROVE  IInv'
<1>1. /\ pc[t] = "taken" /\ envelope[t].tool = "broadcast_evm_tx" /\ envelope[t].tx \in taken
  BY DEF BroadcastReturns, IInv, Shape, TaskShape
<1>2. envelope[t].tool \notin Proxied
  BY <1>1, ExecutorAssumption DEF OwnTools
<1>3. PICK ok \in BOOLEAN : Reply(t, Response(ok))
  BY DEF BroadcastReturns
<1>4. Response(ok) \in Replies /\ Claims(t, Response(ok))
  BY <1>1, <1>2, ErrorReply, OkReply
<1> QED
  BY <1>1, <1>3, <1>4, ReplyStep DEF BroadcastReturns

LEMMA StatusReply ==
    ASSUME NEW x \in {"pending", "success", "failed"}
    PROVE  LET r == [Response(TRUE) EXCEPT !.says = x]
           IN  r \in Replies /\ r.form = "response" /\ r.says = x
<1>1. Response(TRUE) \in Replies /\ Response(TRUE).form = "response"
  BY DEF Response, Replies
<1>2. \A f \in Replies : /\ [f EXCEPT !.says = x] \in Replies
                         /\ [f EXCEPT !.says = x].form = f.form
                         /\ [f EXCEPT !.says = x].says = x
  BY DEF Replies
<1> QED
  BY <1>1, <1>2

\* What the node says of a transaction that has a receipt is final.
LEMMA StatusReturnsStep ==
    ASSUME IInv, NEW t \in Tasks, StatusReturns(t)
    PROVE  IInv'
<1> DEFINE r == [Response(TRUE) EXCEPT !.says = TxStatus(envelope[t].tx)]
<1>1. /\ pc[t] = "handling" /\ envelope[t].tool = "evm_tx_status" /\ envelope[t].decodes
      /\ UNCHANGED <<relay, loopVars, node, envelope, events, stopped, everRan>>
      /\ Reply(t, Response(FALSE)) \/ Reply(t, r)
  BY DEF StatusReturns, Serves
<1>2. CASE Reply(t, Response(FALSE))
  BY <1>1, <1>2, ErrorReply, ReplyStep
<1>3. CASE Reply(t, r)
  <2>1. envelope[t].tool \notin Proxied /\ envelope[t].tx \in Txs
    BY <1>1, ExecutorAssumption, EnvelopeAssumption
       DEF OwnTools, IInv, TypeOK, Shape, TaskShape
  <2>2. TxStatus(envelope[t].tx) \in {"pending", "success", "failed"}
    BY DEF TxStatus
  <2>3. r \in Replies /\ r.form = "response" /\ r.says = TxStatus(envelope[t].tx)
    BY <2>2, StatusReply
  <2> HIDE DEF r
  <2>4. Claims(t, r)
    BY <1>1, <2>1, <2>3 DEF Claims, TxStatus
  <2> QED
    BY <1>1, <1>3, <2>3, <2>4, ReplyStep
<1> QED
  BY <1>1, <1>2, <1>3

LEMMA NodeStepStep ==
    ASSUME IInv, NodeStep
    PROVE  IInv'
<1>1. PICK x \in Txs :
          /\ chain[x] = "pool"
          /\ \E outcome \in {"unknown", "success", "failed"} : chain' = [chain EXCEPT ![x] = outcome]
          /\ UNCHANGED <<tool, status, runs, worked, stage, wanted, calling, asked, pc, envelope,
                         events, reply, stopped, everRan, taken>>
  BY DEF NodeStep, Evict, Mine, relay, loopVars
<1>2. TypeOK'
  BY <1>1 DEF IInv, TypeOK, LoopTypeOK
<1>3. Types'
  BY <1>1 DEF IInv, Types
<1>4. NodeAdvances
  BY <1>1 DEF IInv, TypeOK, NodeAdvances
<1>5. \A u \in Tasks : Still(u)
  BY <1>1 DEF Still
<1>6. \A u \in Tasks : Shape(u)'
  BY <1>4, <1>5, StillKeeps
<1> QED
  BY <1>2, <1>3, <1>6 DEF IInv

-----------------------------------------------------------------------------
(* The private calls *)

LEMMA ProxyCallsStep ==
    ASSUME IInv, NEW t \in Tasks, ProxyCalls(t)
    PROVE  IInv'
<1> DEFINE n == envelope[t].tool
<1>1. /\ pc[t] = "handling" /\ ~IsIntent(envelope[t]) /\ n \in Proxied /\ n \in DOMAIN Skill
      /\ status[t] = "idle"
      /\ tool' = [tool EXCEPT ![t] = n] /\ status' = [status EXCEPT ![t] = "open"]
      /\ pc' = [pc EXCEPT ![t] = "calling"]
      /\ UNCHANGED <<runs, worked, stage, wanted, calling, asked, chain, taken,
                     envelope, events, reply, stopped, everRan>>
  BY DEF ProxyCalls, Dispatches, Relay!Ask, loopVars, node
<1>2. TypeOK'
  BY <1>1 DEF IInv, TypeOK, LoopTypeOK, Relay!AbsStatus
<1>3. Types'
  BY <1>1 DEF IInv, Types
<1>4. \A u \in Tasks \ {t} : Shape(u)'
  BY <1>1, OthersKeep DEF IInv, TypeOK, Types, Others, Still, NodeAdvances
<1>5. LoopShape(t)' /\ RelayShape(t)'
  BY <1>1 DEF IInv, TypeOK, Types, Shape, LoopShape, RelayShape, IsIntent
<1>6. TaskShape(t)'
  BY <1>1 DEF IInv, TypeOK, Shape, TaskShape, IsIntent
<1>7. EventShape(t)'
  <2>1. Yielded(t)' = Yielded(t) /\ InOrder(t)'
    BY <1>1 DEF IInv, Shape, EventShape, InOrder, Yielded, Follows
  <2> QED
    BY <1>1, <2>1 DEF IInv, TypeOK, Shape, EventShape
<1>8. ReplyShape(t)'
  <2>1. reply'[t] = NoReply
    BY <1>1 DEF IInv, Shape, TaskShape
  <2> QED
    BY <2>1, NoReplyClaims DEF ReplyShape, IsIntent, Response
<1> QED
  BY <1>2, <1>3, <1>4, <1>5, <1>6, <1>7, <1>8 DEF IInv, Shape

\* The answer of the service is that it ran the tool, and that it worked.
LEMMA ProxyReturnsStep ==
    ASSUME IInv, NEW t \in Tasks, ProxyReturns(t)
    PROVE  IInv'
<1>1. /\ pc[t] = "calling" /\ ~IsIntent(envelope[t]) /\ envelope[t].tool \in Proxied
      /\ status[t] # "idle"
  BY DEF ProxyReturns, IInv, Shape, TaskShape
<1>2. envelope[t].tool # "broadcast_evm_tx"
  BY <1>1, ExecutorAssumption DEF OwnTools
<1>3. status[t] = "answered" => envelope[t].tool \in everRan[t] /\ worked[t]
  BY <1>1 DEF IInv, Shape, RelayShape
<1>4. Reply(t, Response(Succeeds(t)))
  BY DEF ProxyReturns
<1>5. CASE Succeeds(t)
  <2>1. Succeeds(t) = TRUE /\ envelope[t].tool \in everRan[t] /\ worked[t]
    BY <1>3, <1>5 DEF Succeeds
  <2> QED
    BY <1>1, <1>2, <1>4, <2>1, OkReply, ReplyStep DEF ProxyReturns
<1>6. CASE ~Succeeds(t)
  <2>1. Succeeds(t) = FALSE
    BY <1>6 DEF Succeeds
  <2> QED
    BY <1>1, <1>4, <2>1, ErrorReply, ReplyStep DEF ProxyReturns
<1> QED
  BY <1>5, <1>6

\* The service runs what it was asked for, perhaps after the call has ended.
LEMMA ServiceRunsStep ==
    ASSUME IInv, NEW t \in Tasks, ServiceRuns(t)
    PROVE  IInv'
<1>1. PICK works \in BOOLEAN :
      /\ tool[t] \in Catalog /\ status[t] \in {"open", "answered", "failed"}
      /\ runs' = [runs EXCEPT ![t] = @ + 1]
      /\ worked' = [worked EXCEPT ![t] = @ \/ works]
      /\ everRan' = [everRan EXCEPT ![t] = @ \cup {tool[t]}]
      /\ UNCHANGED <<tool, status, stage, wanted, calling, asked, chain, taken, pc,
                     envelope, events, reply, stopped>>
  BY DEF ServiceRuns, Relay!Run, loopVars, node
<1>2. Types'
  BY <1>1 DEF IInv, Types
<1>3. TypeOK'
  BY <1>1, <1>2 DEF IInv, TypeOK, LoopTypeOK, Types
<1>4. \A u \in Tasks \ {t} : Shape(u)'
  BY <1>1, OthersKeep DEF IInv, TypeOK, Types, Others, Still, NodeAdvances
<1>5. LoopShape(t)' /\ RelayShape(t)'
  BY <1>1 DEF IInv, TypeOK, Types, Shape, LoopShape, RelayShape, IsIntent
<1>6. pc[t] \notin {"idle", "received", "submitted", "handling", "taken"} /\ stopped[t] = "none"
  BY <1>1 DEF IInv, Shape, TaskShape
<1>7. TaskShape(t)'
  BY <1>1, <1>6 DEF IInv, TypeOK, Types, Shape, TaskShape, RelayShape, IsIntent
<1>8. EventShape(t)'
  <2>1. Yielded(t)' = Yielded(t) /\ InOrder(t)'
    BY <1>1 DEF IInv, Shape, EventShape, InOrder, Yielded, Follows
  <2> QED
    BY <1>1, <2>1 DEF IInv, TypeOK, Shape, EventShape
<1>9. ReplyShape(t)'
  <2>1. /\ status[t] # "idle" /\ everRan[t] \subseteq everRan'[t]
        /\ worked[t] => worked'[t]
    BY <1>1 DEF IInv, TypeOK, Types
  <2> QED
    BY <1>1, <2>1 DEF IInv, Shape, ReplyShape, IsIntent, Response
<1> QED
  BY <1>2, <1>3, <1>4, <1>5, <1>7, <1>8, <1>9 DEF IInv, Shape

LEMMA CallEndsStep ==
    ASSUME IInv, NEW t \in Tasks, CallEnds(t)
    PROVE  IInv'
<1>1. PICK end \in {"refused", "answered", "failed"} :
          /\ status[t] = "open" /\ (end = "answered" => worked[t])
          /\ status' = [status EXCEPT ![t] = end]
          /\ UNCHANGED <<tool, runs, worked, stage, wanted, calling, asked, chain, taken, pc,
                         envelope, events, reply, stopped, everRan>>
  BY DEF CallEnds, Relay!Refuse, Relay!Answered, Relay!Fail, loopVars, node
<1>2. TypeOK'
  BY <1>1 DEF IInv, TypeOK, LoopTypeOK, Relay!AbsStatus
<1>3. Types'
  BY <1>1 DEF IInv, Types
<1>4. \A u \in Tasks \ {t} : Shape(u)'
  BY <1>1, OthersKeep DEF IInv, TypeOK, Types, Others, Still, NodeAdvances
<1>5. LoopShape(t)' /\ RelayShape(t)'
  BY <1>1 DEF IInv, TypeOK, Types, Shape, LoopShape, RelayShape, IsIntent
<1>6. TaskShape(t)'
  BY <1>1 DEF IInv, TypeOK, Shape, TaskShape, IsIntent
<1>7. EventShape(t)'
  <2>1. Yielded(t)' = Yielded(t) /\ InOrder(t)'
    BY <1>1 DEF IInv, Shape, EventShape, InOrder, Yielded, Follows
  <2> QED
    BY <1>1, <2>1 DEF IInv, TypeOK, Shape, EventShape
<1>8. ReplyShape(t)'
  BY <1>1 DEF IInv, TypeOK, Shape, ReplyShape, IsIntent, Response
<1> QED
  BY <1>2, <1>3, <1>4, <1>5, <1>6, <1>7, <1>8 DEF IInv, Shape

-----------------------------------------------------------------------------
(* The runner *)

\* What the loop's own steps do to a running task.
RunnerFrame(t) ==
    /\ pc[t] \in {"handling", "running"} /\ IsIntent(envelope[t])
    /\ pc' = [pc EXCEPT ![t] = "running"]
    /\ UNCHANGED <<chain, taken, envelope, events, reply, stopped, everRan>>

\* A running task keeps its shape through them.
LEMMA RunnerKeeps ==
    ASSUME IInv, NEW t \in Tasks, RunnerFrame(t),
           status'[t] # "idle" => tool'[t] \in ReadOnly,
           runs'[t] > 0 => runs[t] > 0 /\ tool'[t] = tool[t],
           status'[t] = "idle" => runs'[t] = 0 /\ tool'[t] = NoTool,
           status'[t] = "answered" => worked'[t],
           worked'[t] => runs'[t] > 0
    PROVE  RelayShape(t)' /\ TaskShape(t)' /\ EventShape(t)' /\ ReplyShape(t)'
<1> USE DEF RunnerFrame
<1>1. RelayShape(t)'
  BY DEF IInv, Shape, RelayShape, IsIntent
<1>2. TaskShape(t)'
  BY DEF IInv, TypeOK, Shape, TaskShape, IsIntent
<1>3. EventShape(t)'
  <2>1. Yielded(t)' = Yielded(t) /\ InOrder(t)'
    BY DEF IInv, Shape, EventShape, InOrder, Yielded, Follows
  <2> QED
    BY <2>1 DEF IInv, TypeOK, Shape, EventShape
<1>4. ReplyShape(t)'
  BY DEF ReplyShape, IsIntent
<1> QED
  BY <1>1, <1>2, <1>3, <1>4

LEMMA RunnerBeginsStep ==
    ASSUME IInv, NEW t \in Tasks, RunnerBegins(t)
    PROVE  IInv'
<1>1. /\ pc[t] = "handling" /\ RunnerFrame(t) /\ UNCHANGED <<tool, status, runs, worked>>
      /\ \/ wanted' = wanted /\ stage' = [stage EXCEPT ![t] = "thinking"]
         \/ wanted' = [wanted EXCEPT ![t] = <<>>] /\ stage' = [stage EXCEPT ![t] = "error"]
      /\ UNCHANGED <<calling, asked>>
  BY DEF RunnerBegins, RunnerFrame, Enter, Break, relay, node
<1>2. stage[t] = "off" /\ asked[t] = 0 /\ calling[t] = NoCall
  BY <1>1 DEF IInv, TypeOK, Shape, LoopShape
<1>3. /\ wanted' \in [Tasks -> Seq(STRING)]
      /\ \A u \in Tasks : wanted'[u] \in {wanted[u], <<>>}
  <2>1. <<>> \in Seq(STRING)
    OBVIOUS
  <2> QED
    BY <1>1, <2>1 DEF IInv, Types
<1>4. TypeOK'
  <2>1. LoopTypeOK'
    <3>1. \A u \in Tasks : wanted'[u] # <<>> =>
              \E w \in Asks : \E k \in 1..Len(w) : wanted'[u] = SubSeq(w, k, Len(w))
      BY <1>3 DEF IInv, TypeOK, LoopTypeOK
    <3>2. stage' \in [Tasks -> Stages]
      BY <1>1 DEF IInv, TypeOK, LoopTypeOK, Stages
    <3> QED
      BY <1>1, <3>1, <3>2 DEF IInv, TypeOK, LoopTypeOK
  <2> QED
    BY <1>1, <2>1 DEF IInv, TypeOK, LoopTypeOK, RunnerFrame
<1>5. Types'
  BY <1>1, <1>3 DEF IInv, Types, RunnerFrame
<1>6. \A u \in Tasks \ {t} : Shape(u)'
  BY <1>1, OthersKeep DEF IInv, TypeOK, LoopTypeOK, Types, Others, Still, NodeAdvances, RunnerFrame
<1>7. LoopShape(t)'
  BY <1>1, <1>2, LoopAssumption DEF IInv, TypeOK, LoopTypeOK, LoopShape
<1>8. RelayShape(t)' /\ TaskShape(t)' /\ EventShape(t)' /\ ReplyShape(t)'
  BY <1>1, RunnerKeeps DEF IInv, Shape, TaskShape, RelayShape
<1> QED
  BY <1>4, <1>5, <1>6, <1>7, <1>8 DEF IInv, Shape

\* The model answers, or does not.
LEMMA RunnerHearsStep ==
    ASSUME IInv, NEW t \in Tasks, RunnerHears(t) \/ RunnerFails(t)
    PROVE  IInv'
<1>1. /\ pc[t] = "running" /\ RunnerFrame(t) /\ UNCHANGED <<tool, status, runs, worked, calling>>
      /\ (\E w \in Asks : AskFor(t, w)) \/ Tell(t) \/ Break(t)
  BY DEF RunnerHears, RunnerFails, RunnerFrame, AskFor, Tell, Break, relay, node,
         IInv, TypeOK, Shape, TaskShape
<1>2. LoopTypeOK' /\ Types' /\ LoopShape(t)'
  <2>1. CASE \E w \in Asks : AskFor(t, w)
    <3>1. PICK w \in Asks : AskFor(t, w)
      BY <2>1
    <3>2. w \in Seq(STRING) /\ w # <<>> /\ w = SubSeq(w, 1, Len(w)) /\ 1 \in 1..Len(w)
      BY LoopAssumption
    <3>3. asked[t] + 1 \in 0..Rounds
      BY <3>1, LoopAssumption DEF AskFor, IInv, TypeOK, LoopTypeOK, Shape, LoopShape
    <3>4. LoopTypeOK'
      <4>1. wanted'[t] = w /\ \A u \in Tasks \ {t} : wanted'[u] = wanted[u]
        BY <3>1 DEF AskFor, IInv, Types
      <4>2. \A u \in Tasks : wanted'[u] # <<>> =>
                \E v \in Asks : \E k \in 1..Len(v) : wanted'[u] = SubSeq(v, k, Len(v))
        BY <3>2, <4>1 DEF IInv, TypeOK, LoopTypeOK
      <4>3. /\ stage' \in [Tasks -> Stages] /\ calling' \in [Tasks -> ReadOnly \cup {NoCall}]
            /\ asked' \in [Tasks -> 0..Rounds]
        BY <1>1, <3>1, <3>3 DEF AskFor, IInv, TypeOK, LoopTypeOK, Stages
      <4> QED
        BY <4>2, <4>3 DEF LoopTypeOK
    <3>5. Types'
      BY <1>1, <3>1, <3>2 DEF AskFor, IInv, Types, RunnerFrame
    <3>6. LoopShape(t)'
      BY <1>1, <3>1, <3>2 DEF AskFor, IInv, TypeOK, LoopTypeOK, Types, LoopShape
    <3> QED
      BY <3>4, <3>5, <3>6
  <2>2. CASE Tell(t)
    <3>1. LoopTypeOK' /\ Types'
      BY <1>1, <2>2 DEF Tell, IInv, TypeOK, Types, LoopTypeOK, Stages, RunnerFrame
    <3>2. LoopShape(t)'
      BY <1>1, <2>2 DEF Tell, IInv, TypeOK, LoopTypeOK, Shape, LoopShape
    <3> QED
      BY <3>1, <3>2
  <2>3. CASE Break(t)
    <3>1. LoopTypeOK' /\ Types'
      BY <1>1, <2>3 DEF Break, IInv, TypeOK, Types, LoopTypeOK, Stages, RunnerFrame
    <3>2. LoopShape(t)'
      BY <1>1, <2>3 DEF Break, IInv, TypeOK, LoopTypeOK, LoopShape
    <3> QED
      BY <3>1, <3>2
  <2> QED
    BY <1>1, <2>1, <2>2, <2>3
<1>3. TypeOK'
  BY <1>1, <1>2 DEF IInv, TypeOK, LoopTypeOK, RunnerFrame, AskFor, Tell, Break
<1>4. \A u \in Tasks \ {t} : Shape(u)'
  <2>1. Others(t)
    BY <1>1 DEF IInv, TypeOK, LoopTypeOK, Types, Others, Still, RunnerFrame, AskFor, Tell, Break
  <2> QED
    BY <1>1, <2>1, OthersKeep DEF NodeAdvances, RunnerFrame
<1>5. RelayShape(t)' /\ TaskShape(t)' /\ EventShape(t)' /\ ReplyShape(t)'
  BY <1>1, RunnerKeeps DEF IInv, Shape, RelayShape, RunnerFrame
<1> QED
  BY <1>2, <1>3, <1>4, <1>5 DEF IInv, Shape

\* The next call: of a tool that reads, whatever the model named.
LEMMA RunnerCallsStep ==
    ASSUME IInv, NEW t \in Tasks, RunnerCalls(t)
    PROVE  IInv'
<1> DEFINE n == Head(wanted[t])
<1>1. /\ pc[t] = "running" /\ RunnerFrame(t)
      /\ n \in ReadOnly /\ stage[t] = "tools" /\ status[t] = "idle"
      /\ calling' = [calling EXCEPT ![t] = n]
      /\ tool' = [tool EXCEPT ![t] = n] /\ status' = [status EXCEPT ![t] = "open"]
      /\ UNCHANGED <<runs, worked, stage, wanted, asked>>
  BY DEF RunnerCalls, Make, MayMake, Relay!Ask, RunnerFrame, node, IInv, TypeOK, Shape, TaskShape
<1> HIDE DEF n
<1>2. LoopTypeOK'
  BY <1>1 DEF IInv, TypeOK, LoopTypeOK
<1>3. TypeOK'
  BY <1>1, <1>2 DEF IInv, TypeOK, Relay!AbsStatus, RunnerFrame
<1>4. Types'
  BY <1>1 DEF IInv, Types, RunnerFrame
<1>5. \A u \in Tasks \ {t} : Shape(u)'
  BY <1>1, OthersKeep DEF IInv, TypeOK, LoopTypeOK, Types, Others, Still, NodeAdvances, RunnerFrame
<1>6. LoopShape(t)'
  BY <1>1 DEF IInv, TypeOK, LoopTypeOK, Shape, LoopShape
<1>7. /\ tool'[t] = n /\ status'[t] = "open" /\ runs'[t] = 0 /\ ~worked'[t]
  BY <1>1 DEF IInv, TypeOK, Shape, RelayShape
<1>8. RelayShape(t)' /\ TaskShape(t)' /\ EventShape(t)' /\ ReplyShape(t)'
  BY <1>1, <1>7, RunnerKeeps
<1> QED
  BY <1>3, <1>4, <1>5, <1>6, <1>8 DEF IInv, Shape

\* A result is heard, and the model is asked again while there are rounds.
LEMMA RunnerReadsStep ==
    ASSUME IInv, NEW t \in Tasks, RunnerReads(t)
    PROVE  IInv'
<1> DEFINE next == IF Len(wanted[t]) > 1 THEN "tools"
                   ELSE IF Thinks(t) THEN "thinking" ELSE "error"
<1>1. /\ pc[t] = "running" /\ RunnerFrame(t) /\ calling[t] # NoCall
      /\ calling' = [calling EXCEPT ![t] = NoCall]
      /\ wanted' = [wanted EXCEPT ![t] = Tail(@)]
      /\ stage' = [stage EXCEPT ![t] = next]
      /\ tool' = [tool EXCEPT ![t] = NoTool] /\ status' = [status EXCEPT ![t] = "idle"]
      /\ runs' = [runs EXCEPT ![t] = 0] /\ worked' = [worked EXCEPT ![t] = FALSE]
      /\ UNCHANGED asked
  BY DEF RunnerReads, Hear, Relay!Leave, RunnerFrame, node, IInv, TypeOK, Shape, TaskShape
<1>2. wanted[t] \in Seq(STRING) /\ wanted[t] # <<>>
  BY <1>1 DEF IInv, Types, Shape, LoopShape
<1>3. /\ Tail(wanted[t]) \in Seq(STRING)
      /\ Len(wanted[t]) > 1 => Tail(wanted[t]) # <<>>
  <2>1. Tail(wanted[t]) \in Seq(STRING) /\ Len(Tail(wanted[t])) = Len(wanted[t]) - 1
    BY <1>2, HeadTailProperties
  <2>2. Len(<<>>) = 0 /\ Len(wanted[t]) \in Nat
    BY <1>2
  <2> QED
    BY <2>1, <2>2
<1>4. next \in Stages /\ next # "off" /\ (next = "thinking" => asked[t] < Rounds)
      /\ (next = "tools" => Len(wanted[t]) > 1)
  BY DEF Stages, Thinks
<1> HIDE DEF next
<1>5. LoopTypeOK'
  <2>1. wanted'[t] # <<>> =>
            \E w \in Asks : \E k \in 1..Len(w) : wanted'[t] = SubSeq(w, k, Len(w))
    <3> SUFFICES ASSUME Tail(wanted[t]) # <<>>
                 PROVE  \E w \in Asks : \E k \in 1..Len(w) : Tail(wanted[t]) = SubSeq(w, k, Len(w))
      BY <1>1 DEF IInv, Types
    <3>1. PICK w \in Asks : \E k \in 1..Len(w) : wanted[t] = SubSeq(w, k, Len(w))
      BY <1>2 DEF IInv, TypeOK, LoopTypeOK
    <3>2. PICK k \in 1..Len(w) : wanted[t] = SubSeq(w, k, Len(w))
      BY <3>1
    <3> QED
      BY <3>2, SuffixTail, LoopAssumption
  <2>2. \A u \in Tasks \ {t} : wanted'[u] = wanted[u]
    BY <1>1 DEF IInv, Types
  <2>3. /\ stage' \in [Tasks -> Stages] /\ calling' \in [Tasks -> ReadOnly \cup {NoCall}]
        /\ asked' \in [Tasks -> 0..Rounds]
    BY <1>1, <1>4 DEF IInv, TypeOK, LoopTypeOK
  <2> QED
    BY <2>1, <2>2, <2>3 DEF IInv, TypeOK, LoopTypeOK
<1>6. TypeOK'
  BY <1>1, <1>5 DEF IInv, TypeOK, LoopTypeOK, Relay!AbsStatus, RunnerFrame
<1>7. Types'
  BY <1>1, <1>3 DEF IInv, Types, RunnerFrame
<1>8. \A u \in Tasks \ {t} : Shape(u)'
  <2>1. Others(t)
    BY <1>1 DEF IInv, TypeOK, LoopTypeOK, Types, Others, Still, RunnerFrame
  <2> QED
    BY <1>1, <2>1, OthersKeep DEF NodeAdvances, RunnerFrame
<1>9. LoopShape(t)'
  BY <1>1, <1>3, <1>4 DEF IInv, TypeOK, Types, LoopTypeOK, LoopShape
<1>10. status'[t] = "idle" /\ runs'[t] = 0 /\ ~worked'[t] /\ tool'[t] = NoTool
  BY <1>1 DEF IInv, TypeOK, Types
<1>11. RelayShape(t)' /\ TaskShape(t)' /\ EventShape(t)' /\ ReplyShape(t)'
  BY <1>1, <1>10, RunnerKeeps
<1> QED
  BY <1>6, <1>7, <1>8, <1>9, <1>11 DEF IInv, Shape

\* The runner's text or error is the reply.
LEMMA RunnerReturnsStep ==
    ASSUME IInv, NEW t \in Tasks, RunnerReturns(t)
    PROVE  IInv'
<1>1. PICK ok \in BOOLEAN : Reply(t, Plain(ok))
  BY DEF RunnerReturns
<1>2. /\ pc[t] = "running" /\ stage[t] \in {"text", "error"} /\ IsIntent(envelope[t])
      /\ reply' = [reply EXCEPT ![t] = Plain(ok)] /\ pc' = [pc EXCEPT ![t] = "replied"]
      /\ stage' = [stage EXCEPT ![t] = "off"] /\ wanted' = [wanted EXCEPT ![t] = <<>>]
      /\ asked' = [asked EXCEPT ![t] = 0]
      /\ UNCHANGED <<tool, status, runs, worked, calling, chain, taken, envelope, events, stopped, everRan>>
  BY <1>1 DEF RunnerReturns, Forget, Reply, relay, node, IInv, Shape, TaskShape
<1>3. LoopTypeOK'
  BY <1>2, LoopAssumption DEF IInv, TypeOK, Types, LoopTypeOK, Stages
<1>4. TypeOK'
  BY <1>2, <1>3 DEF IInv, TypeOK, LoopTypeOK
<1>5. Types'
  <2>1. Plain(ok) \in Replies
    BY DEF Plain, Replies
  <2> QED
    BY <1>2, <2>1 DEF IInv, Types
<1>6. \A u \in Tasks \ {t} : Shape(u)'
  BY <1>2, OthersKeep DEF IInv, TypeOK, LoopTypeOK, Types, Others, Still, NodeAdvances
<1>7. LoopShape(t)' /\ RelayShape(t)'
  BY <1>2 DEF IInv, TypeOK, LoopTypeOK, Shape, LoopShape, RelayShape, IsIntent
<1>8. TaskShape(t)'
  BY <1>2 DEF IInv, TypeOK, Shape, TaskShape, IsIntent
<1>9. EventShape(t)'
  <2>1. Yielded(t)' = Yielded(t) /\ InOrder(t)'
    BY <1>2 DEF IInv, Shape, EventShape, InOrder, Yielded, Follows
  <2> QED
    BY <1>2, <2>1 DEF IInv, TypeOK, Shape, EventShape
<1>10. ReplyShape(t)'
  BY <1>2 DEF ReplyShape, IsIntent
<1> QED
  BY <1>4, <1>5, <1>6, <1>7, <1>8, <1>9, <1>10 DEF IInv, Shape

\* Another request in the slot begins with nothing.
LEMMA RecycleStep ==
    ASSUME IInv, NEW t \in Tasks, Recycle(t)
    PROVE  IInv'
<1>1. /\ tool' = [tool EXCEPT ![t] = NoTool] /\ status' = [status EXCEPT ![t] = "idle"]
      /\ runs' = [runs EXCEPT ![t] = 0] /\ worked' = [worked EXCEPT ![t] = FALSE]
      /\ pc' = [pc EXCEPT ![t] = "idle"]
      /\ envelope' = [envelope EXCEPT ![t] = NoEnvelope]
      /\ events' = [events EXCEPT ![t] = <<>>] /\ reply' = [reply EXCEPT ![t] = NoReply]
      /\ stopped' = [stopped EXCEPT ![t] = "none"] /\ everRan' = [everRan EXCEPT ![t] = {}]
      /\ pc[t] = "done"
      /\ UNCHANGED <<stage, wanted, calling, asked, chain, taken>>
  BY DEF Recycle, loopVars, node
<1>2. LoopTypeOK'
  BY <1>1 DEF IInv, TypeOK, LoopTypeOK
<1>3. TypeOK'
  BY <1>1, <1>2 DEF IInv, TypeOK, Relay!AbsStatus
<1>4. Types'
  <2>1. <<>> \in Seq(EventNames)
    OBVIOUS
  <2> QED
    BY <1>1, <2>1, NoReplyClaims DEF IInv, Types
<1>5. \A u \in Tasks \ {t} : Shape(u)'
  BY <1>1, OthersKeep DEF IInv, TypeOK, Types, Others, Still, NodeAdvances
<1>6. /\ tool'[t] = NoTool /\ status'[t] = "idle" /\ runs'[t] = 0 /\ ~worked'[t]
      /\ pc'[t] = "idle"
      /\ envelope'[t] = NoEnvelope /\ events'[t] = <<>> /\ reply'[t] = NoReply
      /\ stopped'[t] = "none" /\ everRan'[t] = {}
  BY <1>1 DEF IInv, TypeOK, Types
<1>7. LoopShape(t)' /\ RelayShape(t)' /\ TaskShape(t)' /\ ReplyShape(t)'
  <2>1. LoopShape(t)'
    BY <1>1 DEF IInv, Shape, LoopShape
  <2>2. RelayShape(t)' /\ ReplyShape(t)'
    BY <1>6 DEF RelayShape, ReplyShape
  <2>3. TaskShape(t)'
    BY <1>6 DEF TaskShape
  <2> QED
    BY <2>1, <2>2, <2>3
<1>8. EventShape(t)'
  <2>1. Yielded(t)' = {}
    BY <1>6 DEF Yielded
  <2> QED
    BY <1>6, <2>1 DEF EventShape, InOrder
<1> QED
  BY <1>3, <1>4, <1>5, <1>7, <1>8 DEF IInv, Shape

-----------------------------------------------------------------------------
(* The specification *)

LEMMA ExecuteStep ==
    ASSUME IInv, NEW t \in Tasks, OwnStep(t) \/ NodeAnswers(t)
    PROVE  IInv'
<1>1. CASE YieldSubmitted(t)
  BY <1>1, YieldStep DEF YieldSubmitted
<1>2. CASE YieldWorking(t)
  BY <1>2, YieldStep DEF YieldWorking
<1>3. CASE YieldCompleted(t)
  BY <1>3, YieldCompletedStep
<1>4. CASE Refuse(t)
  BY <1>4, RefuseStep
<1>5. CASE LocalRefuses(t) \/ ListTools(t) \/ BroadcastRefused(t) \/ ProxyRefuses(t)
  BY <1>5, LocalReplyStep
<1>6. CASE BroadcastTaken(t)
  BY <1>6, BroadcastTakenStep
<1>7. CASE BroadcastReturns(t)
  BY <1>7, BroadcastReturnsStep
<1>8. CASE StatusReturns(t)
  BY <1>8, StatusReturnsStep
<1>9. CASE ProxyCalls(t)
  BY <1>9, ProxyCallsStep
<1>10. CASE ProxyReturns(t)
  BY <1>10, ProxyReturnsStep
<1>11. CASE RunnerBegins(t)
  BY <1>11, RunnerBeginsStep
<1>12. CASE RunnerHears(t) \/ RunnerFails(t)
  BY <1>12, RunnerHearsStep
<1>13. CASE RunnerCalls(t)
  BY <1>13, RunnerCallsStep
<1>14. CASE RunnerReads(t)
  BY <1>14, RunnerReadsStep
<1>15. CASE RunnerReturns(t)
  BY <1>15, RunnerReturnsStep
<1> QED
  BY <1>1, <1>2, <1>3, <1>4, <1>5, <1>6, <1>7, <1>8, <1>9, <1>10, <1>11, <1>12, <1>13,
     <1>14, <1>15 DEF OwnStep, NodeAnswers

LEMMA UnchangedStep ==
    ASSUME IInv, UNCHANGED vars
    PROVE  IInv'
<1>1. UNCHANGED <<tool, status, runs, worked, stage, wanted, calling, asked, chain, taken, pc,
                  envelope, events, reply, stopped, everRan>>
  BY DEF vars, relay, loopVars, node
<1>2. TypeOK' /\ Types'
  BY <1>1 DEF IInv, TypeOK, LoopTypeOK, Types
<1>3. \A u \in Tasks : Still(u)
  BY <1>1 DEF Still
<1>4. NodeAdvances
  BY <1>1 DEF NodeAdvances
<1> QED
  BY <1>2, <1>3, <1>4, StillKeeps DEF IInv

LEMMA Invariant == Spec => []IInv
<1>1. IInv /\ [Next]_vars => IInv'
  <2> SUFFICES ASSUME IInv, [Next]_vars PROVE IInv'
    OBVIOUS
  <2>1. CASE NodeStep
    BY <2>1, NodeStepStep
  <2>2. ASSUME NEW t \in Tasks,
               \/ ReceiveNothing(t)
               \/ \E e \in Envelopes, stored \in BOOLEAN : Receive(t, e, stored)
               \/ OwnStep(t) \/ NodeAnswers(t)
               \/ Cancel(t) \/ Recycle(t)
               \/ ServiceRuns(t) \/ CallEnds(t)
        PROVE  IInv'
    <3>1. CASE \E e \in Envelopes, stored \in BOOLEAN : Receive(t, e, stored)
      BY <3>1, ReceiveStep
    <3>2. CASE OwnStep(t) \/ NodeAnswers(t)
      BY <3>2, ExecuteStep
    <3>3. CASE Cancel(t)
      BY <3>3, CancelStep
    <3>4. CASE Recycle(t)
      BY <3>4, RecycleStep
    <3>5. CASE ServiceRuns(t)
      BY <3>5, ServiceRunsStep
    <3>6. CASE CallEnds(t)
      BY <3>6, CallEndsStep
    <3>7. CASE ReceiveNothing(t)
      BY <3>7, ReceiveNothingStep
    <3> QED
      BY <2>2, <3>1, <3>2, <3>3, <3>4, <3>5, <3>6, <3>7
  <2>3. CASE UNCHANGED vars
    BY <2>3, UnchangedStep
  <2> QED
    BY <2>1, <2>2, <2>3 DEF Next
<1> QED
  BY <1>1, InitIInv, PTL DEF Spec

\* Type correctness: a natural-language task asks its model no more often
\* than the runner's bound (runner.go:36), and a task that has been answered
\* has no call left to hear of.
THEOREM TypeCorrect == Spec => []TypeOK
<1>1. IInv => TypeOK
  BY DEF IInv
<1> QED
  BY <1>1, Invariant, PTL

\* An ok Response to a proxied tool means the service ran it and it worked, one to a
\* broadcast that the node took the transaction; a status is the
\* transaction's own; a plain refusal has run nothing; and an envelope runs
\* no tool but its own (executor.go:59-95, adapter.go:32-49,
\* service.go:132-168).
THEOREM RepliesAreTruthful == Spec => []ReplyIsTruthful
<1>1. IInv => ReplyIsTruthful
  BY DEF IInv, Shape, TaskShape, ReplyShape, ReplyIsTruthful, IsIntent
<1> QED
  BY <1>1, Invariant, PTL

\* Nothing but tools that read is run for a natural-language task, whatever
\* the text, the model and the tool results are (runner.go:47-50).
THEOREM IntentsOnlyRead == Spec => []IntentNeverWrites
<1>1. IInv => IntentNeverWrites
  BY DEF IInv, Shape, TaskShape, IntentNeverWrites, IsIntent
<1> QED
  BY <1>1, Invariant, PTL

\* The consumer sees submitted, working and completed in this order, each at
\* most once and wherever a cancellation falls; one that stopped reading is
\* given nothing more and costs no call (executor.go:32-51).
THEOREM EventsOrdered == Spec => []EventsInOrder
<1>1. IInv => EventsInOrder
  BY DEF IInv, Shape, TaskShape, EventShape, InOrder, EventsInOrder
<1> QED
  BY <1>1, Invariant, PTL

\* Whatever the executor and the runner do, their use of the private client
\* is one McpRelay, which DefiMcp implements, has an answer for: one call at
\* a time for each task, asked with a name it publishes or lets the client
\* refuse, and left only when it has ended (adapter.go:46, runner.go:56).
THEOREM UsesRelay == Spec => Relay!AbsSpec
<1>1. Init => Relay!AbsInit
  BY DEF Init
<1>2. IInv /\ [Next]_vars => [Relay!AbsNext]_(Relay!absvars)
  <2> SUFFICES ASSUME IInv, [Next]_vars
               PROVE  Relay!AbsNext \/ UNCHANGED <<tool, status, runs, worked>>
    BY DEF Relay!absvars
  <2>1. ASSUME NEW t \in Tasks, ProxyCalls(t)
        PROVE  \E n \in DOMAIN Skill \cup ReadOnly : Relay!Ask(t, n)
    BY <2>1 DEF ProxyCalls, Dispatches
  <2>2. ASSUME NEW t \in Tasks, RunnerCalls(t)
        PROVE  \E n \in DOMAIN Skill \cup ReadOnly : Relay!Ask(t, n)
    BY <2>2 DEF RunnerCalls, Make, MayMake
  <2>3. ASSUME NEW t \in Tasks, Recycle(t)
        PROVE  Relay!Leave(t) \/ UNCHANGED <<tool, status, runs, worked>>
    <3>1. CASE status[t] = "idle"
      <4>1. runs[t] = 0 /\ tool[t] = NoTool /\ worked[t] = FALSE
        BY <3>1 DEF IInv, TypeOK, Types, Shape, RelayShape
      <4> QED
        BY <2>3, <3>1, <4>1 DEF Recycle, IInv, TypeOK, Types
    <3>2. CASE status[t] # "idle"
      BY <2>3, <3>2 DEF Recycle, Relay!Leave, Relay!AbsStatus, IInv, TypeOK
    <3> QED
      BY <3>1, <3>2
  <2>4. ASSUME NEW t \in Tasks, OwnStep(t) \/ NodeAnswers(t)
        PROVE  Relay!AbsNext \/ UNCHANGED <<tool, status, runs, worked>>
    <3>1. CASE ProxyCalls(t)
      BY <2>1, <3>1 DEF Relay!AbsNext
    <3>2. CASE RunnerCalls(t)
      BY <2>2, <3>2 DEF Relay!AbsNext
    <3>3. CASE RunnerReads(t)
      BY <3>3 DEF RunnerReads, Relay!AbsNext
    <3>4. CASE ~ProxyCalls(t) /\ ~RunnerCalls(t) /\ ~RunnerReads(t)
      BY <2>4, <3>4
         DEF OwnStep, NodeAnswers, YieldSubmitted, YieldWorking, YieldCompleted, Refuse, LocalRefuses,
             ListTools, BroadcastTaken, BroadcastRefused, BroadcastReturns, StatusReturns,
             ProxyRefuses, ProxyReturns, RunnerBegins, RunnerHears, RunnerFails, RunnerReturns,
             relay
    <3> QED
      BY <3>1, <3>2, <3>3, <3>4
  <2>5. ASSUME NEW t \in Tasks, ServiceRuns(t) \/ CallEnds(t)
        PROVE  Relay!AbsNext
    BY <2>5 DEF ServiceRuns, CallEnds, Relay!AbsNext
  <2>6. ASSUME NEW t \in Tasks,
               \/ Cancel(t) \/ ReceiveNothing(t)
               \/ \E e \in Envelopes, stored \in BOOLEAN : Receive(t, e, stored)
        PROVE  UNCHANGED <<tool, status, runs, worked>>
    BY <2>6 DEF Cancel, Receive, ReceiveNothing, relay
  <2>7. ASSUME NodeStep \/ UNCHANGED vars
        PROVE  UNCHANGED <<tool, status, runs, worked>>
    BY <2>7 DEF NodeStep, Evict, Mine, vars, relay
  <2> QED
    BY <2>3, <2>4, <2>5, <2>6, <2>7 DEF Next, Relay!AbsNext
<1> QED
  BY <1>1, <1>2, Invariant, PTL DEF Spec, Relay!AbsSpec

\* What the executor lets an intent do is IntentLoop, which Runner implements:
\* the model is asked, its tools are called one by one and only if they read,
\* and nothing else the executor does disturbs a loop that is under way
\* (executor.go:60-73, runner.go:36-61).
THEOREM UsesLoop == Spec => LoopSpec
<1>1. Init => LoopInit
  BY DEF Init
<1>2. [Next]_vars => [LoopNext]_loopVars
  <2> SUFFICES ASSUME [Next]_vars
               PROVE  LoopNext \/ UNCHANGED loopVars
    OBVIOUS
  <2>1. ASSUME NEW t \in Tasks, OwnStep(t) \/ NodeAnswers(t)
        PROVE  LoopNext \/ UNCHANGED loopVars
    <3>1. CASE RunnerBegins(t)
      BY <3>1 DEF RunnerBegins, LoopNext
    <3>2. CASE RunnerHears(t)
      BY <3>2 DEF RunnerHears, LoopNext
    <3>3. CASE RunnerFails(t)
      BY <3>3 DEF RunnerFails, LoopNext
    <3>4. CASE RunnerCalls(t)
      BY <3>4 DEF RunnerCalls, LoopNext
    <3>5. CASE RunnerReads(t)
      BY <3>5 DEF RunnerReads, LoopNext
    <3>6. CASE RunnerReturns(t)
      BY <3>6 DEF RunnerReturns, LoopNext
    <3>7. CASE ~(\/ RunnerBegins(t) \/ RunnerHears(t) \/ RunnerFails(t)
                 \/ RunnerCalls(t) \/ RunnerReads(t) \/ RunnerReturns(t))
      BY <2>1, <3>7
         DEF OwnStep, NodeAnswers, YieldSubmitted, YieldWorking, YieldCompleted, Refuse, LocalRefuses,
             ListTools, BroadcastTaken, BroadcastRefused, BroadcastReturns, StatusReturns,
             ProxyRefuses, ProxyCalls, ProxyReturns
    <3> QED
      BY <3>1, <3>2, <3>3, <3>4, <3>5, <3>6, <3>7
  <2>2. ASSUME NEW t \in Tasks,
               \/ Cancel(t) \/ Recycle(t) \/ ServiceRuns(t) \/ CallEnds(t) \/ ReceiveNothing(t)
               \/ \E e \in Envelopes, stored \in BOOLEAN : Receive(t, e, stored)
        PROVE  UNCHANGED loopVars
    BY <2>2 DEF Cancel, Recycle, ServiceRuns, CallEnds, Receive, ReceiveNothing
  <2>3. ASSUME NodeStep \/ UNCHANGED vars
        PROVE  UNCHANGED loopVars
    BY <2>3 DEF NodeStep, Evict, Mine, vars
  <2> QED
    BY <2>1, <2>2, <2>3 DEF Next
<1> QED
  BY <1>1, <1>2, PTL DEF Spec, LoopSpec

=============================================================================
