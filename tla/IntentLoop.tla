----------------------------- MODULE IntentLoop -----------------------------
(***************************************************************************)
(* What a natural-language task does to the rest of the agent, said        *)
(* without providers, streams, attempts or transcripts: the model asks for *)
(* some tools, they are called one after the other in the order it asked,  *)
(* each once and only if it reads, the model is asked again when all have  *)
(* been called, at most Rounds times, and the task ends with a text the    *)
(* model gave or with an error.                                            *)
(*                                                                         *)
(* Runner implements it; Executor uses it for the tasks that are intents.  *)
(***************************************************************************)
EXTENDS Naturals, Sequences

CONSTANTS Tasks,
          Asks,         \* the lists of tool names a model may ask for
          ReadOnly,     \* the names readOnly accepts
          Rounds,       \* maxRounds
          NoCall

ASSUME LoopAssumption ==
    /\ Rounds \in Nat \ {0}
    /\ \A w \in Asks : w \in Seq(STRING) /\ w # <<>>
    /\ NoCall \notin ReadOnly

VARIABLES stage,        \* stage[t]: where the task is
          wanted,       \* wanted[t]: the names asked for and not yet answered
          calling,      \* calling[t]: the name the task waits for, or NoCall
          asked         \* asked[t]: how often the model asked for tools

loopVars == <<stage, wanted, calling, asked>>

Stages == {"off", "thinking", "tools", "text", "error"}

LoopInit ==
    /\ stage = [t \in Tasks |-> "off"]
    /\ wanted = [t \in Tasks |-> <<>>]
    /\ calling = [t \in Tasks |-> NoCall]
    /\ asked = [t \in Tasks |-> 0]

\* Mutated: the runner calls what the model names.
MayMake_Any(n) == TRUE

MayMake(n) == n \in ReadOnly

Enter(t) ==
    /\ stage[t] = "off"
    /\ stage' = [stage EXCEPT ![t] = "thinking"]
    /\ UNCHANGED <<wanted, calling, asked>>

AskFor(t, w) ==
    /\ stage[t] = "thinking"
    /\ stage' = [stage EXCEPT ![t] = "tools"]
    /\ wanted' = [wanted EXCEPT ![t] = w]
    /\ asked' = [asked EXCEPT ![t] = @ + 1]
    /\ UNCHANGED calling

Make(t) ==
    /\ stage[t] = "tools" /\ calling[t] = NoCall
    /\ MayMake(Head(wanted[t]))
    /\ calling' = [calling EXCEPT ![t] = Head(wanted[t])]
    /\ UNCHANGED <<stage, wanted, asked>>

\* Mutated: one round too many.
Thinks_OffByOne(t) == asked[t] <= Rounds

\* The model is asked again.
Thinks(t) == asked[t] < Rounds

\* The result of the call, or its error, is part of the next question.
Hear(t) ==
    /\ calling[t] # NoCall
    /\ calling' = [calling EXCEPT ![t] = NoCall]
    /\ wanted' = [wanted EXCEPT ![t] = Tail(@)]
    /\ stage' = [stage EXCEPT ![t] = IF Len(wanted[t]) > 1 THEN "tools"
                                     ELSE IF Thinks(t) THEN "thinking" ELSE "error"]
    /\ UNCHANGED asked

Tell(t) ==
    /\ stage[t] = "thinking"
    /\ stage' = [stage EXCEPT ![t] = "text"]
    /\ UNCHANGED <<wanted, calling, asked>>

\* No tools or no key, the model service failed, or the next call is not to
\* be made.
Break(t) ==
    /\ stage[t] \in {"off", "thinking", "tools"} /\ calling[t] = NoCall
    /\ stage' = [stage EXCEPT ![t] = "error"]
    /\ wanted' = [wanted EXCEPT ![t] = <<>>]
    /\ UNCHANGED <<calling, asked>>

\* The task is forgotten.
Forget(t) ==
    /\ stage[t] \in {"off", "text", "error"}
    /\ stage' = [stage EXCEPT ![t] = "off"]
    /\ wanted' = [wanted EXCEPT ![t] = <<>>]
    /\ asked' = [asked EXCEPT ![t] = 0]
    /\ UNCHANGED calling

LoopNext ==
    \E t \in Tasks :
        \/ Enter(t) \/ Make(t) \/ Hear(t) \/ Tell(t) \/ Break(t) \/ Forget(t)
        \/ \E w \in Asks : AskFor(t, w)

LoopSpec == LoopInit /\ [][LoopNext]_loopVars

LoopTypeOK ==
    /\ stage \in [Tasks -> Stages]
    /\ \A t \in Tasks : wanted[t] # <<>> =>
           \E w \in Asks : \E k \in 1..Len(w) : wanted[t] = SubSeq(w, k, Len(w))
    /\ calling \in [Tasks -> ReadOnly \cup {NoCall}]
    /\ asked \in [Tasks -> 0..Rounds]
=============================================================================
