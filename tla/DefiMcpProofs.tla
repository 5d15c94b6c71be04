--------------------------- MODULE DefiMcpProofs ---------------------------
(***************************************************************************)
(* IInv is an inductive invariant of DefiMcp, for every set of calls, of   *)
(* names and of listings; the safety properties of DefiMcp follow.         *)
(***************************************************************************)
EXTENDS DefiMcp, TLAPS

\* Two functions that SameCatalog accepts are equal: reconnect's comparison
\* leaves no difference between the frozen catalog and the served one.
LEMMA SameCatalogIsEquality ==
    ASSUME NEW l \in Listings, NEW t \in Catalogs, SameCatalog(t, Catalog(l))
    PROVE  t = Catalog(l)
<1>1. PICK k \in ValidListings : t = Catalog(k)
  BY DEF Catalogs
<1> DEFINE K == {k[i].name : i \in 1..Len(k)}
           L == {l[i].name : i \in 1..Len(l)}
           u == Catalog(l)
<1>2. t = [n \in K |-> t[n]]
  BY <1>1 DEF Catalog
<1>3. u = [n \in L |-> u[n]]
  BY DEF Catalog
<1>4. DOMAIN t = DOMAIN u /\ \A n \in DOMAIN t : t[n] = u[n]
  BY DEF SameCatalog
<1> HIDE DEF K, L, u
<1>5. K = L
  BY <1>2, <1>3, <1>4
<1>6. t = u
  BY <1>2, <1>3, <1>4, <1>5
<1> QED
  BY <1>6 DEF u

\* The state Connect leaves behind satisfies the invariant.
LEMMA InitEstablishes == Init => IInv
<1> SUFFICES ASSUME Init PROVE IInv
  OBVIOUS
<1>1. served \in Listings /\ tools \in Catalogs
  BY DEF Init, ValidListings, Catalogs
<1>2. TypeOK
  BY <1>1 DEF Init, TypeOK
<1>3. \A c \in Calls : CallShape(c) /\ ~InFlight(c)
  BY NoToolAssumption DEF Init, CallShape, Holding, Reconnecting, InFlight
<1> QED
  BY <1>2, <1>3, OwnerAssumption
     DEF Init, IInv, OneCallAtATime, NeedsService, NoSessionWhileReconnecting,
         UnsafeAtMostOnce, OutcomeIsTruthful, OpenServesFrozen,
         InFlightIsServed, ClosedStaysClosed, Holding, Reconnecting

\* Every step of the client, of its callers, of the process and of the
\* service preserves the invariant.  Steps are taken in the order of Next.
LEMMA StepPreserves == IInv /\ [Next]_vars => IInv'
<1> SUFFICES ASSUME IInv, [Next]_vars PROVE IInv'
  OBVIOUS
<1> USE OwnerAssumption, NoToolAssumption
    DEF IInv, TypeOK, Holding, Reconnecting, Ended, InFlight, CallShape,
        OneCallAtATime, NeedsService, NoSessionWhileReconnecting,
        UnsafeAtMostOnce, OutcomeIsTruthful, OpenServesFrozen,
        InFlightIsServed, ClosedStaysClosed
<1>1. ASSUME NEW c \in Calls, CallStep(c)
      PROVE  IInv'
  <2>1. CASE \E n \in Names : Submit(c, n)
    BY <2>1 DEF Submit, clientVars, serviceVars
  <2>2. CASE RejectUnknown(c)
    BY <2>2 DEF RejectUnknown, MutexFree, Return, serviceVars
  <2>3. CASE RefuseDisconnected(c)
    BY <2>3 DEF RefuseDisconnected, MutexFree, Return, serviceVars
  <2>4. CASE SendFirst(c)
    BY <2>4 DEF SendFirst, MutexFree, Listed, serviceVars
  <2>5. CASE Answer(c)
    BY <2>5 DEF Answer, AnswerGuard, Result, Attempt, Return, serviceVars
  <2>6. CASE CallFails(c)
    BY <2>6 DEF CallFails, Return, serviceVars
  <2>7. CASE SessionFails(c)
    BY <2>7 DEF SessionFails, Attempt, serviceVars
  <2>8. CASE DialSucceeds(c)
    BY <2>8 DEF DialSucceeds, serviceVars
  <2>9. CASE DialFails(c)
    BY <2>9 DEF DialFails, Return, serviceVars
  <2>10. CASE ListFails(c) \/ ListRefused(c)
    BY <2>10 DEF ListFails, ListRefused, Discard, serviceVars
  <2>11. CASE OldClosed(c) \/ NewClosed(c)
    BY <2>11 DEF OldClosed, NewClosed, Return, clientVars, serviceVars
  <2>12. CASE ListAccepted(c)
    \* The listing just compared is the frozen catalog, so the session that
    \* opens here serves it, and so does the request sent again on it.
    <3>1. tools = Catalog(served)
      BY <2>12, SameCatalogIsEquality DEF ListAccepted
    <3>2. up /\ tool[c] \in DOMAIN Catalog(served) /\ lock = c
      BY <2>12, <3>1 DEF ListAccepted
    <3>3. CASE MayRetry(c)
      <4>1. /\ pc' = [pc EXCEPT ![c] = "calling"]
            /\ sent' = [sent EXCEPT ![c][2] = "inflight"]
            /\ session' = "open" /\ dial' = "none"
            /\ UNCHANGED <<lock, tools, closed, tool, outcome, up, served>>
        BY <2>12, <3>3 DEF ListAccepted, serviceVars
      <4>2. TypeOK'
        BY <4>1
      <4>3. (OneCallAtATime /\ NeedsService /\ NoSessionWhileReconnecting)'
        BY <3>2, <4>1
      <4>4. (\A d \in Calls : CallShape(d))'
        BY <4>1, <2>12 DEF ListAccepted
      <4>5. (UnsafeAtMostOnce /\ OutcomeIsTruthful)'
        BY <4>1, <2>12, <3>3 DEF ListAccepted, MayRetry
      <4>6. (OpenServesFrozen /\ InFlightIsServed)'
        BY <3>1, <3>2, <4>1
      <4>7. ClosedStaysClosed'
        BY <4>1, <2>12 DEF ListAccepted
      <4> QED
        BY <4>2, <4>3, <4>4, <4>5, <4>6, <4>7
    <3>4. CASE ~MayRetry(c)
      <4>1. /\ pc' = [pc EXCEPT ![c] = "done"]
            /\ outcome' = [outcome EXCEPT ![c] = "failed"]
            /\ session' = "open" /\ dial' = "none" /\ lock' = NoOwner
            /\ UNCHANGED <<tools, closed, tool, sent, up, served>>
        BY <2>12, <3>4 DEF ListAccepted, Return, serviceVars
      <4>2. (TypeOK /\ OneCallAtATime /\ NeedsService)'
        BY <3>2, <4>1
      <4>3. (NoSessionWhileReconnecting /\ (\A d \in Calls : CallShape(d)))'
        BY <3>2, <4>1
      <4>4. (UnsafeAtMostOnce /\ OutcomeIsTruthful)'
        BY <4>1
      <4>5. (OpenServesFrozen /\ InFlightIsServed /\ ClosedStaysClosed)'
        BY <3>1, <3>2, <4>1, <2>12 DEF ListAccepted
      <4> QED
        BY <4>2, <4>3, <4>4, <4>5
    <3> QED
      BY <3>3, <3>4
  <2>13. CASE Leave(c)
    BY <2>13 DEF Leave, clientVars, serviceVars
  <2> QED
    BY <1>1, <2>1, <2>2, <2>3, <2>4, <2>5, <2>6, <2>7, <2>8, <2>9, <2>10,
       <2>11, <2>12, <2>13 DEF CallStep, Enter
<1>2. CASE Close
  <2>1. UNCHANGED <<tools, dial, pc, tool, sent, outcome, up, served>>
    BY <1>2 DEF Close, CloseBegins, CloseEnds, callVars, serviceVars
  <2>2. CASE CloseBegins
    <3>1. \A c \in Calls : pc[c] \notin Holding
      BY <2>2 DEF CloseBegins, MutexFree
    <3>2. CASE session = "none"
      BY <2>1, <2>2, <3>1, <3>2 DEF CloseBegins
    <3>3. CASE session # "none"
      <4>1. lock' = Closer /\ UNCHANGED <<session, closed>>
        BY <2>2, <3>3 DEF CloseBegins
      <4> QED
        BY <2>1, <3>1, <4>1
    <3> QED
      BY <3>2, <3>3
  <2>3. CASE CloseEnds
    <3>1. lock = Closer /\ session' = "none" /\ closed' = TRUE /\ lock' = NoOwner
      BY <2>3 DEF CloseEnds
    <3>2. \A c \in Calls : pc[c] \notin Holding
      BY <3>1
    <3>3. (TypeOK /\ OneCallAtATime /\ NeedsService /\ NoSessionWhileReconnecting)'
      BY <2>1, <3>1, <3>2
    <3>4. ((\A c \in Calls : CallShape(c)) /\ UnsafeAtMostOnce /\ OutcomeIsTruthful)'
      BY <2>1
    <3>5. (OpenServesFrozen /\ InFlightIsServed /\ ClosedStaysClosed)'
      BY <2>1, <3>1, <3>2
    <3> QED
      BY <3>3, <3>4, <3>5
  <2> QED
    BY <1>2, <2>2, <2>3 DEF Close
<1>3. CASE Restart
  <2>1. tools' \in Catalogs
    BY <1>3 DEF Restart, StartupAccepts, Catalogs, ValidListings
  <2>2. \A c \in Calls : pc'[c] \in {"idle", "done"}
    BY <1>3 DEF Restart
  <2>3. \A c \in Calls : /\ pc'[c] = "idle" <=> pc[c] = "idle"
                         /\ (outcome'[c] = "none") <=> (pc[c] = "idle")
                         /\ outcome'[c] \in {outcome[c], "failed"}
    BY <1>3 DEF Restart
  <2>4. TypeOK'
    BY <1>3, <2>1 DEF Restart, StartupAccepts, serviceVars
  <2>5. (OneCallAtATime /\ NeedsService /\ NoSessionWhileReconnecting)'
    BY <1>3, <2>2 DEF Restart, StartupAccepts, serviceVars
  <2>6. (\A c \in Calls : CallShape(c))'
    BY <1>3, <2>2, <2>3 DEF Restart, serviceVars
  <2>7. (UnsafeAtMostOnce /\ OutcomeIsTruthful)'
    BY <1>3, <2>3 DEF Restart, serviceVars
  <2>8. (OpenServesFrozen /\ InFlightIsServed /\ ClosedStaysClosed)'
    BY <1>3 DEF Restart, serviceVars
  <2> QED
    BY <2>4, <2>5, <2>6, <2>7, <2>8
<1>4. CASE Environment
  <2>1. ASSUME NEW c \in Calls, NEW k \in 1..2, Execute(c, k) \/ Lose(c, k)
        PROVE  IInv'
    <3>1. CASE Execute(c, k)
      BY <2>1, <3>1 DEF Execute, clientVars, serviceVars
    <3>2. CASE Lose(c, k)
      BY <2>1, <3>2 DEF Lose, clientVars, serviceVars
    <3> QED
      BY <2>1, <3>1, <3>2
  <2>2. CASE LinkFails
    BY <2>2 DEF LinkFails, Broken, callVars, serviceVars
  <2>3. CASE ServiceStops
    <3>1. \A c \in Calls, k \in 1..2 :
             /\ sent'[c][k] \in {"unsent", "ran", "erred", "lost"}
             /\ sent'[c][k] = "unsent" <=> sent[c][k] = "unsent"
             /\ sent'[c][k] = "ran" <=> sent[c][k] = "ran"
      BY <2>3 DEF ServiceStops
    <3>2. TypeOK'
      <4>1. sent' \in [Calls -> [1..2 -> {"unsent", "inflight", "ran", "erred", "lost"}]]
        BY <2>3 DEF ServiceStops
      <4> QED
        BY <2>3, <4>1 DEF ServiceStops, Broken
    <3>3. (OneCallAtATime /\ NeedsService /\ NoSessionWhileReconnecting)'
      BY <2>3, <3>1 DEF ServiceStops, Broken
    <3>4. (\A c \in Calls : CallShape(c))'
      BY <2>3, <3>1 DEF ServiceStops
    <3>5. (UnsafeAtMostOnce /\ OutcomeIsTruthful)'
      BY <2>3, <3>1 DEF ServiceStops
    <3>6. (OpenServesFrozen /\ InFlightIsServed /\ ClosedStaysClosed)'
      BY <2>3, <3>1 DEF ServiceStops, Broken
    <3> QED
      BY <3>2, <3>3, <3>4, <3>5, <3>6
  <2>4. ASSUME NEW l \in Listings, ServiceStarts(l)
        PROVE  IInv'
    BY <2>4 DEF ServiceStarts, clientVars, callVars
  <2> QED
    BY <1>4, <2>1, <2>2, <2>3, <2>4 DEF Environment
<1>5. CASE UNCHANGED vars
  BY <1>5 DEF vars, clientVars, callVars, serviceVars
<1> QED
  BY <1>1, <1>2, <1>3, <1>4, <1>5 DEF Next

\* The inductive invariant holds in every reachable state, for any number
\* of concurrent calls and any catalogs.
THEOREM Invariant == Spec => []IInv
  BY InitEstablishes, StepPreserves, PTL DEF Spec

\* The state keeps its types (all of client.go).
THEOREM TypeCorrect == Spec => []TypeOK
<1>1. IInv => TypeOK
  BY DEF IInv
<1> QED
  BY <1>1, Invariant, PTL

\* A write tool is never sent twice by one Call, whatever happens to
\* sessions, answers, the service and the process (client.go:147-154).
THEOREM AtMostOnce == Spec => []UnsafeAtMostOnce
<1>1. IInv => UnsafeAtMostOnce
  BY DEF IInv
<1> QED
  BY <1>1, Invariant, PTL

\* Refused calls sent nothing and answered calls were run (client.go:141-178).
THEOREM TruthfulOutcome == Spec => []OutcomeIsTruthful
<1>1. IInv => OutcomeIsTruthful
  BY DEF IInv
<1> QED
  BY <1>1, Invariant, PTL

\* The mutex serialises everything Call does to the session (client.go:142).
THEOREM MutualExclusion == Spec => []OneCallAtATime
<1>1. IInv => OneCallAtATime
  BY DEF IInv
<1> QED
  BY <1>1, Invariant, PTL

\* The catalog that is advertised and checked against is the one a usable
\* session serves, across every reconnect (client.go:180-199).
THEOREM FrozenCatalog == Spec => []OpenServesFrozen
<1>1. IInv => OpenServesFrozen
  BY DEF IInv
<1> QED
  BY <1>1, Invariant, PTL

\* No request is on its way to a service that does not list its tool
\* (client.go:144-146).
THEOREM InFlightServed == Spec => []InFlightIsServed
<1>1. IInv => InFlightIsServed
  BY DEF IInv
<1> QED
  BY <1>1, Invariant, PTL

\* A closed client stays closed (client.go:243-255).
THEOREM CloseIsFinal == Spec => []ClosedStaysClosed
<1>1. IInv => ClosedStaysClosed
  BY DEF IInv
<1> QED
  BY <1>1, Invariant, PTL

-----------------------------------------------------------------------------
(* DefiMcp implements McpRelay *)

\* A step that leaves every call's place, result and run requests as they
\* are is invisible to McpRelay: sessions, dials, losses, the service's life.
LEMMA InvisibleStep ==
    ASSUME UNCHANGED tool,
           \A c \in Calls : /\ StatusOf(c)' = StatusOf(c)
                            /\ RunsOf(c)' = RunsOf(c) /\ WorkedFor(c)' = WorkedFor(c)
    PROVE  UNCHANGED Relay!absvars
  BY DEF Relay!absvars

\* Call returns to a caller whose request's fate is o.
LEMMA ReturnRefines ==
    ASSUME IInv, NEW c \in Calls, NEW o \in Ended, Return(c, o),
           pc[c] \in {"queued"} \cup Holding, UNCHANGED <<tool, sent>>,
           o = "refused" => pc[c] = "queued",
           o = "answered" => \E k \in 1..2 : sent[c][k] = "ran"
    PROVE  Relay!AbsNext
<1>1. \A d \in Calls : RunsOf(d)' = RunsOf(d) /\ WorkedFor(d)' = WorkedFor(d)
  BY DEF RunsOf, WorkedFor, Ran
<1>2. StatusOf(c) = "open" /\ StatusOf(c)' = o
  BY DEF StatusOf, IInv, TypeOK, Return, Holding, Reconnecting
<1>3. \A d \in Calls \ {c} : StatusOf(d)' = StatusOf(d)
  BY DEF StatusOf, IInv, TypeOK, Return
<1>4. [d \in Calls |-> StatusOf(d)]'
        = [[d \in Calls |-> StatusOf(d)] EXCEPT ![c] = o]
  BY <1>2, <1>3
<1>5. UNCHANGED <<[d \in Calls |-> RunsOf(d)], [d \in Calls |-> WorkedFor(d)]>>
  BY <1>1
<1>6. CASE o = "refused"
  <2>1. RunsOf(c) = 0
    BY <1>6 DEF RunsOf, Ran, IInv, CallShape
  <2> QED
    BY <1>2, <1>4, <1>5, <1>6, <2>1 DEF Relay!AbsNext, Relay!Refuse
<1>7. CASE o = "answered"
  <2>1. WorkedFor(c)
    BY <1>7 DEF WorkedFor
  <2> QED
    BY <1>2, <1>4, <1>5, <1>7, <2>1 DEF Relay!AbsNext, Relay!Answered
<1>8. CASE o = "failed"
  BY <1>2, <1>4, <1>5, <1>8 DEF Relay!AbsNext, Relay!Fail
<1> QED
  BY <1>6, <1>7, <1>8 DEF Ended

\* The service runs a request: McpRelay allows one more run of that tool.
LEMMA ExecuteRefines ==
    ASSUME IInv, NEW c \in Calls, NEW k \in 1..2, Execute(c, k)
    PROVE  Relay!AbsNext
<1> PICK fate \in {"ran", "erred"} : sent' = [sent EXCEPT ![c][k] = fate]
  BY DEF Execute
<1>1. /\ sent[c][k] = "inflight"
      /\ sent' = [sent EXCEPT ![c][k] = fate]
      /\ UNCHANGED <<pc, tool, outcome>>
  BY DEF Execute
<1>2. \A d \in Calls : StatusOf(d)' = StatusOf(d)
  BY <1>1 DEF StatusOf
<1>3. \A d \in Calls \ {c} : RunsOf(d)' = RunsOf(d) /\ WorkedFor(d)' = WorkedFor(d)
  BY <1>1 DEF RunsOf, WorkedFor, Ran, IInv, TypeOK
<1>4. RunsOf(c)' = RunsOf(c) + 1 /\ RunsOf(c) < Relay!Limit(tool[c])
  <2>1. CASE k = 1
    BY <1>1, <2>1 DEF RunsOf, Ran, Relay!Limit, IInv, TypeOK, UnsafeAtMostOnce
  <2>2. CASE k = 2
    BY <1>1, <2>2 DEF RunsOf, Ran, Relay!Limit, IInv, TypeOK, UnsafeAtMostOnce
  <2> QED
    BY <2>1, <2>2
<1>5. StatusOf(c) \in {"open", "answered", "failed"}
  BY <1>1 DEF StatusOf, IInv, TypeOK, CallShape, OutcomeIsTruthful, Holding,
             Reconnecting, Ended
<1>6. [d \in Calls |-> RunsOf(d)]'
        = [[d \in Calls |-> RunsOf(d)] EXCEPT ![c] = RunsOf(c) + 1]
  BY <1>3, <1>4
<1>7. UNCHANGED <<tool, [d \in Calls |-> StatusOf(d)]>>
  BY <1>1, <1>2
<1>8. WorkedFor(c)' = (WorkedFor(c) \/ fate = "ran")
  BY <1>1 DEF WorkedFor, IInv, TypeOK
<1>9. [d \in Calls |-> WorkedFor(d)]'
        = [[d \in Calls |-> WorkedFor(d)] EXCEPT ![c] = @ \/ fate = "ran"]
  BY <1>3, <1>8, Zenon
<1>10. \E works \in BOOLEAN :
          [d \in Calls |-> WorkedFor(d)]'
            = [[d \in Calls |-> WorkedFor(d)] EXCEPT ![c] = @ \/ works]
  BY <1>9, Zenon
<1>11. Relay!Run(c)
  BY <1>4, <1>5, <1>6, <1>7, <1>10 DEF Relay!Run
<1> QED
  BY <1>11 DEF Relay!AbsNext

\* Each step of DefiMcp is one step of McpRelay, or none.
LEMMA StepRefines == IInv /\ [Next]_vars => [Relay!AbsNext]_Relay!absvars
<1> SUFFICES ASSUME IInv, [Next]_vars
             PROVE  Relay!AbsNext \/ UNCHANGED Relay!absvars
  OBVIOUS
<1> USE DEF Ended, Holding, Reconnecting
<1>1. ASSUME NEW c \in Calls, CallStep(c)
      PROVE  Relay!AbsNext \/ UNCHANGED Relay!absvars
  <2>1. ASSUME NEW n \in Names, Submit(c, n)
        PROVE  Relay!AbsNext
    <3>1. Relay!Ask(c, n)
      BY <2>1 DEF Submit, Relay!Ask, StatusOf, RunsOf, WorkedFor, Ran, IInv, TypeOK
    <3> QED
      BY <3>1 DEF Relay!AbsNext
  <2>2. CASE RejectUnknown(c)
    BY <2>2, ReturnRefines DEF RejectUnknown
  <2>3. CASE RefuseDisconnected(c)
    BY <2>3, ReturnRefines DEF RefuseDisconnected
  <2>4. CASE SendFirst(c)
    BY <2>4, InvisibleStep DEF SendFirst, StatusOf, RunsOf, WorkedFor, Ran, IInv, TypeOK, CallShape
  <2>5. CASE Answer(c)
    BY <2>5, ReturnRefines DEF Answer, AnswerGuard, Result, Attempt
  <2>6. CASE CallFails(c)
    BY <2>6, ReturnRefines DEF CallFails
  <2>7. CASE SessionFails(c)
    BY <2>7, InvisibleStep DEF SessionFails, StatusOf, RunsOf, WorkedFor, Ran, IInv, TypeOK
  <2>8. CASE DialSucceeds(c)
    BY <2>8, InvisibleStep DEF DialSucceeds, StatusOf, RunsOf, WorkedFor, Ran, IInv, TypeOK
  <2>9. CASE DialFails(c)
    BY <2>9, ReturnRefines DEF DialFails
  <2>10. CASE ListFails(c) \/ ListRefused(c)
    BY <2>10, InvisibleStep
       DEF ListFails, ListRefused, Discard, StatusOf, RunsOf, WorkedFor, Ran, IInv, TypeOK
  <2>11. CASE OldClosed(c)
    BY <2>11, InvisibleStep DEF OldClosed, StatusOf, RunsOf, WorkedFor, Ran, IInv, TypeOK
  <2>15. CASE NewClosed(c)
    BY <2>15, ReturnRefines DEF NewClosed
  <2>12. CASE ListAccepted(c) /\ MayRetry(c)
    BY <2>12, InvisibleStep
       DEF ListAccepted, StatusOf, RunsOf, WorkedFor, Ran, IInv, TypeOK, CallShape
  <2>13. CASE ListAccepted(c) /\ ~MayRetry(c)
    BY <2>13, ReturnRefines DEF ListAccepted
  <2>14. CASE Leave(c)
    <3>1. StatusOf(c) \in {"refused", "answered", "failed"}
      BY <2>14 DEF Leave, StatusOf, IInv, TypeOK, CallShape
    <3>2. StatusOf(c)' = "idle" /\ RunsOf(c)' = 0 /\ WorkedFor(c)' = FALSE
      BY <2>14 DEF Leave, StatusOf, RunsOf, WorkedFor, Ran, IInv, TypeOK
    <3>3. \A d \in Calls \ {c} : /\ StatusOf(d)' = StatusOf(d) /\ RunsOf(d)' = RunsOf(d)
                                 /\ WorkedFor(d)' = WorkedFor(d)
      BY <2>14 DEF Leave, StatusOf, RunsOf, WorkedFor, Ran, IInv, TypeOK
    <3>4. tool' = [tool EXCEPT ![c] = NoTool]
      BY <2>14 DEF Leave
    <3>5. Relay!Leave(c)
      BY <3>1, <3>2, <3>3, <3>4 DEF Relay!Leave
    <3> QED
      BY <3>5 DEF Relay!AbsNext
  <2> QED
    BY <1>1, <2>1, <2>2, <2>3, <2>4, <2>5, <2>6, <2>7, <2>8, <2>9, <2>10,
       <2>11, <2>12, <2>13, <2>14, <2>15 DEF CallStep, Enter
<1>2. CASE Close
  BY <1>2, InvisibleStep
     DEF Close, CloseBegins, CloseEnds, callVars, StatusOf, RunsOf, WorkedFor, Ran
<1>3. CASE Restart
  <2>1. \A c \in Calls : StatusOf(c)' =
            (IF StatusOf(c) = "open" THEN "failed" ELSE StatusOf(c))
    BY <1>3 DEF Restart, StatusOf, IInv, TypeOK, CallShape
  <2>2. Relay!FailAll
    BY <1>3, <2>1 DEF Restart, Relay!FailAll, RunsOf, WorkedFor, Ran
  <2> QED
    BY <2>2 DEF Relay!AbsNext
<1>4. CASE Environment
  <2>1. ASSUME NEW c \in Calls, NEW k \in 1..2, Execute(c, k)
        PROVE  Relay!AbsNext
    BY <2>1, ExecuteRefines
  <2>2. ASSUME NEW c \in Calls, NEW k \in 1..2, Lose(c, k)
        PROVE  UNCHANGED Relay!absvars
    BY <2>2, InvisibleStep DEF Lose, StatusOf, RunsOf, WorkedFor, Ran, IInv, TypeOK
  <2>3. CASE LinkFails
    BY <2>3, InvisibleStep DEF LinkFails, callVars, StatusOf, RunsOf, WorkedFor, Ran
  <2>4. CASE ServiceStops
    <3>1. \A c \in Calls, k \in 1..2 : /\ sent'[c][k] = "ran" <=> sent[c][k] = "ran"
                                       /\ sent'[c][k] = "erred" <=> sent[c][k] = "erred"
      BY <2>4 DEF ServiceStops, IInv, TypeOK
    <3>2. \A c \in Calls : StatusOf(c)' = StatusOf(c)
      BY <2>4 DEF ServiceStops, StatusOf
    <3>3. \A c \in Calls : RunsOf(c)' = RunsOf(c) /\ WorkedFor(c)' = WorkedFor(c)
      BY <3>1 DEF RunsOf, WorkedFor, Ran
    <3> QED
      BY <2>4, <3>2, <3>3, InvisibleStep DEF ServiceStops
  <2>5. ASSUME NEW l \in Listings, ServiceStarts(l)
        PROVE  UNCHANGED Relay!absvars
    BY <2>5, InvisibleStep DEF ServiceStarts, callVars, StatusOf, RunsOf, WorkedFor, Ran
  <2> QED
    BY <1>4, <2>1, <2>2, <2>3, <2>4, <2>5 DEF Environment
<1>5. CASE UNCHANGED vars
  BY <1>5, InvisibleStep DEF vars, callVars, StatusOf, RunsOf, WorkedFor, Ran
<1> QED
  BY <1>1, <1>2, <1>3, <1>4, <1>5 DEF Next

\* Whatever the client does about sessions, deadlines and reconnects, its
\* callers see McpRelay: refused calls never run, answered ones have run,
\* writes run at most once and other tools at most twice.
THEOREM Refinement == Spec => ImplementsRelay
<1>1. Init => Relay!AbsInit
  BY DEF Init, Relay!AbsInit, StatusOf, RunsOf, WorkedFor, Ran
<1> QED
  BY <1>1, StepRefines, Invariant, PTL DEF Spec, ImplementsRelay, Relay!AbsSpec
=============================================================================
