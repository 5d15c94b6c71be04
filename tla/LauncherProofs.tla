--------------------------- MODULE LauncherProofs ---------------------------
(***************************************************************************)
(* What Launcher promises to one operator, for every set of pids the       *)
(* machine may hand out and every number of polls.  The types are kept     *)
(* whatever the number of shells; the other two properties need the shell  *)
(* to be the only one, and ReadyIsTrue needs lsof.                         *)
(***************************************************************************)
EXTENDS Launcher, TLAPS

-----------------------------------------------------------------------------
(* Types, for any number of shells *)

\* The range TypeOK gives the shells.
ShellStates ==
    [Shells -> [mode : Modes, pid : Pids \cup {NoPid}, tries : 0 .. Polls,
                at : {"idle", "check", "port", "build", "record", "poll", "curl", "giveup",
                      "unlink", "kill", "verdict"},
                result : {"none", "ready", "failed", "running", "stopped", "interrupted"}]]

\* The script notes a pid and goes on (lines 393, 148).
LEMMA PidIsNoted ==
    ASSUME NEW f \in ShellStates, NEW s \in Shells, NEW at \in {"record", "poll"},
           NEW p \in Pids \cup {NoPid}
    PROVE  [f EXCEPT ![s].at = at, ![s].pid = p] \in ShellStates
  BY DEF ShellStates

\* The script ends with its verdict, or before one.
LEMMA ExitKeepsShells ==
    ASSUME NEW f \in ShellStates, NEW s \in Shells,
           NEW result \in {"ready", "failed", "running", "stopped", "interrupted"}
    PROVE  [f EXCEPT ![s].at = "idle", ![s].result = result] \in ShellStates
  BY DEF ShellStates

\* A shell's loop counter never passes its bound (the {1..20} loops).
LEMMA PollsCountDown ==
    ASSUME TypeOK, NEW s \in Shells, NEW exhausted \in {"giveup", "verdict"},
           NextPoll(s, exhausted)
    PROVE  /\ shell' \in ShellStates
           /\ \A t \in Shells : shell'[t].at = "record" => shell'[t].pid \in Pids
<1>1. shell[s].tries \in 0 .. Polls /\ Polls \in Nat \ {0}
  BY PollsAssumption DEF TypeOK
<1>2. MorePolls(shell[s].tries) => shell[s].tries - 1 \in 0 .. Polls
  BY <1>1 DEF MorePolls
<1>3. 0 \in 0 .. Polls
  BY <1>1
<1> QED
  BY <1>2, <1>3 DEF NextPoll, TypeOK, ShellStates

\* A step keeps the types.
LEMMA StepKeepsTypes == TypeOK /\ [Next]_vars => TypeOK'
<1> SUFFICES ASSUME TypeOK, [Next]_vars PROVE TypeOK'
  OBVIOUS
<1> USE PidsAssumption DEF AgentStates, Modes, machine
<1>1. ASSUME NEW s \in Shells, Begin(s)
      PROVE  TypeOK'
  <2>1. Polls \in 0 .. Polls
    BY PollsAssumption
  <2> QED
    BY <1>1, <2>1 DEF TypeOK, Begin
<1>2. ASSUME NEW s \in Shells, Start(s)
      PROVE  TypeOK'
  <2>1. CASE StartRefused(s) \/ StartAllowed(s) \/ CheckPort(s) \/ BuildFails(s)
    BY <2>1 DEF TypeOK, StartRefused, StartAllowed, CheckPort, BuildFails, Goto, Exit
  <2>2. CASE Spawn(s)
    <3>1. PICK p \in Pids : /\ proc[p] = "free"
                           /\ proc' = [proc EXCEPT ![p] = "starting"]
                           /\ shell' = [shell EXCEPT ![s].at = "record", ![s].pid = p]
                           /\ UNCHANGED <<pidFile, port, orphans>>
      BY <2>2 DEF Spawn
    <3>2. shell' \in ShellStates
      BY <3>1, PidIsNoted, TypeOK DEF TypeOK, ShellStates
    <3>3. proc' \in [Pids -> AgentStates \cup {"free", "stopping", "late", "other"}]
      BY <3>1 DEF TypeOK
    <3>4. \A t \in Shells : shell'[t].at = "record" => shell'[t].pid \in Pids
      BY <3>1 DEF TypeOK
    <3> QED
      BY <3>1, <3>2, <3>3, <3>4 DEF TypeOK, ShellStates
  <2>3. CASE Record(s)
    BY <2>3 DEF TypeOK, Record, Goto
  <2>4. CASE PollDead(s) \/ PollAlive(s) \/ CurlAnswers(s)
    BY <2>4 DEF TypeOK, PollDead, PollAlive, CurlAnswers, Goto, Exit
  <2>5. CASE CurlFails(s)
    BY <2>5, PollsCountDown DEF TypeOK, CurlFails, ShellStates
  <2>6. CASE GiveUp(s)
    BY <2>6 DEF TypeOK, GiveUp, Goto, Signalled, Alive
  <2> QED
    BY <1>2, <2>1, <2>2, <2>3, <2>4, <2>5, <2>6 DEF Start
<1>3. ASSUME NEW s \in Shells, Stop(s)
      PROVE  TypeOK'
  <2>1. CASE StopAlive(s) \/ StopBreaks(s) \/ StopVerdict(s)
    BY <2>1 DEF TypeOK, StopAlive, StopBreaks, StopVerdict, Goto, Exit
  <2>2. CASE Kill(s)
    <3>1. shell' \in ShellStates
      BY <2>2, PidIsNoted DEF TypeOK, Kill, ShellStates
    <3> QED
      BY <2>2, <3>1 DEF TypeOK, Kill, Signalled, Alive, ShellStates
  <2>3. CASE StopWaits(s)
    BY <2>3, PollsCountDown DEF TypeOK, StopWaits, ShellStates
  <2> QED
    BY <1>3, <2>1, <2>2, <2>3 DEF Stop
<1>4. ASSUME NEW s \in Shells, StatusAlive(s) \/ NothingToStop(s) \/ Unlink(s)
      PROVE  TypeOK'
  BY <1>4 DEF TypeOK, StatusAlive, NothingToStop, Unlink, Goto, Exit
<1>5. ASSUME NEW p \in Pids, Machine(p)
      PROVE  TypeOK'
  BY <1>5 DEF TypeOK, Machine, Bind, BindLate, OtherBinds, Dies, Reused
<1>7. ASSUME NEW s \in Shells, Interrupted(s)
      PROVE  TypeOK'
  <2>1. orphans' \subseteq Pids
    BY <1>7 DEF TypeOK, Interrupted, At
  <2>2. shell' = [shell EXCEPT ![s].at = "idle", ![s].result = "interrupted"] /\ UNCHANGED machine
    BY <1>7 DEF Interrupted, Exit
  <2>3. shell' \in ShellStates
    BY <2>2, ExitKeepsShells DEF TypeOK, ShellStates
  <2>4. \A t \in Shells : shell'[t].at = "record" => shell'[t].pid \in Pids
    BY <2>2 DEF TypeOK
  <2>5. UNCHANGED <<pidFile, proc, port>>
    BY <2>2
  <2> QED
    BY <2>1, <2>3, <2>4, <2>5 DEF TypeOK, ShellStates
<1>6. CASE UNCHANGED vars
  BY <1>6 DEF TypeOK, vars
<1> QED
  BY <1>1, <1>2, <1>3, <1>4, <1>5, <1>6, <1>7 DEF Next, Command

\* The ranges of the script's variables and of the machine's, with any
\* number of operators (all of local-evm-agent.sh's start, stop, status).
THEOREM TypeCorrect == Spec => []TypeOK
<1>1. Init => TypeOK
  BY PidsAssumption, PollsAssumption DEF Init, TypeOK, Modes
<1> QED
  BY <1>1, StepKeepsTypes, PTL DEF Spec

-----------------------------------------------------------------------------
(* One operator *)

\* The lines of each command, and no verdict before its end.
Coherent(s) ==
    /\ shell[s].mode = "stop" => shell[s].at \in {"idle", "check", "kill", "poll", "verdict", "unlink"}
    /\ shell[s].mode = "status" => shell[s].at \in {"idle", "check", "unlink"}
    /\ shell[s].mode = "start" => shell[s].at \notin {"kill", "verdict"}
    /\ shell[s].at # "idle" => shell[s].result = "none"

NobodyRuns == \A p \in Pids : proc[p] \in AgentStates => p \in orphans

\* Nobody listens, or a process that came to the port later than any check.
PortWasFree ==
    port = NoPid \/ proc[port] \in {"late", "other"} \/ port \in orphans

\* What the operator's shell knows of the machine at each line: after the
\* first check, and before the file goes, no agent runs but orphans; after
\* that lsof has seen a free port; from the spawn on, the only agent that is
\* no orphan is its own.
Knows(s) ==
    /\ shell[s].at \in {"port", "build", "unlink"} => NobodyRuns
    /\ At(s, {"start"}, "build") /\ HasLsof => PortWasFree
    /\ shell[s].mode = "start" /\ shell[s].at \in {"record", "poll", "curl", "giveup"} =>
          /\ \A p \in Pids : proc[p] \in AgentStates => p = shell[s].pid \/ p \in orphans
          /\ HasLsof => PortWasFree \/ port = shell[s].pid
          /\ shell[s].at # "record" => pidFile = shell[s].pid

IInv == TypeOK /\ AgentsAreFindable /\ \A s \in Shells : Coherent(s) /\ Knows(s)

\* The operator's commands and the machine preserve the invariant.
LEMMA StepPreserves ==
    ASSUME NEW s, Shells = {s}, IInv, [Next]_vars
    PROVE  IInv'
<1>1. TypeOK /\ TypeOK'
  BY StepKeepsTypes DEF IInv
<1> SUFFICES AgentsAreFindable' /\ Coherent(s)' /\ Knows(s)'
  BY <1>1 DEF IInv
<1> USE <1>1, PidsAssumption DEF AgentStates, IInv, AgentsAreFindable, Coherent, Knows,
        NobodyRuns, PortWasFree, At, machine
<1>2. CASE Begin(s)
  BY <1>2 DEF TypeOK, Begin, Modes
<1>3. CASE Start(s)
  <2>1. CASE StartRefused(s) \/ BuildFails(s)
    BY <2>1 DEF TypeOK, StartRefused, BuildFails, Exit
  <2>2. CASE StartAllowed(s)
    BY <2>2 DEF TypeOK, StartAllowed, Goto, Alive
  <2>3. CASE CheckPort(s)
    BY <2>3 DEF TypeOK, CheckPort, PortLooksFree, Goto, Exit
  <2>4. CASE Spawn(s)
    BY <2>4 DEF TypeOK, Spawn
  <2>5. CASE Record(s)
    BY <2>5 DEF TypeOK, Record, Goto
  <2>6. CASE PollDead(s) \/ PollAlive(s)
    BY <2>6 DEF TypeOK, PollDead, PollAlive, Goto, Alive
  <2>7. CASE CurlAnswers(s)
    BY <2>7 DEF TypeOK, CurlAnswers, Exit
  <2>8. CASE CurlFails(s)
    BY <2>8 DEF TypeOK, CurlFails, NextPoll
  <2>9. CASE GiveUp(s)
    BY <2>9 DEF TypeOK, GiveUp, Goto, Signalled, Alive
  <2> QED
    BY <1>3, <2>1, <2>2, <2>3, <2>4, <2>5, <2>6, <2>7, <2>8, <2>9 DEF Start
<1>4. CASE Stop(s)
  <2>1. CASE StopAlive(s) \/ StopBreaks(s) \/ StopVerdict(s)
    BY <2>1 DEF TypeOK, StopAlive, StopBreaks, StopVerdict, Goto, Exit
  <2>2. CASE Kill(s)
    BY <2>2 DEF TypeOK, Kill, Signalled, Alive
  <2>3. CASE StopWaits(s)
    BY <2>3 DEF TypeOK, StopWaits, NextPoll
  <2> QED
    BY <1>4, <2>1, <2>2, <2>3 DEF Stop
<1>5. CASE StatusAlive(s)
  BY <1>5 DEF TypeOK, StatusAlive, Exit
<1>6. CASE NothingToStop(s)
  BY <1>6 DEF TypeOK, NothingToStop, Goto, Alive
<1>7. CASE Unlink(s)
  BY <1>7 DEF TypeOK, Unlink, Exit
<1>8. ASSUME NEW p \in Pids, Machine(p)
      PROVE  AgentsAreFindable' /\ Coherent(s)' /\ Knows(s)'
  <2>1. CASE Bind(p) \/ BindLate(p) \/ OtherBinds(p)
    BY <2>1 DEF TypeOK, Bind, BindLate, OtherBinds
  <2>2. CASE Dies(p) \/ Reused(p)
    BY <2>2 DEF TypeOK, Dies, Reused
  <2> QED
    BY <1>8, <2>1, <2>2 DEF Machine
<1>10. CASE Interrupted(s)
  BY <1>10 DEF TypeOK, Interrupted, Exit
<1>9. CASE UNCHANGED vars
  BY <1>9 DEF vars
<1> QED
  BY <1>2, <1>3, <1>4, <1>5, <1>6, <1>7, <1>8, <1>9, <1>10 DEF Next, Command

\* With one operator IInv is inductive.
LEMMA Invariant == ASSUME NEW s, Shells = {s} PROVE Spec => []IInv
<1>1. Init => IInv
  BY PidsAssumption, PollsAssumption
     DEF Init, IInv, TypeOK, Modes, AgentsAreFindable, AgentStates, Coherent, Knows, PortWasFree, At
<1>2. IInv /\ [Next]_vars => IInv'
  BY StepPreserves
<1> QED
  BY <1>1, <1>2, PTL DEF Spec

\* One operator, whatever dies, is slow or is handed an old pid: an agent
\* nobody told to stop is the one the file names, or the one being started,
\* or one whose script ended before it could write the file
\* (local-evm-agent.sh:346, 357, 394, 397, 410).
THEOREM AgentsFindable == ASSUME NEW s, Shells = {s} PROVE Spec => []AgentsAreFindable
<1>1. IInv => AgentsAreFindable
  BY DEF IInv
<1> QED
  BY <1>1, Invariant, PTL

\* One operator, with lsof: "ready" is the agent just started and recorded,
\* unless an agent that was told to stop, or that no file names, came to the
\* port after the check (line 401 asks whoever holds the port).
THEOREM ReadyTrue == ASSUME NEW o, Shells = {o}, HasLsof PROVE Spec => ReadyIsTrue
<1>1. ASSUME IInv, [Next]_vars, shell[o].at = "curl", shell'[o].result = "ready"
      PROVE  /\ pidFile = shell[o].pid
             /\ port = shell[o].pid \/ proc[port] = "late" \/ port \in orphans
  <2>1. shell[o].mode = "start" /\ shell[o].result = "none"
    BY <1>1 DEF IInv, TypeOK, Coherent, Modes
  <2>2. port # NoPid /\ proc[port] # "other"
    BY <1>1, <2>1
       DEF IInv, TypeOK, Next, Command, Start, Stop, At, Goto, Exit, NextPoll, Begin, Spawn,
           StartRefused, StartAllowed, CheckPort, BuildFails, Record, PollDead, PollAlive,
           CurlAnswers, CurlFails, GiveUp, StopAlive, Kill, StopWaits, StopBreaks, StopVerdict,
           StatusAlive, NothingToStop, Unlink, Interrupted, Machine, Bind, BindLate,
           OtherBinds, Dies, Reused, vars
  <2> QED
    BY <1>1, <2>1, <2>2 DEF IInv, Knows, PortWasFree
<1>2. IInv /\ [Next]_vars =>
        [\A s \in Shells : (shell[s].at = "curl" /\ shell'[s].result = "ready") =>
             /\ pidFile = shell[s].pid
             /\ port = shell[s].pid \/ proc[port] = "late" \/ port \in orphans]_vars
  BY <1>1
<1>3. Spec => []IInv
  BY Invariant
<1> QED
  BY <1>2, <1>3, PTL DEF Spec, ReadyIsTrue
=============================================================================
