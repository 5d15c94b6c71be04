------------------------------ MODULE Launcher ------------------------------
(***************************************************************************)
(* scripts/local-evm-agent.sh: the operator's shells that start, stop and  *)
(* query a local agent through a pid file, and the processes of the        *)
(* machine they act on.  One action is one command of the script that      *)
(* reads or changes shared state: the pid file, a process, the port.       *)
(***************************************************************************)
EXTENDS Naturals, FiniteSets

CONSTANTS Shells,   \* terminals in which somebody runs the script
          Pids,     \* process ids the machine hands out, and reuses
          NoPid,    \* no pid file, or nobody holds the port
          Polls,    \* 20 in the script: how often a loop asks again
          HasLsof   \* lsof is installed

ASSUME ShellsAssumption == Shells # {}
ASSUME PidsAssumption == NoPid \notin Pids
ASSUME PollsAssumption == Polls \in Nat \ {0}
ASSUME LsofAssumption == HasLsof \in BOOLEAN

VARIABLES pidFile,  \* what agent.pid holds
          proc,     \* what each pid is: an agent, something else, or free
          port,     \* the process that listens on listen_addr
          shell,    \* per shell: the command, its next line, its locals
          orphans   \* agents whose script ended before it wrote agent.pid (history)

machine == <<pidFile, proc, port>>
vars == <<machine, shell, orphans>>

Modes == {"start", "stop", "status"}

Init ==
    /\ pidFile = NoPid
    /\ proc = [p \in Pids |-> "free"]
    /\ port = NoPid
    /\ shell = [s \in Shells |-> [mode |-> "start", at |-> "idle", pid |-> NoPid,
                                  tries |-> 0, result |-> "none"]]
    /\ orphans = {}

\* kill -0: the pid is somebody's, whoever that is.
Alive(p) == p \in Pids /\ proc[p] # "free"

\* Agents nobody told to stop.
AgentStates == {"starting", "serving"}

At(s, modes, at) == shell[s].mode \in modes /\ shell[s].at = at

Goto(s, at) == shell' = [shell EXCEPT ![s].at = at]

Exit(s, result) == shell' = [shell EXCEPT ![s].at = "idle", ![s].result = result]

\* kill: SIGTERM to whoever has the pid now; another program may end of it.
Signalled(p) ==
    IF p \in Pids /\ proc[p] \in AgentStates THEN [proc EXCEPT ![p] = "stopping"] ELSE proc

-----------------------------------------------------------------------------
(* The commands of the script. *)

Begin(s) ==
    /\ shell[s].at = "idle"
    /\ \E m \in Modes : shell' = [shell EXCEPT ![s] =
          [mode |-> m, at |-> "check", pid |-> NoPid, tries |-> Polls, result |-> "none"]]
    /\ UNCHANGED <<machine, orphans>>

\* "already running": a start refuses while the file names a living pid.
StartRefused(s) ==
    /\ At(s, {"start"}, "check") /\ Alive(pidFile)
    /\ Exit(s, "failed")
    /\ UNCHANGED <<machine, orphans>>

StartAllowed(s) ==
    /\ At(s, {"start"}, "check") /\ ~Alive(pidFile)
    /\ Goto(s, "port")
    /\ UNCHANGED <<machine, orphans>>

PortLooksFree_Unchecked == TRUE

\* require_free_listen_port: without lsof nobody looks.
PortLooksFree == ~HasLsof \/ port = NoPid

CheckPort(s) ==
    /\ At(s, {"start"}, "port")
    /\ IF PortLooksFree THEN Goto(s, "build") ELSE Exit(s, "failed")
    /\ UNCHANGED <<machine, orphans>>

\* The chain, the configuration or the build is not in order.
BuildFails(s) ==
    /\ At(s, {"start"}, "build")
    /\ Exit(s, "failed")
    /\ UNCHANGED <<machine, orphans>>

Spawn(s) ==
    /\ At(s, {"start"}, "build")
    /\ \E p \in Pids :
          /\ proc[p] = "free"
          /\ proc' = [proc EXCEPT ![p] = "starting"]
          /\ shell' = [shell EXCEPT ![s].at = "record", ![s].pid = p]
    /\ UNCHANGED <<pidFile, port, orphans>>

Record(s) ==
    /\ At(s, {"start"}, "record")
    /\ pidFile' = shell[s].pid
    /\ Goto(s, "poll")
    /\ UNCHANGED <<proc, port, orphans>>

\* ^C, or under set -e a command that fails, as the printf of the pid on a
\* full disk: the script ends where it is, and the agent it has just spawned
\* goes on.
Interrupted(s) ==
    /\ shell[s].at # "idle"
    /\ Exit(s, "interrupted")
    /\ orphans' = IF At(s, {"start"}, "record") THEN orphans \cup {shell[s].pid} ELSE orphans
    /\ UNCHANGED machine

\* The agent exited during startup: the script removes the file and fails.
PollDead(s) ==
    /\ At(s, {"start"}, "poll") /\ ~Alive(shell[s].pid)
    /\ Goto(s, "unlink")
    /\ UNCHANGED <<machine, orphans>>

PollAlive(s) ==
    /\ At(s, {"start"}, "poll") /\ Alive(shell[s].pid)
    /\ Goto(s, "curl")
    /\ UNCHANGED <<machine, orphans>>

\* /healthz and the card answer on the port, whichever agent holds it; no
\* other program answers both.
CurlAnswers(s) ==
    /\ At(s, {"start"}, "curl") /\ port # NoPid /\ proc[port] # "other"
    /\ Exit(s, "ready")
    /\ UNCHANGED <<machine, orphans>>

MorePolls_Unbounded(n) == TRUE

\* for _ in {1..20}: is there another round?
MorePolls(n) == n > 1

\* The next round, or the line after the loop.
NextPoll(s, exhausted) ==
    IF MorePolls(shell[s].tries)
    THEN shell' = [shell EXCEPT ![s].at = "poll", ![s].tries = @ - 1]
    ELSE shell' = [shell EXCEPT ![s].at = exhausted, ![s].tries = 0]

\* The agent is not up yet, or is too slow for --max-time.
CurlFails(s) ==
    /\ At(s, {"start"}, "curl")
    /\ NextPoll(s, "giveup")
    /\ UNCHANGED <<machine, orphans>>

GiveUp_LeavesIt(s) ==
    /\ At(s, {"start"}, "giveup")
    /\ Goto(s, "unlink")
    /\ UNCHANGED <<machine, orphans>>

\* No readiness after the last poll: the script stops what it started.
GiveUp(s) ==
    /\ At(s, {"start"}, "giveup")
    /\ proc' = Signalled(shell[s].pid)
    /\ Goto(s, "unlink")
    /\ UNCHANGED <<pidFile, port, orphans>>

\* rm -f, then fail for a start and "stopped" for the other two.
Unlink(s) ==
    /\ At(s, Modes, "unlink")
    /\ pidFile' = NoPid
    /\ Exit(s, IF shell[s].mode = "start" THEN "failed" ELSE "stopped")
    /\ UNCHANGED <<proc, port, orphans>>

StatusAlive(s) ==
    /\ At(s, {"status"}, "check") /\ Alive(pidFile)
    /\ Exit(s, "running")
    /\ UNCHANGED <<machine, orphans>>

NothingToStop(s) ==
    /\ At(s, {"stop", "status"}, "check") /\ ~Alive(pidFile)
    /\ Goto(s, "unlink")
    /\ UNCHANGED <<machine, orphans>>

StopAlive(s) ==
    /\ At(s, {"stop"}, "check") /\ Alive(pidFile)
    /\ Goto(s, "kill")
    /\ UNCHANGED <<machine, orphans>>

\* stop_pid "$(<pid_path)" reads the file a second time.
Kill(s) ==
    /\ At(s, {"stop"}, "kill")
    /\ proc' = Signalled(pidFile)
    /\ shell' = [shell EXCEPT ![s].at = "poll", ![s].pid = pidFile]
    /\ UNCHANGED <<pidFile, port, orphans>>

StopWaits(s) ==
    /\ At(s, {"stop"}, "poll") /\ Alive(shell[s].pid)
    /\ NextPoll(s, "verdict")
    /\ UNCHANGED <<machine, orphans>>

StopBreaks(s) ==
    /\ At(s, {"stop"}, "poll") /\ ~Alive(shell[s].pid)
    /\ Goto(s, "verdict")
    /\ UNCHANGED <<machine, orphans>>

\* The last line of stop_pid is `kill -0 pid && fail`: its status is not 0
\* when the process is gone either, and set -e ends the script at the call,
\* before the pid file is removed.
StopVerdict(s) ==
    /\ At(s, {"stop"}, "verdict")
    /\ Exit(s, "failed")
    /\ UNCHANGED <<machine, orphans>>

-----------------------------------------------------------------------------
(* The processes of the machine. *)

Bind(p) ==
    /\ proc[p] = "starting" /\ port = NoPid
    /\ proc' = [proc EXCEPT ![p] = "serving"]
    /\ port' = p
    /\ UNCHANGED <<pidFile, shell, orphans>>

\* An agent that is told to stop while it starts may still listen for the
\* moment until its server is closed (a2aserver/server.go:75-87).
BindLate(p) ==
    /\ proc[p] = "stopping" /\ port = NoPid
    /\ proc' = [proc EXCEPT ![p] = "late"]
    /\ port' = p
    /\ UNCHANGED <<pidFile, shell, orphans>>

\* Some other program takes the port.
OtherBinds(p) ==
    /\ proc[p] = "other" /\ port = NoPid
    /\ port' = p
    /\ UNCHANGED <<pidFile, proc, shell, orphans>>

\* The process ends: before it listens, in a crash, or because it was told to.
Dies(p) ==
    /\ proc[p] # "free"
    /\ proc' = [proc EXCEPT ![p] = "free"]
    /\ port' = IF port = p THEN NoPid ELSE port
    /\ orphans' = orphans \ {p}
    /\ UNCHANGED <<pidFile, shell>>

\* The machine gives a free pid to some other program.
Reused(p) ==
    /\ proc[p] = "free"
    /\ proc' = [proc EXCEPT ![p] = "other"]
    /\ UNCHANGED <<pidFile, port, shell, orphans>>

Start(s) ==
    \/ StartRefused(s) \/ StartAllowed(s) \/ CheckPort(s) \/ BuildFails(s) \/ Spawn(s)
    \/ Record(s) \/ PollDead(s) \/ PollAlive(s) \/ CurlAnswers(s) \/ CurlFails(s) \/ GiveUp(s)

Stop(s) == StopAlive(s) \/ Kill(s) \/ StopWaits(s) \/ StopBreaks(s) \/ StopVerdict(s)

Command(s) ==
    Start(s) \/ Stop(s) \/ StatusAlive(s) \/ NothingToStop(s) \/ Unlink(s) \/ Interrupted(s)

Machine(p) == Bind(p) \/ BindLate(p) \/ OtherBinds(p) \/ Dies(p) \/ Reused(p)

Next ==
    \/ \E s \in Shells : Begin(s) \/ Command(s)
    \/ \E p \in Pids : Machine(p)

Spec == Init /\ [][Next]_vars

-----------------------------------------------------------------------------
(* Properties. *)

\* The variables' ranges.  Nobody who has yet to listen holds the port, what
\* is written to agent.pid is a pid, and a loop counts down from Polls without
\* going below zero.
TypeOK ==
    /\ pidFile \in Pids \cup {NoPid} /\ orphans \subseteq Pids
    /\ proc \in [Pids -> AgentStates \cup {"free", "stopping", "late", "other"}]
    /\ port \in Pids \cup {NoPid}
    /\ port # NoPid => proc[port] \notin {"free", "starting"}
    /\ shell \in [Shells ->
          [mode : Modes, pid : Pids \cup {NoPid}, tries : 0 .. Polls,
           at : {"idle", "check", "port", "build", "record", "poll", "curl", "giveup",
                 "unlink", "kill", "verdict"},
           result : {"none", "ready", "failed", "running", "stopped", "interrupted"}]]
    /\ \A s \in Shells : shell[s].at = "record" => shell[s].pid \in Pids

\* An agent nobody told to stop is the one agent.pid names, or the one a
\* start is still bringing up: stop and status can reach it.  Every removal
\* of the file (lines 346, 357, 397, 410) has to come with a dead or
\* signalled process.  Only a script that ends between the spawn and the
\* printf of line 394 leaves one that nothing names.
AgentsAreFindable ==
    \A p \in Pids : proc[p] \in AgentStates =>
        \/ pidFile = p \/ p \in orphans
        \/ \E s \in Shells : shell[s].mode = "start" /\ shell[s].pid = p
                             /\ shell[s].at \in {"record", "poll", "curl", "giveup"}

\* A start that says "ready" was answered by the agent it started and
\* recorded, not by an older one that still holds the port (line 401 asks
\* the port, not the process).  What no check before the spawn can see is an
\* agent that listens only after it: one told to stop while it started, or
\* one that no pid file names.
ReadyIsTrue ==
    [][\A s \in Shells : (shell[s].at = "curl" /\ shell'[s].result = "ready") =>
          /\ pidFile = shell[s].pid
          /\ port = shell[s].pid \/ proc[port] = "late" \/ port \in orphans]_vars

\* What line 155 says of a failing stop, "pid ... did not stop": a stop that
\* fails did so because its process is still there.
FailedStopDidNotStop ==
    [][\A s \in Shells : (At(s, {"stop"}, "verdict") /\ shell'[s].result = "failed") =>
          Alive(shell[s].pid)]_vars

=============================================================================
