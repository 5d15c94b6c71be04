------------------------------ MODULE McpRelay ------------------------------
(***************************************************************************)
(* What a caller of defimcp.Client.Call may rely on, said without the      *)
(* mutex, the session, the reconnect or the service's life.  Every call    *)
(* ends in one of three ways:                                              *)
(*   refused   the service has not run the tool and never will,            *)
(*   answered  the service has run it, and a run of it was no tool error,  *)
(*   failed    nothing is known: the service may have run it, with a tool  *)
(*             error or without, or may still run it after the caller has  *)
(*             been told.                                                  *)
(* A tool runs at most Limit(n) times: twice only for the tools that       *)
(* retrySafeTool lets through, and once for a write.                       *)
(***************************************************************************)
EXTENDS Naturals

CONSTANTS Calls,        \* call slots: concurrent users of Client.Call
          Names,        \* the tool names a caller may ask for
          RetrySafe,    \* those retrySafeTool accepts
          NoTool        \* the name of a slot that is not in use

VARIABLES tool,         \* tool[c]: the name call c asked for
          status,       \* status[c]: how far the call is
          runs,         \* runs[c]: how often the service ran it
          worked        \* worked[c]: a run of it was no tool error

absvars == <<tool, status, runs, worked>>

AbsStatus == {"idle", "open", "refused", "answered", "failed"}

Limit(n) == IF n \in RetrySafe THEN 2 ELSE 1

AbsInit ==
    /\ tool   = [c \in Calls |-> NoTool]
    /\ status = [c \in Calls |-> "idle"]
    /\ runs   = [c \in Calls |-> 0]
    /\ worked = [c \in Calls |-> FALSE]

Ask(c, n) ==
    /\ status[c] = "idle"
    /\ tool'   = [tool EXCEPT ![c] = n]
    /\ status' = [status EXCEPT ![c] = "open"]
    /\ UNCHANGED <<runs, worked>>

\* The service runs the tool, which works or reports an error; it may do so
\* after the call has ended.
Run(c) ==
    /\ status[c] \in {"open", "answered", "failed"}
    /\ runs[c] < Limit(tool[c])
    /\ runs' = [runs EXCEPT ![c] = @ + 1]
    /\ \E works \in BOOLEAN : worked' = [worked EXCEPT ![c] = @ \/ works]
    /\ UNCHANGED <<tool, status>>

Refuse(c) ==
    /\ status[c] = "open" /\ runs[c] = 0
    /\ status' = [status EXCEPT ![c] = "refused"]
    /\ UNCHANGED <<tool, runs, worked>>

Answered(c) ==
    /\ status[c] = "open" /\ worked[c]
    /\ status' = [status EXCEPT ![c] = "answered"]
    /\ UNCHANGED <<tool, runs, worked>>

Fail(c) ==
    /\ status[c] = "open"
    /\ status' = [status EXCEPT ![c] = "failed"]
    /\ UNCHANGED <<tool, runs, worked>>

\* The agent's process dies: every open call is lost to its caller.
FailAll ==
    /\ status' = [c \in Calls |-> IF status[c] = "open" THEN "failed" ELSE status[c]]
    /\ UNCHANGED <<tool, runs, worked>>

Leave(c) ==
    /\ status[c] \in {"refused", "answered", "failed"}
    /\ tool'   = [tool EXCEPT ![c] = NoTool]
    /\ status' = [status EXCEPT ![c] = "idle"]
    /\ runs'   = [runs EXCEPT ![c] = 0]
    /\ worked' = [worked EXCEPT ![c] = FALSE]

AbsNext ==
    \/ \E c \in Calls :
          \/ \E n \in Names : Ask(c, n)
          \/ Run(c) \/ Refuse(c) \/ Answered(c) \/ Fail(c) \/ Leave(c)
    \/ FailAll

AbsSpec == AbsInit /\ [][AbsNext]_absvars
=============================================================================
