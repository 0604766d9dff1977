----------------------------- MODULE RunLedger ------------------------------
(***************************************************************************)
(* What the run endpoint promises, without processes, pipes, signals or    *)
(* suspension points: a request waits, then either is declined or gets a   *)
(* tool to itself; a run may be entered once in the counter of completed   *)
(* runs, under its own tool, and only then or never; then the tool is free *)
(* again.  ToolRunner implements this (ToolRunner!ImplementsLedger).       *)
(***************************************************************************)
EXTENDS Naturals

CONSTANTS Tools, Requests, Nobody

VARIABLES
    phase,      \* of each request
    job,        \* the tool a request has to itself, if any
    counted     \* completed runs by tool and outcome

vars == <<phase, job, counted>>

InProgress == {"running", "reported"}

Free(t) == \A r \in Requests : phase[r] \in InProgress => job[r] # t

Init ==
    /\ phase = [r \in Requests |-> "waiting"]
    /\ job = [r \in Requests |-> Nobody]
    /\ counted = [x \in Tools \X {"success", "error"} |-> 0]

\* A request gets a tool that no other request has.
Take(r, t) ==
    /\ phase[r] = "waiting"
    /\ Free(t)
    /\ phase' = [phase EXCEPT ![r] = "running"]
    /\ job' = [job EXCEPT ![r] = t]
    /\ UNCHANGED counted

\* The run is counted, once, while its request still has the tool.
Report(r, result) ==
    /\ phase[r] = "running"
    /\ phase' = [phase EXCEPT ![r] = "reported"]
    /\ counted' = [counted EXCEPT ![<<job[r], result>>] = @ + 1]
    /\ UNCHANGED job

\* The tool is given back; a run that was not counted by now never will be.
Release(r) ==
    /\ phase[r] \in InProgress
    /\ phase' = [phase EXCEPT ![r] = "over"]
    /\ job' = [job EXCEPT ![r] = Nobody]
    /\ UNCHANGED counted

\* Unknown tool, tool in use, or a browser that went away before the start.
Decline(r) ==
    /\ phase[r] = "waiting"
    /\ phase' = [phase EXCEPT ![r] = "over"]
    /\ UNCHANGED <<job, counted>>

Next ==
    \E r \in Requests :
        \/ \E t \in Tools : Take(r, t)
        \/ \E result \in {"success", "error"} : Report(r, result)
        \/ Release(r)
        \/ Decline(r)

Spec == Init /\ [][Next]_vars

=============================================================================
