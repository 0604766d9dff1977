----------------------------- MODULE ToolRunner -----------------------------
(***************************************************************************)
(* The run endpoint of the dashboard server: `run_tool_stream' and its     *)
(* generator `event_generator' in client/main.py.                          *)
(*                                                                         *)
(* One asyncio task serves each request.  The code between two awaits (or  *)
(* yields) runs without interruption, so every action of a request below   *)
(* is the code from one suspension point to the next one it reaches, and   *)
(* pc[r] names the suspension point request r is parked at:                *)
(*                                                                         *)
(*   idle   not received yet           begin  accepted, generator not run  *)
(*   spawn  await create_subprocess    poll   await is_disconnected()      *)
(*   read   await readline, 0.1 s      line   parked at the yield of a line*)
(*   term   await wait(), 2 s          kill   await wait() after SIGKILL   *)
(*   last   parked at the final yield  fail   parked at the error yield    *)
(*   reap   await wait() in finally    done   generator finished           *)
(*                                                                         *)
(* The tool's process group (`sudo -n -- <tool>'), the pipe it prints to,  *)
(* the clock and the browser take steps of their own in between.           *)
(***************************************************************************)
EXTENDS Integers, Sequences, FiniteSets

CONSTANTS
    Tools,             \* names a request may ask for
    Configured,        \* the white list TOOL_CONFIGS
    Installed,         \* executable regular files in my_tools/bin
    Requests,          \* HTTP requests that may ever arrive
    MAX_OUTPUT_LINES,
    MAX_OUTPUT_BYTES,
    StreamLimit,       \* longest line StreamReader.readline accepts
    LineSizes,         \* lengths of the lines a tool prints
    PipeCap,           \* lines that fit in the pipe and the reader's buffer
    MaxPrint           \* bound: lines one run of a tool prints

ASSUME ConstantsAssumption ==
    /\ Configured \subseteq Tools
    /\ Installed \subseteq Tools
    /\ IsFiniteSet(Requests)
    /\ MAX_OUTPUT_LINES \in Nat
    /\ MAX_OUTPUT_BYTES \in Nat
    /\ StreamLimit \in Nat
    /\ LineSizes \subseteq Nat \ {0}
    /\ PipeCap \in Nat
    /\ MaxPrint \in Nat

VARIABLES
    canSignal,         \* does the server's user have the right to signal a
                       \* group of root's?  Settled when it is started.
    \* the request and the locals of its generator
    pc, tool, conn, timeUp,
    output_lines, output_bytes, output_truncated,
    outcome,           \* history: how the request ended
    \* the process group of the request and what asyncio knows of it
    proc, returncode, signals, pipe, printed,
    \* TOOL_STATS and the Prometheus registry, shared by all requests
    running, status, tool_running, tool_runs, tool_last_success

reqVars  == <<tool, conn, timeUp>>
outVars  == <<output_lines, output_bytes, output_truncated>>
procVars == <<proc, returncode, pipe, printed>>
lockVars == <<running, tool_running>>
statVars == <<status, tool_runs, tool_last_success>>

vars == <<canSignal, pc, tool, conn, timeUp, output_lines, output_bytes,
          output_truncated, outcome, proc, returncode, signals, pipe, printed,
          running, status, tool_running, tool_runs,
          tool_last_success>>

-----------------------------------------------------------------------------
(* Types and derived state *)

PCs == {"idle", "begin", "spawn", "poll", "read", "line", "term", "kill",
        "last", "fail", "reap", "done"}

\* The generator is between taking the lock and its finally block.
ActivePCs == {"spawn", "poll", "read", "line", "term", "kill", "last", "fail"}

Active(r) == pc[r] \in ActivePCs

Nobody == "no tool"        \* tool[r] before a request is accepted

Outcomes == {"none", "refused", "busy", "success", "error", "cancelled"}

TypeRequest ==
    /\ pc \in [Requests -> PCs]
    /\ tool \in [Requests -> Tools \cup {Nobody}]
    /\ conn \in [Requests -> BOOLEAN]
    /\ timeUp \in [Requests -> BOOLEAN]
    /\ outcome \in [Requests -> Outcomes]

TypeOutput ==
    /\ output_lines \in [Requests -> Nat]
    /\ output_bytes \in [Requests -> Nat]
    /\ output_truncated \in [Requests -> BOOLEAN]

TypeProcess ==
    /\ proc \in [Requests -> {"none", "live", "exited"}]
    /\ returncode \in [Requests -> BOOLEAN]
    /\ signals \in [Requests -> SUBSET {"TERM", "KILL"}]
    /\ pipe \in [Requests -> Seq(LineSizes)]
    /\ printed \in [Requests -> Nat]

TypeShared ==
    /\ running \in [Tools -> {0, 1}]
    /\ status \in [Tools -> {"none", "success", "error"}]
    /\ tool_running \in Int
    /\ tool_runs \in [Tools \X {"success", "error"} -> Nat]
    /\ tool_last_success \in [Tools -> {0, 1}]

\* Every variable of the server and its processes keeps its type; in particular
\* `running' never leaves {0, 1}, whichever requests set and clear it.
TypeOK ==
    /\ canSignal \in BOOLEAN
    /\ TypeRequest /\ TypeOutput /\ TypeProcess /\ TypeShared

Init ==
    /\ canSignal \in BOOLEAN
    /\ pc = [r \in Requests |-> "idle"]
    /\ tool = [r \in Requests |-> Nobody]
    /\ conn = [r \in Requests |-> TRUE]
    /\ timeUp = [r \in Requests |-> FALSE]
    /\ output_lines = [r \in Requests |-> 0]
    /\ output_bytes = [r \in Requests |-> 0]
    /\ output_truncated = [r \in Requests |-> FALSE]
    /\ outcome = [r \in Requests |-> "none"]
    /\ proc = [r \in Requests |-> "none"]
    /\ returncode = [r \in Requests |-> FALSE]
    /\ signals = [r \in Requests |-> {}]
    /\ pipe = [r \in Requests |-> <<>>]
    /\ printed = [r \in Requests |-> 0]
    /\ running = [t \in Tools |-> 0]
    /\ status = [t \in Tools |-> "none"]
    /\ tool_running = 0
    /\ tool_runs = [x \in Tools \X {"success", "error"} |-> 0]
    /\ tool_last_success = [t \in Tools |-> 0]

Goto(r, label) == pc' = [pc EXCEPT ![r] = label]

-----------------------------------------------------------------------------
(* os.killpg on the group of request r.  A group that is gone raises       *)
(* ProcessLookupError, which the code swallows; a group of another user    *)
(* raises PermissionError, which it does not.                              *)

KillAccepted(r) == canSignal \/ proc[r] = "exited"

KillDenied(r) == ~canSignal

-----------------------------------------------------------------------------
(* Pieces of the generator that several suspension points run into         *)

\* The run is reported as a success, then the generator parks at the yield.
Finish(r) ==
    /\ tool_runs' = [tool_runs EXCEPT ![<<tool[r], "success">>] = @ + 1]
    /\ tool_last_success' = [tool_last_success EXCEPT ![tool[r]] = 1]
    /\ status' = [status EXCEPT ![tool[r]] = "success"]
    /\ outcome' = [outcome EXCEPT ![r] = "success"]
    /\ Goto(r, "last")
    /\ UNCHANGED <<lockVars, signals>>

\* `except Exception': the run is reported as an error.  (Besides signals and the
\* reading of lines, parsing the output may raise, say on an integer that is too
\* large for a float.)
Fail(r) ==
    /\ tool_runs' = [tool_runs EXCEPT ![<<tool[r], "error">>] = @ + 1]
    /\ tool_last_success' = [tool_last_success EXCEPT ![tool[r]] = 0]
    /\ status' = [status EXCEPT ![tool[r]] = "error"]
    /\ outcome' = [outcome EXCEPT ![r] = "error"]
    /\ Goto(r, "fail")
    /\ UNCHANGED <<lockVars, signals>>

\* The read loop was left: SIGTERM the group unless its exit is known.
StopTool(r) ==
    \/ returncode[r] /\ (Finish(r) \/ Fail(r))
    \/ /\ ~returncode[r]
       /\ KillAccepted(r)
       /\ signals' = [signals EXCEPT ![r] = @ \cup {"TERM"}]
       /\ Goto(r, "term")
       /\ UNCHANGED <<lockVars, statVars, outcome>>
    \/ ~returncode[r] /\ KillDenied(r) /\ Fail(r)

\* Faulty variant of Finally: the group is left alone.
FinallyNoKill(r) ==
    /\ running' = [running EXCEPT ![tool[r]] = 0]
    /\ tool_running' = tool_running - 1
    /\ Goto(r, IF proc[r] = "none" \/ returncode[r] THEN "done" ELSE "reap")
    /\ UNCHANGED signals

\* Faulty variant of Finally: the gauge is decremented only after a kill.
FinallyLateDec(r) ==
    /\ running' = [running EXCEPT ![tool[r]] = 0]
    /\ IF proc[r] = "none" \/ returncode[r]
       THEN Goto(r, "done") /\ UNCHANGED <<signals, tool_running>>
       ELSE /\ tool_running' = tool_running - 1
            /\ signals' = [signals EXCEPT ![r] = @ \cup {"KILL"}]
            /\ Goto(r, "reap")

\* `finally': release the lock, then SIGKILL the group if its exit is not
\* known.  A refused killpg leaves the generator with an exception.
Finally(r) ==
    /\ running' = [running EXCEPT ![tool[r]] = 0]
    /\ tool_running' = tool_running - 1
    /\ \/ /\ proc[r] = "none" \/ returncode[r]
          /\ Goto(r, "done")
          /\ UNCHANGED signals
       \/ /\ proc[r] # "none" /\ ~returncode[r]
          /\ KillAccepted(r)
          /\ signals' = [signals EXCEPT ![r] = @ \cup {"KILL"}]
          /\ Goto(r, "reap")
       \/ /\ proc[r] # "none" /\ ~returncode[r]
          /\ KillDenied(r)
          /\ Goto(r, "done")
          /\ UNCHANGED signals

-----------------------------------------------------------------------------
(* The request before its generator runs *)

\* `run_tool_stream' validates the duration and the tool name.
Accept(r, t) ==
    /\ pc[r] = "idle"
    /\ t \in Configured \cap Installed
    /\ tool' = [tool EXCEPT ![r] = t]
    /\ Goto(r, "begin")
    /\ UNCHANGED <<conn, timeUp, outVars, outcome, procVars, signals,
                   lockVars, statVars>>

\* HTTP 400/404/422: an unknown tool, or a duration out of range.
Refuse(r) ==
    /\ pc[r] = "idle"
    /\ outcome' = [outcome EXCEPT ![r] = "refused"]
    /\ Goto(r, "done")
    /\ UNCHANGED <<reqVars, outVars, procVars, signals, lockVars, statVars>>

\* Faulty variant of Begin: the lock is taken whatever its state.
BeginUnchecked(r) ==
    /\ pc[r] = "begin"
    /\ running' = [running EXCEPT ![tool[r]] = 1]
    /\ tool_running' = tool_running + 1
    /\ Goto(r, "spawn")
    /\ UNCHANGED <<reqVars, outVars, outcome, procVars, signals, statVars>>

\* Faulty variant of Begin: `running' counts the runs instead of marking one.
BeginCounting(r) ==
    /\ pc[r] = "begin"
    /\ running' = [running EXCEPT ![tool[r]] = @ + 1]
    /\ tool_running' = tool_running + 1
    /\ Goto(r, "spawn")
    /\ UNCHANGED <<reqVars, outVars, outcome, procVars, signals, statVars>>

\* The generator starts: the check and the set of the lock are one step.
Begin(r) ==
    /\ pc[r] = "begin"
    /\ \/ /\ running[tool[r]] = 1
          /\ outcome' = [outcome EXCEPT ![r] = "busy"]
          /\ Goto(r, "done")
          /\ UNCHANGED lockVars
       \/ /\ running[tool[r]] = 0
          /\ running' = [running EXCEPT ![tool[r]] = 1]
          /\ tool_running' = tool_running + 1
          /\ Goto(r, "spawn")
          /\ UNCHANGED outcome
    /\ UNCHANGED <<reqVars, outVars, procVars, signals, statVars>>

-----------------------------------------------------------------------------
(* The run *)

SpawnOk(r) ==
    /\ pc[r] = "spawn"
    /\ proc' = [proc EXCEPT ![r] = "live"]
    /\ Goto(r, "poll")
    /\ UNCHANGED <<reqVars, outVars, outcome, returncode, pipe, printed,
                   signals, lockVars, statVars>>

\* sudo is missing, or fork fails.
SpawnFail(r) ==
    /\ pc[r] = "spawn"
    /\ Fail(r)
    /\ UNCHANGED <<reqVars, outVars, procVars>>

\* is_disconnected() says no (it may not have heard yet): time check, then
\* either leave the loop or wait for a line.
Poll(r) ==
    /\ pc[r] = "poll"
    /\ \/ timeUp[r] /\ StopTool(r)
       \/ /\ ~timeUp[r]
          /\ Goto(r, "read")
          /\ UNCHANGED <<signals, lockVars, statVars, outcome>>
    /\ UNCHANGED <<reqVars, outVars, procVars>>

Fits(r, size) ==
    /\ output_lines[r] < MAX_OUTPUT_LINES
    /\ output_bytes[r] + size <= MAX_OUTPUT_BYTES

\* Faulty variant of ReadLine: the size of the line itself is not part of the
\* comparison with the byte limit.
ReadLineLateCheck(r) ==
    /\ pc[r] = "read"
    /\ pipe[r] # <<>>
    /\ Head(pipe[r]) <= StreamLimit
    /\ pipe' = [pipe EXCEPT ![r] = Tail(@)]
    /\ \/ /\ Fits(r, 0)
          /\ output_lines' = [output_lines EXCEPT ![r] = @ + 1]
          /\ output_bytes' = [output_bytes EXCEPT ![r] = @ + Head(pipe[r])]
          /\ Goto(r, "line")
          /\ UNCHANGED output_truncated
       \/ /\ ~Fits(r, 0)
          /\ output_truncated' = [output_truncated EXCEPT ![r] = TRUE]
          /\ Goto(r, IF output_truncated[r] THEN "poll" ELSE "line")
          /\ UNCHANGED <<output_lines, output_bytes>>
    /\ UNCHANGED <<reqVars, outcome, proc, returncode, printed, signals,
                   lockVars, statVars>>

\* readline() returned a line: log and yield it, or yield the truncation
\* notice once, or drop it.
ReadLine(r) ==
    /\ pc[r] = "read"
    /\ pipe[r] # <<>>
    /\ Head(pipe[r]) <= StreamLimit
    /\ pipe' = [pipe EXCEPT ![r] = Tail(@)]
    /\ \/ /\ Fits(r, Head(pipe[r]))
          /\ output_lines' = [output_lines EXCEPT ![r] = @ + 1]
          /\ output_bytes' = [output_bytes EXCEPT ![r] = @ + Head(pipe[r])]
          /\ Goto(r, "line")
          /\ UNCHANGED output_truncated
       \/ /\ ~Fits(r, Head(pipe[r]))
          /\ output_truncated' = [output_truncated EXCEPT ![r] = TRUE]
          /\ Goto(r, IF output_truncated[r] THEN "poll" ELSE "line")
          /\ UNCHANGED <<output_lines, output_bytes>>
    /\ UNCHANGED <<reqVars, outcome, proc, returncode, printed, signals,
                   lockVars, statVars>>

\* readline() raises ValueError on a line longer than its limit.
ReadError(r) ==
    /\ pc[r] = "read"
    /\ pipe[r] # <<>>
    /\ Head(pipe[r]) > StreamLimit
    /\ pipe' = [pipe EXCEPT ![r] = Tail(@)]
    /\ Fail(r)
    /\ UNCHANGED <<reqVars, outVars, proc, returncode, printed>>

\* Faulty variant of ReadEOF: a known exit code ends the loop at once.
ReadEOFEarly(r) ==
    /\ pc[r] = "read"
    /\ proc[r] = "exited"
    /\ StopTool(r)
    /\ UNCHANGED <<reqVars, outVars, procVars>>

\* readline() returned b"": every writer of the pipe is gone.
ReadEOF(r) ==
    /\ pc[r] = "read"
    /\ pipe[r] = <<>>
    /\ proc[r] = "exited"
    /\ StopTool(r)
    /\ UNCHANGED <<reqVars, outVars, procVars>>

\* 0.1 s without a line.
ReadTimeout(r) ==
    /\ pc[r] = "read"
    /\ \/ timeUp[r] /\ StopTool(r)
       \/ /\ ~timeUp[r]
          /\ Goto(r, "poll")
          /\ UNCHANGED <<signals, lockVars, statVars, outcome>>
    /\ UNCHANGED <<reqVars, outVars, procVars>>

\* EventSourceResponse has sent the event and asks for the next one.
Resume(r) ==
    /\ pc[r] = "line"
    /\ Goto(r, "poll")
    /\ UNCHANGED <<reqVars, outVars, outcome, procVars, signals, lockVars,
                   statVars>>

\* process.wait() returned, within the 2 s or after the SIGKILL.
WaitDone(r) ==
    /\ pc[r] \in {"term", "kill"}
    /\ returncode[r]
    /\ Finish(r) \/ Fail(r)
    /\ UNCHANGED <<reqVars, outVars, procVars>>

\* Faulty variant of TermTimeout: a tool that must be killed is an error.
TermTimeoutIsError(r) ==
    /\ pc[r] = "term"
    /\ signals' = [signals EXCEPT ![r] = @ \cup {"KILL"}]
    /\ tool_runs' = [tool_runs EXCEPT ![<<tool[r], "error">>] = @ + 1]
    /\ Goto(r, "kill")
    /\ UNCHANGED <<reqVars, outVars, procVars, outcome, lockVars, status,
                   tool_last_success>>

\* Faulty variant of TermTimeout: SIGTERM is sent again, never SIGKILL.
TermTimeoutAgain(r) ==
    /\ pc[r] = "term"
    /\ Goto(r, "kill")
    /\ UNCHANGED <<reqVars, outVars, procVars, outcome, signals, lockVars,
                   statVars>>

\* 2 s after SIGTERM the process is still there (as far as asyncio knows).
TermTimeout(r) ==
    /\ pc[r] = "term"
    /\ \/ /\ KillAccepted(r)
          /\ signals' = [signals EXCEPT ![r] = @ \cup {"KILL"}]
          /\ Goto(r, "kill")
          /\ UNCHANGED <<lockVars, statVars, outcome>>
       \/ KillDenied(r) /\ Fail(r)
    /\ UNCHANGED <<reqVars, outVars, procVars>>

\* The final event has been sent; the generator runs into its finally block.
Close(r) ==
    /\ pc[r] \in {"last", "fail"}
    /\ Finally(r)
    /\ UNCHANGED <<reqVars, outVars, outcome, procVars, statVars>>

\* process.wait() of the finally block returned.
Reap(r) ==
    /\ pc[r] = "reap"
    /\ returncode[r]
    /\ Goto(r, "done")
    /\ UNCHANGED <<reqVars, outVars, outcome, procVars, signals, lockVars,
                   statVars>>

-----------------------------------------------------------------------------
(* Disconnection.  EventSourceResponse cancels its task group, which raises *)
(* CancelledError at the await (GeneratorExit at the yield) the generator   *)
(* is parked at; is_disconnected() may report it first.  Neither is an      *)
(* Exception, so only the finally block runs.                               *)

CancelledOutcome(r) ==
    IF outcome[r] = "none" THEN [outcome EXCEPT ![r] = "cancelled"] ELSE outcome

\* The generator was never started, or awaits the reaping in its finally.
CancelOutside(r) ==
    /\ ~conn[r]
    /\ pc[r] \in {"begin", "reap"}
    /\ outcome' = CancelledOutcome(r)
    /\ Goto(r, "done")
    /\ UNCHANGED <<reqVars, outVars, procVars, signals, lockVars, statVars>>

\* create_subprocess_exec is cancelled before it returned: `process' is still
\* None, and asyncio itself kills a child it had already started (it ignores
\* a PermissionError).  The child is sudo, a moment after its fork, which is taken
\* to have no process below it yet.
CancelSpawn(r) ==
    /\ ~conn[r]
    /\ pc[r] = "spawn"
    /\ running' = [running EXCEPT ![tool[r]] = 0]
    /\ tool_running' = tool_running - 1
    /\ \/ UNCHANGED <<proc, signals>>
       \/ /\ proc' = [proc EXCEPT ![r] = "live"]
          /\ signals' = [signals EXCEPT ![r] =
                           IF canSignal THEN {"KILL"} ELSE {}]
    /\ outcome' = CancelledOutcome(r)
    /\ Goto(r, "done")
    /\ UNCHANGED <<reqVars, outVars, returncode, pipe, printed, statVars>>

Cancel(r) ==
    /\ ~conn[r]
    /\ Active(r) /\ pc[r] # "spawn"
    /\ Finally(r)
    /\ outcome' = CancelledOutcome(r)
    /\ UNCHANGED <<reqVars, outVars, procVars, statVars>>

-----------------------------------------------------------------------------
(* The environment: browser, clock, tool process, asyncio's child watcher *)

Disconnect(r) ==
    /\ pc[r] \notin {"idle", "done"}
    /\ conn[r]
    /\ conn' = [conn EXCEPT ![r] = FALSE]
    /\ UNCHANGED <<pc, tool, timeUp, outVars, outcome, procVars, signals,
                   lockVars, statVars>>

\* `duration' seconds have passed since start_time.
Elapse(r) ==
    /\ Active(r)
    /\ ~timeUp[r]
    /\ timeUp' = [timeUp EXCEPT ![r] = TRUE]
    /\ UNCHANGED <<pc, tool, conn, outVars, outcome, procVars, signals,
                   lockVars, statVars>>

\* The tool blocks in write(2) while the pipe is full.
PrintLine(r, size) ==
    /\ proc[r] = "live"
    /\ printed[r] < MaxPrint
    /\ Len(pipe[r]) < PipeCap
    /\ pipe' = [pipe EXCEPT ![r] = Append(@, size)]
    /\ printed' = [printed EXCEPT ![r] = @ + 1]
    /\ UNCHANGED <<pc, reqVars, outVars, outcome, proc, returncode,
                   signals, lockVars, statVars>>

\* The exit status is left out: the generator never looks at it.
Die(r) ==
    /\ proc[r] = "live"
    /\ proc' = [proc EXCEPT ![r] = "exited"]
    /\ UNCHANGED <<pc, reqVars, outVars, outcome, returncode, pipe, printed,
                   signals, lockVars, statVars>>

\* sudo or the loader gives up by itself: `return err', no password, ...
ExitSelf(r) == Die(r)

\* A loader with a handler returns 0, one without dies of the signal.  One
\* that is blocked in write(2), or ignores the signal, may never do either.
DieOnTerm(r) == "TERM" \in signals[r] /\ Die(r)

DieOnKill(r) == "KILL" \in signals[r] /\ Die(r)

\* asyncio learns of the exit and sets process.returncode.
Observe(r) ==
    /\ proc[r] = "exited"
    /\ ~returncode[r]
    /\ returncode' = [returncode EXCEPT ![r] = TRUE]
    /\ UNCHANGED <<pc, reqVars, outVars, outcome, proc, pipe, printed,
                   signals, lockVars, statVars>>

-----------------------------------------------------------------------------
\* What the generator does by itself, except sending an event to the browser.
ServerStep(r) ==
    \/ Begin(r) \/ SpawnOk(r) \/ SpawnFail(r) \/ Poll(r)
    \/ ReadLine(r) \/ ReadError(r) \/ ReadEOF(r) \/ ReadTimeout(r)
    \/ WaitDone(r) \/ TermTimeout(r) \/ Reap(r)

\* Sending an event, which needs the browser to take it.
SendStep(r) == Resume(r) \/ Close(r)

CancelStep(r) == CancelOutside(r) \/ CancelSpawn(r) \/ Cancel(r)

ProcessStep(r) ==
    \/ \E size \in LineSizes : PrintLine(r, size)
    \/ ExitSelf(r) \/ DieOnTerm(r) \/ DieOnKill(r) \/ Observe(r)

Next ==
    /\ UNCHANGED canSignal
    /\ \E r \in Requests :
        \/ \E t \in Tools : Accept(r, t)
        \/ Refuse(r)
        \/ ServerStep(r)
        \/ SendStep(r)
        \/ CancelStep(r)
        \/ ProcessStep(r)
        \/ Disconnect(r)
        \/ Elapse(r)

Spec == Init /\ [][Next]_vars

\* The event loop keeps running ready tasks, timers fire, SIGKILL works and
\* exits are noticed.  Nothing is assumed of tools (they may hang) nor of the
\* browser.
Fairness ==
    \A r \in Requests :
        /\ WF_vars(ServerStep(r) /\ UNCHANGED canSignal)
        /\ WF_vars(CancelStep(r) /\ UNCHANGED canSignal)
        /\ WF_vars(Elapse(r) /\ UNCHANGED canSignal)
        /\ WF_vars(DieOnKill(r) /\ UNCHANGED canSignal)
        /\ WF_vars(Observe(r) /\ UNCHANGED canSignal)

\* A browser that keeps reading its stream.
ReadingBrowser == \A r \in Requests : WF_vars(SendStep(r) /\ UNCHANGED canSignal)

FairSpec == Spec /\ Fairness /\ ReadingBrowser

-----------------------------------------------------------------------------
(* Safety *)

\* The lock of a tool is held exactly while one request is between the check
\* and the finally block, and never by two: the comment before the check asks
\* for it ("no await between the check and the set").
Exclusive ==
    \A t \in Tools :
        LET holders == {r \in Requests : Active(r) /\ tool[r] = t}
        IN  /\ (running[t] = 1) <=> (holders # {})
            /\ \A r, s \in holders : r = s

\* The gauge my_tools_tool_running equals the number of runs in progress,
\* whichever of the ways out of the generator each of them takes.
GaugeExact == tool_running = Cardinality({r \in Requests : Active(r)})

\* Once a generator of a server that may signal its children is past its finally
\* block, the process group is gone or has a SIGKILL on the way: no tool keeps
\* running as root unattended.
NoOrphan ==
    \A r \in Requests :
        canSignal /\ pc[r] \in {"reap", "done"} /\ proc[r] = "live"
            => "KILL" \in signals[r]

Ended(t, result) == {r \in Requests : tool[r] = t /\ outcome[r] = result}

\* The run counter counts every completed run once under its own outcome,
\* and a cancelled, refused or rejected request not at all.
RunsCountedOnce ==
    \A t \in Tools, result \in {"success", "error"} :
        tool_runs[<<t, result>>] = Cardinality(Ended(t, result))

\* Every line taken from the pipe is in the log or announced as truncated,
\* and a run that succeeds before its time limit has drained the pipe.
OutputAccounted ==
    \A r \in Requests :
        LET taken == printed[r] - Len(pipe[r])
        IN  /\ outcome[r] # "error" =>
                  (output_truncated[r] <=> taken > output_lines[r])
            /\ outcome[r] = "success" /\ ~timeUp[r] => pipe[r] = <<>>

\* The log stays within both limits.
OutputBounded ==
    \A r \in Requests :
        /\ output_lines[r] <= MAX_OUTPUT_LINES
        /\ output_bytes[r] <= MAX_OUTPUT_BYTES

-----------------------------------------------------------------------------
(* Refinement *)

\* What a request looks like from outside: see RunLedger.
PhaseOf(r) ==
    IF pc[r] \in {"idle", "begin"} THEN "waiting"
    ELSE IF pc[r] \in {"last", "fail"} THEN "reported"
    ELSE IF Active(r) THEN "running"
    ELSE "over"

JobOf(r) == IF Active(r) THEN tool[r] ELSE Nobody

Ledger == INSTANCE RunLedger WITH
    phase   <- [r \in Requests |-> PhaseOf(r)],
    job     <- [r \in Requests |-> JobOf(r)],
    counted <- tool_runs

\* The generator with its suspension points, cancellations and failing calls
\* implements the ledger: a tool is never handed out twice, and a run is
\* counted at most once, under its own tool, before the tool is handed on.
ImplementsLedger == Ledger!Spec

-----------------------------------------------------------------------------
(* Liveness *)

\* A run that has taken the lock ends, even if the tool is stuck in write(2)
\* on a full pipe that nobody reads while the server awaits its exit.
RunEnds == \A r \in Requests : pc[r] = "spawn" ~> pc[r] = "done"

\* Every process started by a server that may signal it is gone in the end.
ProcessGone ==
    \A r \in Requests : (canSignal /\ proc[r] = "live") ~> (proc[r] = "exited")

-----------------------------------------------------------------------------
(* What the documentation says and the code does not do: each of these is   *)
(* violated (see the README of this directory).                             *)

\* client/main.py:217: the lock exists to rule out "concurrent duplicate runs"
\* of a tool, so no two unfinished requests have a live process of one tool.
OneProcessPerTool ==
    canSignal =>
        \A r, s \in {q \in Requests : proc[q] = "live" /\ pc[q] # "done"} :
            r # s => tool[r] # tool[s]

\* client/README.md:162 and :164: the server is run by a user who needs sudo, and
\* signals the process group at the end of a run; so no tool is left running.
NoneLeftRunning ==
    \A r \in Requests :
        pc[r] \in {"reap", "done"} /\ proc[r] = "live" => "KILL" \in signals[r]

=============================================================================
