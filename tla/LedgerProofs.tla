---------------------------- MODULE LedgerProofs ----------------------------
(***************************************************************************)
(* The run endpoint implements the run ledger, for any tools and requests. *)
(***************************************************************************)
EXTENDS ToolRunnerProofs

Phases == [r \in Requests |-> PhaseOf(r)]
Jobs   == [r \in Requests |-> JobOf(r)]

\* A step that moves request r between two labels of one phase, keeps its job
\* and counts nothing, is a stuttering step of the ledger.
LEMMA LedgerStutter ==
  ASSUME TypeOK, NEW r \in Requests, NEW label \in PCs, Goto(r, label),
         UNCHANGED <<tool, tool_runs>>,
         PhaseOf(r)' = PhaseOf(r)
  PROVE  UNCHANGED Ledger!vars
<1>1. \A q \in Requests : PhaseOf(q)' = PhaseOf(q)
  BY DEF Goto, TypeOK, TypeRequest, PhaseOf, Active, ActivePCs
<1>2. \A q \in Requests : JobOf(q)' = JobOf(q)
  BY <1>1 DEF Goto, TypeOK, TypeRequest, PhaseOf, JobOf, Active, ActivePCs, PCs
<1>3. QED
  BY <1>1, <1>2 DEF Ledger!vars

\* Reporting is a step of the ledger, from every suspension point that may
\* run into it.
LEMMA LedgerReport ==
  ASSUME TypeOK, NEW r \in Requests, Active(r), pc[r] \notin {"last", "fail"},
         UNCHANGED tool, Finish(r) \/ Fail(r)
  PROVE  \E result \in {"success", "error"} : Ledger!Report(r, result)
<1>1. PICK result \in {"success", "error"} :
         tool_runs' = [tool_runs EXCEPT ![<<tool[r], result>>] = @ + 1]
  BY DEF Finish, Fail
<1>2. PICK label \in {"last", "fail"} : pc' = [pc EXCEPT ![r] = label]
  BY DEF Finish, Fail, Goto
<1>3. PhaseOf(r) = "running" /\ PhaseOf(r)' = "reported"
  BY <1>2 DEF PhaseOf, Active, ActivePCs, TypeOK, TypeRequest
<1>4. \A q \in Requests \ {r} : PhaseOf(q)' = PhaseOf(q)
  BY <1>2 DEF PhaseOf, Active, TypeOK, TypeRequest
<1>5. \A q \in Requests : JobOf(q)' = JobOf(q)
  BY <1>2 DEF JobOf, Active, ActivePCs, TypeOK, TypeRequest
<1>6. Phases' = [Phases EXCEPT ![r] = "reported"]
  BY <1>3, <1>4 DEF Phases
<1>7. Jobs' = Jobs
  BY <1>5 DEF Jobs
<1>8. Phases[r] = "running" /\ Jobs[r] = tool[r]
  BY <1>3 DEF Phases, Jobs, JobOf
<1>9. Ledger!Report(r, result)
  BY <1>1, <1>6, <1>7, <1>8 DEF Ledger!Report, Phases, Jobs
<1>10. QED
  BY <1>9

\* Taking the lock hands out a tool that nobody has.
LEMMA LedgerTake ==
  ASSUME TypeOK, LockInv, NEW r \in Requests, Take(r), UNCHANGED tool_runs
  PROVE  Ledger!Take(r, tool[r])
<1>1. pc[r] = "begin" /\ pc' = [pc EXCEPT ![r] = "spawn"] /\ tool' = tool
  BY DEF Take, Goto
<1>2. \A q \in Requests : Active(q) => tool[q] # tool[r]
  BY DEF Take, LockInv
<1>3. \A q \in Requests \ {r} : /\ PhaseOf(q)' = PhaseOf(q)
                                /\ JobOf(q)' = JobOf(q)
  BY <1>1 DEF PhaseOf, JobOf, Active, TypeOK, TypeRequest
<1>4. /\ PhaseOf(r) = "waiting" /\ PhaseOf(r)' = "running"
      /\ JobOf(r)' = tool[r]
  BY <1>1 DEF PhaseOf, JobOf, Active, ActivePCs, TypeOK, TypeRequest
<1>5. Phases' = [Phases EXCEPT ![r] = "running"]
  BY <1>3, <1>4 DEF Phases
<1>6. Jobs' = [Jobs EXCEPT ![r] = tool[r]]
  BY <1>3, <1>4 DEF Jobs
<1>7. \A q \in Requests :
         PhaseOf(q) \in {"running", "reported"} => JobOf(q) # tool[r]
  BY <1>2 DEF PhaseOf, JobOf, Active, ActivePCs
<1>8. Ledger!Free(tool[r])
  BY <1>7 DEF Ledger!Free, Ledger!InProgress
<1>9. Phases[r] = "waiting"
  BY <1>4 DEF Phases
<1>10. QED
  BY <1>5, <1>6, <1>8, <1>9 DEF Ledger!Take, Phases, Jobs

\* Every way through a finally block gives the tool back.
LEMMA LedgerRelease ==
  ASSUME TypeOK, NEW r \in Requests, Drop(r), UNCHANGED tool_runs
  PROVE  Ledger!Release(r)
<1>1. PICK label \in {"reap", "done"} : pc' = [pc EXCEPT ![r] = label]
  BY DEF Drop, Goto
<1>2. Active(r) /\ tool' = tool
  BY DEF Drop
<1>3. \A q \in Requests \ {r} : /\ PhaseOf(q)' = PhaseOf(q)
                                /\ JobOf(q)' = JobOf(q)
  BY <1>1, <1>2 DEF PhaseOf, JobOf, Active, TypeOK, TypeRequest
<1>4. /\ PhaseOf(r) \in {"running", "reported"} /\ PhaseOf(r)' = "over"
      /\ JobOf(r)' = Nobody
  BY <1>1, <1>2 DEF PhaseOf, JobOf, Active, ActivePCs, TypeOK, TypeRequest
<1>5. Phases' = [Phases EXCEPT ![r] = "over"]
  BY <1>3, <1>4 DEF Phases
<1>6. Jobs' = [Jobs EXCEPT ![r] = Nobody]
  BY <1>3, <1>4 DEF Jobs
<1>7. Phases[r] \in {"running", "reported"}
  BY <1>4 DEF Phases
<1>8. QED
  BY <1>5, <1>6, <1>7 DEF Ledger!Release, Ledger!InProgress, Phases, Jobs

\* A request that ends without having taken a lock is declined.
LEMMA LedgerDecline ==
  ASSUME TypeOK, NEW r \in Requests, pc[r] \in {"idle", "begin"}, Goto(r, "done"),
         UNCHANGED <<tool, tool_runs>>
  PROVE  Ledger!Decline(r)
<1>1. pc' = [pc EXCEPT ![r] = "done"]
  BY DEF Goto
<1>2. \A q \in Requests \ {r} : PhaseOf(q)' = PhaseOf(q)
  BY <1>1 DEF PhaseOf, Active, TypeOK, TypeRequest
<1>3. PhaseOf(r) = "waiting" /\ PhaseOf(r)' = "over"
  BY <1>1 DEF PhaseOf, Active, ActivePCs, TypeOK, TypeRequest
<1>4. \A q \in Requests : JobOf(q)' = JobOf(q)
  BY <1>1 DEF JobOf, Active, ActivePCs, TypeOK, TypeRequest
<1>5. Phases' = [Phases EXCEPT ![r] = "over"] /\ Jobs' = Jobs
  BY <1>2, <1>3, <1>4 DEF Phases, Jobs
<1>6. Phases[r] = "waiting"
  BY <1>3 DEF Phases
<1>7. QED
  BY <1>5, <1>6 DEF Ledger!Decline, Phases, Jobs

\* Every step of the server, or of its environment, is a step of the ledger or
\* leaves it alone.
LEMMA LedgerStep ==
  ASSUME TypeOK, LockInv, [Next]_vars
  PROVE  [Ledger!Next]_(Ledger!vars)
<1> USE DEF PCs, Active, ActivePCs
<1>1. UNCHANGED <<pc, tool, tool_runs>> => UNCHANGED Ledger!vars
  BY DEF Ledger!vars, PhaseOf, JobOf
<1>2. ASSUME NEW r \in Requests, NEW t \in Tools, Accept(r, t)
      PROVE  UNCHANGED Ledger!vars
  <2>1. pc[r] = "idle" /\ pc' = [pc EXCEPT ![r] = "begin"]
        /\ tool' = [tool EXCEPT ![r] = t] /\ tool_runs' = tool_runs
    BY <1>2 DEF Accept, Goto, statVars
  <2>2. \A q \in Requests : PhaseOf(q)' = PhaseOf(q) /\ JobOf(q)' = JobOf(q)
    BY <2>1 DEF PhaseOf, JobOf, TypeOK, TypeRequest
  <2>3. QED
    BY <2>1, <2>2 DEF Ledger!vars
<1>3. ASSUME NEW r \in Requests, Refuse(r)
      PROVE  Ledger!Decline(r)
  BY <1>3, LedgerDecline DEF Refuse, reqVars, statVars
<1>4. ASSUME NEW r \in Requests, Begin(r)
      PROVE  Ledger!Decline(r) \/ Ledger!Take(r, tool[r])
  <2>1. CASE running[tool[r]] = 1
    BY <1>4, <2>1, LedgerDecline DEF Begin, reqVars, statVars
  <2>2. CASE running[tool[r]] = 0
    BY <1>4, <2>2, LedgerTake DEF Begin, Take, reqVars, statVars
  <2>3. QED
    BY <1>4, <2>1, <2>2 DEF Begin
<1>5. ASSUME NEW r \in Requests, ServerStep(r), ~Begin(r)
      PROVE  \/ UNCHANGED Ledger!vars
             \/ \E result \in {"success", "error"} : Ledger!Report(r, result)
  <2>1. tool' = tool
    BY <1>5 DEF ServerStep, SpawnOk, SpawnFail, Poll, ReadLine, ReadError,
         ReadEOF, ReadTimeout, WaitDone, TermTimeout, Reap, reqVars
  <2>2. CASE Finish(r) \/ Fail(r)
    <3>1. Active(r) /\ pc[r] \notin {"last", "fail"}
      BY <1>5, <2>2 DEF ServerStep, SpawnOk, SpawnFail, Poll, ReadLine,
           ReadError, ReadEOF, ReadTimeout, WaitDone, TermTimeout, Reap,
           Finish, Fail, Goto, TypeOK, TypeRequest
    <3>2. QED
      BY <2>1, <2>2, <3>1, LedgerReport
  <2>3. CASE ~Finish(r) /\ ~Fail(r)
    <3>1. /\ tool_runs' = tool_runs
          /\ \/ /\ pc[r] \in ActivePCs \ {"last", "fail"}
                /\ \E label \in ActivePCs \ {"last", "fail"} : Goto(r, label)
             \/ pc[r] = "reap" /\ Goto(r, "done")
      BY <1>5, <2>3 DEF ServerStep, SpawnOk, SpawnFail, Poll, ReadLine,
           ReadError, ReadEOF, ReadTimeout, WaitDone, TermTimeout, StopTool,
           Reap, statVars
    <3>2. PICK label \in PCs : Goto(r, label) /\ PhaseOf(r)' = PhaseOf(r)
      BY <3>1 DEF Goto, PhaseOf, TypeOK, TypeRequest
    <3>3. QED
      BY <2>1, <3>1, <3>2, LedgerStutter
  <2>4. QED
    BY <2>2, <2>3
<1>6. ASSUME NEW r \in Requests, Resume(r)
      PROVE  UNCHANGED Ledger!vars
  <2>1. PhaseOf(r)' = PhaseOf(r)
    BY <1>6 DEF Resume, Goto, PhaseOf, TypeOK, TypeRequest
  <2>2. QED
    BY <1>6, <2>1, LedgerStutter DEF Resume, reqVars, statVars
<1>7. ASSUME NEW r \in Requests, Close(r) \/ CancelSpawn(r) \/ Cancel(r)
      PROVE  Ledger!Release(r)
  <2>1. Drop(r) /\ UNCHANGED tool_runs
    BY <1>7 DEF Close, CancelSpawn, Cancel, Finally, Drop, reqVars, statVars
  <2>2. QED
    BY <2>1, LedgerRelease
<1>8. ASSUME NEW r \in Requests, CancelOutside(r)
      PROVE  Ledger!Decline(r) \/ UNCHANGED Ledger!vars
  <2>1. CASE pc[r] = "begin"
    BY <1>8, <2>1, LedgerDecline DEF CancelOutside, reqVars, statVars
  <2>2. CASE pc[r] = "reap"
    <3>1. PhaseOf(r)' = PhaseOf(r)
      BY <1>8, <2>2 DEF CancelOutside, Goto, PhaseOf, TypeOK, TypeRequest
    <3>2. QED
      BY <1>8, <3>1, LedgerStutter DEF CancelOutside, reqVars, statVars
  <2>3. QED
    BY <1>8, <2>1, <2>2 DEF CancelOutside
<1>9. ASSUME NEW r \in Requests, ProcessStep(r) \/ Disconnect(r) \/ Elapse(r)
      PROVE  UNCHANGED Ledger!vars
  <2>1. UNCHANGED <<pc, tool, tool_runs>>
    BY <1>9 DEF ProcessStep, PrintLine, ExitSelf, DieOnTerm, DieOnKill, Die,
         Observe, Disconnect, Elapse, reqVars, statVars
  <2>2. QED
    BY <1>1, <2>1
<1>10. CASE UNCHANGED vars
  BY <1>1, <1>10 DEF vars
<1>11. ASSUME NEW r \in Requests, Begin(r)
       PROVE  tool[r] \in Tools
  BY <1>11 DEF Begin, LockInv
<1>12. QED
  BY <1>2, <1>3, <1>4, <1>5, <1>6, <1>7, <1>8, <1>9, <1>10, <1>11
     DEF Next, ServerStep, SendStep, CancelStep, Ledger!Next

\* For any tools and requests the generator, with every suspension point, failing
\* call and cancellation, implements the ledger: one run of a tool at a time, each
\* counted at most once before its tool is handed on.
THEOREM LedgerImplemented == Spec => ImplementsLedger
<1>1. Init => Ledger!Init
  BY DEF Init, Ledger!Init, PhaseOf, JobOf, Active, ActivePCs
<1>2. Spec => []LockInv
  <2>1. Init => LockInv
    BY DEF Init, LockInv, Active, ActivePCs
  <2>2. QED
    BY <2>1, LockStep, TypeCorrect, PTL DEF Spec
<1>3. TypeOK /\ LockInv /\ [Next]_vars => [Ledger!Next]_(Ledger!vars)
  BY LedgerStep
<1>4. QED
  BY <1>1, <1>2, <1>3, TypeCorrect, PTL DEF Spec, Ledger!Spec, ImplementsLedger

-----------------------------------------------------------------------------
(* The counters.  Before a run is reported its outcome is open; a step       *)
(* either counts one run and settles its outcome, or does neither.           *)

Unreported == {"idle", "begin"} \cup (ActivePCs \ {"last", "fail"})

OutcomeInv == \A r \in Requests : pc[r] \in Unreported => outcome[r] = "none"

Counting(r, result) ==
    /\ pc[r] \in ActivePCs \ {"last", "fail"}
    /\ \E label \in {"last", "fail"} : Goto(r, label)
    /\ outcome' = [outcome EXCEPT ![r] = result]
    /\ tool_runs' = [tool_runs EXCEPT ![<<tool[r], result>>] = @ + 1]
    /\ UNCHANGED tool

Silent ==
    /\ UNCHANGED tool_runs
    /\ \A r \in Requests :
         /\ \/ outcome'[r] = outcome[r] /\ tool'[r] = tool[r]
            \/ outcome[r] = "none" /\ outcome'[r] \notin {"success", "error"}
         /\ pc'[r] \in Unreported =>
               pc[r] \in Unreported /\ outcome'[r] = outcome[r]

\* A step of one request that settles no outcome is silent.
LEMMA SilentMove ==
  ASSUME TypeOK, NEW r \in Requests, NEW label \in PCs, Goto(r, label),
         UNCHANGED <<tool, tool_runs>>,
         outcome' \in {outcome, CancelledOutcome(r)},
         label \in Unreported => pc[r] \in Unreported /\ outcome' = outcome
  PROVE  Silent
<1>1. pc' = [pc EXCEPT ![r] = label]
  BY DEF Goto
<1>2. \A q \in Requests \ {r} : pc'[q] = pc[q] /\ outcome'[q] = outcome[q]
  BY <1>1 DEF CancelledOutcome, TypeOK, TypeRequest
<1>3. \/ outcome'[r] = outcome[r]
      \/ outcome[r] = "none" /\ outcome'[r] = "cancelled"
  BY DEF CancelledOutcome, TypeOK, TypeRequest
<1>4. pc'[r] = label
  BY <1>1 DEF TypeOK, TypeRequest
<1>5. QED
  BY <1>2, <1>3, <1>4 DEF Silent

\* The two kinds of step.
LEMMA CountKinds ==
  ASSUME TypeOK, OutcomeInv, [Next]_vars
  PROVE  \/ Silent
         \/ \E r \in Requests, result \in {"success", "error"} : Counting(r, result)
<1> USE DEF PCs, ActivePCs, Unreported
<1>1. UNCHANGED <<pc, tool, tool_runs, outcome>> => Silent
  BY DEF Silent
<1>2. ASSUME NEW r \in Requests, NEW t \in Tools, Accept(r, t)
      PROVE  Silent
  BY <1>2 DEF Accept, Goto, statVars, Silent, OutcomeInv, TypeOK, TypeRequest
<1>3. ASSUME NEW r \in Requests, Refuse(r)
      PROVE  Silent
  BY <1>3 DEF Refuse, Goto, reqVars, statVars, Silent, OutcomeInv, TypeOK,
              TypeRequest
<1>4. ASSUME NEW r \in Requests, Begin(r)
      PROVE  Silent
  BY <1>4 DEF Begin, Goto, reqVars, statVars, Silent, OutcomeInv, TypeOK,
              TypeRequest
<1>5. ASSUME NEW r \in Requests, ServerStep(r), ~Begin(r)
      PROVE  Silent \/ \E result \in {"success", "error"} : Counting(r, result)
  <2>1. tool' = tool
    BY <1>5 DEF ServerStep, SpawnOk, SpawnFail, Poll, ReadLine, ReadError,
         ReadEOF, ReadTimeout, WaitDone, TermTimeout, Reap, reqVars
  <2>2. CASE Finish(r) \/ Fail(r)
    <3>1. pc[r] \in ActivePCs \ {"last", "fail"}
      BY <1>5, <2>2 DEF ServerStep, SpawnOk, SpawnFail, Poll, ReadLine,
           ReadError, ReadEOF, ReadTimeout, WaitDone, TermTimeout, Reap,
           Finish, Fail, Goto, TypeOK, TypeRequest
    <3>2. QED
      BY <2>1, <2>2, <3>1 DEF Finish, Fail, Counting
  <2>3. CASE ~Finish(r) /\ ~Fail(r)
    <3>1. /\ tool_runs' = tool_runs /\ outcome' = outcome
          /\ \/ /\ pc[r] \in ActivePCs \ {"last", "fail"}
                /\ \E label \in ActivePCs \ {"last", "fail"} : Goto(r, label)
             \/ pc[r] = "reap" /\ Goto(r, "done")
      BY <1>5, <2>3 DEF ServerStep, SpawnOk, SpawnFail, Poll, ReadLine,
           ReadError, ReadEOF, ReadTimeout, WaitDone, TermTimeout, StopTool,
           Reap, statVars
    <3>2. QED
      BY <2>1, <3>1, SilentMove
  <2>4. QED
    BY <2>2, <2>3
<1>6. ASSUME NEW r \in Requests, SendStep(r) \/ CancelStep(r)
      PROVE  Silent
  <2>1. /\ UNCHANGED <<tool, tool_runs>>
        /\ outcome' \in {outcome, CancelledOutcome(r)}
    BY <1>6 DEF SendStep, CancelStep, Resume, Close, CancelOutside, CancelSpawn,
                Cancel, reqVars, statVars
  <2>2. CASE Resume(r)
    BY <2>1, <2>2, SilentMove DEF Resume
  <2>3. CASE ~Resume(r)
    <3>1. \E label \in {"reap", "done"} : Goto(r, label)
      BY <1>6, <2>3 DEF SendStep, CancelStep, Close, CancelOutside, CancelSpawn,
                        Cancel, Finally
    <3>2. QED
      BY <2>1, <3>1, SilentMove
  <2>4. QED
    BY <2>2, <2>3
<1>7. ASSUME NEW r \in Requests, ProcessStep(r) \/ Disconnect(r) \/ Elapse(r)
      PROVE  Silent
  <2>1. UNCHANGED <<pc, tool, tool_runs, outcome>>
    BY <1>7 DEF ProcessStep, PrintLine, ExitSelf, DieOnTerm, DieOnKill, Die,
         Observe, Disconnect, Elapse, reqVars, statVars
  <2>2. QED
    BY <1>1, <2>1
<1>8. CASE UNCHANGED vars
  BY <1>1, <1>8 DEF vars
<1>9. QED
  BY <1>2, <1>3, <1>4, <1>5, <1>6, <1>7, <1>8 DEF Next, ServerStep

\* A request's outcome stays open until the run is reported or abandoned.
LEMMA OutcomeStep == TypeOK /\ OutcomeInv /\ [Next]_vars => OutcomeInv'
<1> SUFFICES ASSUME TypeOK, OutcomeInv, [Next]_vars PROVE OutcomeInv'
  OBVIOUS
<1>1. CASE Silent
  BY <1>1 DEF Silent, OutcomeInv
<1>2. ASSUME NEW r \in Requests, NEW result, Counting(r, result)
      PROVE  OutcomeInv'
  BY <1>2 DEF Counting, Goto, OutcomeInv, Unreported, ActivePCs, TypeOK,
              TypeRequest
<1>3. QED
  BY <1>1, <1>2, CountKinds

\* Each kind of step changes the counters as it changes the sets of ended runs.
LEMMA CountStep ==
  ASSUME TypeOK, OutcomeInv, RunsCountedOnce, [Next]_vars
  PROVE  RunsCountedOnce'
<1> SUFFICES ASSUME NEW t \in Tools, NEW o \in {"success", "error"}
             PROVE  (tool_runs[<<t, o>>] = Cardinality(Ended(t, o)))'
  BY DEF RunsCountedOnce
<1>1. tool_runs[<<t, o>>] = Cardinality(Ended(t, o))
  BY DEF RunsCountedOnce
<1>2. CASE Silent
  <2>1. Ended(t, o)' = Ended(t, o)
    BY <1>2 DEF Silent, Ended
  <2>2. QED
    BY <1>1, <1>2, <2>1 DEF Silent
<1>3. ASSUME NEW r \in Requests, NEW result \in {"success", "error"},
             Counting(r, result)
      PROVE  (tool_runs[<<t, o>>] = Cardinality(Ended(t, o)))'
  <2>1. r \notin Ended(t, o)
    BY <1>3 DEF Counting, OutcomeInv, Unreported, Ended
  <2>2. CASE t = tool[r] /\ o = result
    <3>1. Ended(t, o)' = Ended(t, o) \cup {r}
      BY <1>3, <2>2 DEF Counting, Ended, TypeOK, TypeRequest
    <3>2. Cardinality(Ended(t, o)') = Cardinality(Ended(t, o)) + 1
      <4>1. IsFiniteSet(Ended(t, o))
        BY ConstantsAssumption, FS_Subset DEF Ended
      <4>2. QED
        BY <2>1, <3>1, <4>1, FS_AddElement
    <3>3. tool_runs'[<<t, o>>] = tool_runs[<<t, o>>] + 1
      BY <1>3, <2>2 DEF Counting, TypeOK, TypeShared
    <3>4. QED
      BY <1>1, <3>2, <3>3
  <2>3. CASE ~(t = tool[r] /\ o = result)
    <3>1. Ended(t, o)' = Ended(t, o)
      BY <1>3, <2>1, <2>3 DEF Counting, Ended, TypeOK, TypeRequest
    <3>2. <<t, o>> # <<tool[r], result>>
      BY <2>3
    <3>3. tool_runs'[<<t, o>>] = tool_runs[<<t, o>>]
      BY <1>3, <3>2 DEF Counting, TypeOK, TypeShared
    <3>4. QED
      BY <1>1, <3>1, <3>3
  <2>4. QED
    BY <2>2, <2>3
<1>4. QED
  BY <1>2, <1>3, CountKinds

\* For any number of requests, my_tools_tool_runs_total counts every completed run
\* once under its own outcome and nothing else.
THEOREM CountCorrect == Spec => []RunsCountedOnce
<1>1. Init => OutcomeInv
  BY DEF Init, OutcomeInv
<1>2. Init => RunsCountedOnce
  <2> SUFFICES ASSUME Init, NEW t \in Tools, NEW o \in {"success", "error"}
               PROVE  tool_runs[<<t, o>>] = Cardinality(Ended(t, o))
    BY DEF RunsCountedOnce
  <2>1. Ended(t, o) = {}
    BY DEF Init, Ended
  <2>2. QED
    BY <2>1, FS_EmptySet DEF Init
<1>3. TypeOK /\ OutcomeInv /\ RunsCountedOnce /\ [Next]_vars
        => RunsCountedOnce'
  BY CountStep
<1>4. QED
  BY <1>1, <1>2, <1>3, OutcomeStep, TypeCorrect, PTL DEF Spec

=============================================================================
