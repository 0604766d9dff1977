-------------------------- MODULE ToolRunnerProofs --------------------------
(***************************************************************************)
(* Theorems about ToolRunner, for any sets of tools and requests and any   *)
(* limits.  What a step can do to the lock is first reduced to three kinds *)
(* (LockSteps); the lock and the gauge are then argued about those kinds   *)
(* alone.                                                                  *)
(***************************************************************************)
EXTENDS ToolRunner, FiniteSetTheorems, SequenceTheorems, TLAPS

-----------------------------------------------------------------------------
(* Updates of functions *)

\* Incrementing an entry of a counter leaves a counter.
LEMMA Increment ==
  ASSUME NEW S, NEW f \in [S -> Nat], NEW x
  PROVE  [f EXCEPT ![x] = @ + 1] \in [S -> Nat]
<1>1. CASE x \in S
  <2>1. f[x] + 1 \in Nat
    BY <1>1
  <2>2. QED
    BY <2>1, Zenon
<1>2. CASE x \notin S
  <2>1. [f EXCEPT ![x] = @ + 1] = f
    BY <1>2, Zenon
  <2>2. QED
    BY <2>1
<1>3. QED
  BY <1>1, <1>2

\* Adding an element to one of a family of sets.
LEMMA AddMember ==
  ASSUME NEW S, NEW T, NEW f \in [S -> SUBSET T], NEW x, NEW e \in T
  PROVE  [f EXCEPT ![x] = @ \cup {e}] \in [S -> SUBSET T]
OBVIOUS

-----------------------------------------------------------------------------
(* Types *)

Signals == [Requests -> SUBSET {"TERM", "KILL"}]

\* Sending a signal keeps the record of signals well typed.
LEMMA SignalTypes ==
  ASSUME TypeOK, NEW r
  PROVE  /\ [signals EXCEPT ![r] = @ \cup {"TERM"}] \in Signals
         /\ [signals EXCEPT ![r] = @ \cup {"KILL"}] \in Signals
BY AddMember DEF TypeOK, TypeProcess, Signals

\* The two ways to report a run keep the types.
LEMMA ReportTypes ==
  ASSUME TypeOK, NEW r \in Requests, Finish(r) \/ Fail(r)
  PROVE  /\ pc' \in [Requests -> PCs]
         /\ outcome' \in [Requests -> Outcomes]
         /\ signals' \in Signals
         /\ TypeShared'
<1>1. tool_runs' \in [Tools \X {"success", "error"} -> Nat]
  <2>1. CASE Finish(r)
    BY <2>1, Increment DEF TypeOK, TypeShared, Finish
  <2>2. CASE Fail(r)
    BY <2>2, Increment DEF TypeOK, TypeShared, Fail
  <2>3. QED
    BY <2>1, <2>2
<1>2. TypeShared'
  BY <1>1 DEF TypeOK, TypeShared, Finish, Fail, lockVars
<1>3. QED
  BY <1>2 DEF TypeOK, TypeRequest, TypeProcess, Finish, Fail, Goto, PCs,
              Outcomes, Signals

\* So does leaving the read loop.
LEMMA StopTypes ==
  ASSUME TypeOK, NEW r \in Requests, StopTool(r)
  PROVE  /\ pc' \in [Requests -> PCs]
         /\ outcome' \in [Requests -> Outcomes]
         /\ signals' \in Signals
         /\ TypeShared'
<1>1. CASE Finish(r) \/ Fail(r)
  BY <1>1, ReportTypes
<1>2. CASE /\ signals' = [signals EXCEPT ![r] = @ \cup {"TERM"}]
           /\ Goto(r, "term")
           /\ UNCHANGED <<lockVars, statVars, outcome>>
  <2>1. signals' \in Signals
    BY <1>2, SignalTypes
  <2>2. QED
    BY <1>2, <2>1 DEF TypeOK, TypeRequest, TypeShared, Goto, PCs, lockVars,
                      statVars
<1>3. QED
  BY <1>1, <1>2 DEF StopTool

\* And so does the finally block.
LEMMA FinallyTypes ==
  ASSUME TypeOK, NEW r \in Requests, Finally(r), UNCHANGED statVars
  PROVE  /\ pc' \in [Requests -> PCs]
         /\ signals' \in Signals
         /\ TypeShared'
<1>1. signals' \in Signals
  <2>1. signals \in Signals
    BY DEF TypeOK, TypeProcess, Signals
  <2>2. \/ signals' = signals
        \/ signals' = [signals EXCEPT ![r] = @ \cup {"KILL"}]
    BY DEF Finally
  <2>3. QED
    BY <2>1, <2>2, SignalTypes
<1>2. pc' \in [Requests -> PCs]
  BY DEF Finally, TypeOK, TypeRequest, Goto, PCs
<1>3. TypeShared'
  <2>1. running' = [running EXCEPT ![tool[r]] = 0]
    BY DEF Finally
  <2>2. tool_running' = tool_running - 1
    BY DEF Finally
  <2>3. running' \in [Tools -> {0, 1}]
    BY <2>1, Zenon DEF TypeOK, TypeShared
  <2>4. QED
    BY <2>2, <2>3 DEF TypeOK, TypeShared, statVars
<1>4. QED
  BY <1>1, <1>2, <1>3

\* The steps of the generator keep the types.
LEMMA ServerTypes ==
  ASSUME TypeOK, UNCHANGED canSignal, NEW r \in Requests, ServerStep(r)
  PROVE  TypeOK'
<1> USE DEF TypeOK
<1>1. CASE Begin(r)
  <2>1. TypeRequest' /\ TypeOutput'
    BY <1>1 DEF Begin, TypeRequest, TypeOutput, Goto, PCs, Outcomes, reqVars,
                outVars
  <2>2. TypeProcess'
    BY <1>1 DEF Begin, TypeProcess, procVars
  <2>3. TypeShared'
    BY <1>1 DEF Begin, TypeShared, lockVars, statVars
  <2>4. QED
    BY <2>1, <2>2, <2>3
<1>2. CASE SpawnOk(r)
  <2>1. TypeRequest' /\ TypeOutput'
    BY <1>2 DEF SpawnOk, TypeRequest, TypeOutput, Goto, PCs, reqVars, outVars
  <2>2. TypeProcess' /\ TypeShared'
    BY <1>2 DEF SpawnOk, TypeProcess, TypeShared, lockVars, statVars
  <2>3. QED
    BY <2>1, <2>2
<1>3. CASE /\ Finish(r) \/ Fail(r) \/ StopTool(r)
           /\ UNCHANGED <<reqVars, outVars, procVars>>
  <2>1. /\ pc' \in [Requests -> PCs]
        /\ outcome' \in [Requests -> Outcomes]
        /\ signals' \in Signals
        /\ TypeShared'
    BY <1>3, StopTypes, ReportTypes
  <2>2. TypeRequest' /\ TypeOutput'
    BY <1>3, <2>1 DEF TypeRequest, TypeOutput, reqVars, outVars
  <2>3. TypeProcess'
    BY <1>3, <2>1 DEF TypeProcess, procVars, Signals
  <2>4. QED
    BY <2>1, <2>2, <2>3
<1>4. CASE /\ UNCHANGED <<reqVars, outVars, procVars, signals, lockVars,
                          statVars, outcome>>
           /\ \E label \in PCs : Goto(r, label)
  <2>1. TypeRequest' /\ TypeOutput'
    BY <1>4 DEF TypeRequest, TypeOutput, Goto, PCs, reqVars, outVars
  <2>2. TypeProcess' /\ TypeShared'
    BY <1>4 DEF TypeProcess, TypeShared, procVars, lockVars, statVars
  <2>3. QED
    BY <2>1, <2>2
<1>5. CASE ReadLine(r)
  <2>1. TypeRequest' /\ TypeShared'
    BY <1>5 DEF ReadLine, TypeRequest, TypeShared, Goto, PCs, reqVars,
                lockVars, statVars
  <2>2. pipe[r] \in Seq(LineSizes) /\ pipe[r] # <<>>
    BY <1>5 DEF ReadLine, TypeProcess
  <2>3. Head(pipe[r]) \in Nat /\ Tail(pipe[r]) \in Seq(LineSizes)
    BY <2>2, ConstantsAssumption, HeadTailProperties, Zenon
  <2>4. TypeOutput'
    <3>1. CASE UNCHANGED <<output_lines, output_bytes>>
      BY <1>5, <3>1 DEF ReadLine, TypeOutput
    <3>2. CASE /\ output_lines' = [output_lines EXCEPT ![r] = @ + 1]
               /\ output_bytes' = [output_bytes EXCEPT
                                     ![r] = @ + Head(pipe[r])]
               /\ UNCHANGED output_truncated
      BY <2>3, <3>2 DEF TypeOutput
    <3>3. QED
      BY <1>5, <3>1, <3>2 DEF ReadLine
  <2>5. pipe' \in [Requests -> Seq(LineSizes)]
    <3>1. pipe' = [pipe EXCEPT ![r] = Tail(pipe[r])]
      BY <1>5 DEF ReadLine
    <3>2. QED
      BY <2>3, <3>1, Zenon DEF TypeProcess
  <2>6. TypeProcess'
    BY <1>5, <2>5 DEF ReadLine, TypeProcess
  <2>7. QED
    BY <2>1, <2>4, <2>6
<1>6. CASE ReadError(r)
  <2>1. /\ pc' \in [Requests -> PCs]
        /\ outcome' \in [Requests -> Outcomes]
        /\ signals' \in Signals
        /\ TypeShared'
    BY <1>6, ReportTypes DEF ReadError
  <2>2. TypeRequest' /\ TypeOutput'
    BY <1>6, <2>1 DEF ReadError, TypeRequest, TypeOutput, reqVars, outVars
  <2>3. pipe' \in [Requests -> Seq(LineSizes)]
    BY <1>6 DEF ReadError, TypeProcess
  <2>4. TypeProcess'
    BY <1>6, <2>1, <2>3 DEF ReadError, TypeProcess, Signals
  <2>5. QED
    BY <2>1, <2>2, <2>4
<1>7. CASE TermTimeout(r)
  <2>1. CASE Fail(r)
    BY <1>3, <1>7, <2>1 DEF TermTimeout
  <2>2. CASE /\ signals' = [signals EXCEPT ![r] = @ \cup {"KILL"}]
             /\ Goto(r, "kill")
             /\ UNCHANGED <<lockVars, statVars, outcome>>
    <3>1. signals' \in Signals
      BY <2>2, SignalTypes
    <3>2. TypeRequest' /\ TypeOutput'
      BY <1>7, <2>2 DEF TermTimeout, TypeRequest, TypeOutput, Goto, PCs,
                        reqVars, outVars
    <3>3. TypeProcess' /\ TypeShared'
      BY <1>7, <2>2, <3>1 DEF TermTimeout, TypeProcess, TypeShared, procVars,
                              lockVars, statVars, Signals
    <3>4. QED
      BY <3>2, <3>3
  <2>3. QED
    BY <1>7, <2>1, <2>2 DEF TermTimeout
<1>8. QED
  <2>1. SpawnFail(r) \/ WaitDone(r) \/ ReadEOF(r) => TypeOK'
    BY <1>3 DEF SpawnFail, WaitDone, ReadEOF
  <2>2. Poll(r) \/ ReadTimeout(r) \/ Reap(r) => TypeOK'
    BY <1>3, <1>4 DEF Poll, ReadTimeout, Reap, PCs
  <2>3. QED
    BY <1>1, <1>2, <1>5, <1>6, <1>7, <2>1, <2>2 DEF ServerStep

\* Sending, cancelling, the process, the browser and the clock keep the types.
LEMMA OtherTypes ==
  ASSUME TypeOK, UNCHANGED canSignal, NEW r \in Requests,
         \/ \E t \in Tools : Accept(r, t)
         \/ Refuse(r) \/ SendStep(r) \/ CancelStep(r) \/ ProcessStep(r)
         \/ Disconnect(r) \/ Elapse(r)
  PROVE  TypeOK'
<1> USE DEF TypeOK
<1>1. ASSUME NEW t \in Tools, Accept(r, t)
      PROVE  TypeOK'
  <2>1. TypeRequest' /\ TypeOutput'
    BY <1>1 DEF Accept, TypeRequest, TypeOutput, Goto, PCs, outVars
  <2>2. TypeProcess' /\ TypeShared'
    BY <1>1 DEF Accept, TypeProcess, TypeShared, procVars, lockVars, statVars
  <2>3. QED
    BY <2>1, <2>2
<1>2. CASE Refuse(r) \/ CancelOutside(r)
  <2>1. TypeRequest' /\ TypeOutput'
    BY <1>2 DEF Refuse, CancelOutside, CancelledOutcome, TypeRequest,
                TypeOutput, Goto, PCs, Outcomes, reqVars, outVars
  <2>2. TypeProcess' /\ TypeShared'
    BY <1>2 DEF Refuse, CancelOutside, TypeProcess, TypeShared, procVars,
                lockVars, statVars
  <2>3. QED
    BY <2>1, <2>2
<1>3. CASE Resume(r)
  <2>1. TypeRequest' /\ TypeOutput'
    BY <1>3 DEF Resume, TypeRequest, TypeOutput, Goto, PCs, reqVars, outVars
  <2>2. TypeProcess' /\ TypeShared'
    BY <1>3 DEF Resume, TypeProcess, TypeShared, procVars, lockVars, statVars
  <2>3. QED
    BY <2>1, <2>2
<1>4. CASE Close(r) \/ Cancel(r)
  <2>1. /\ Finally(r) /\ UNCHANGED <<reqVars, outVars, procVars, statVars>>
        /\ outcome' \in {outcome, CancelledOutcome(r)}
    BY <1>4 DEF Close, Cancel
  <2>2. /\ pc' \in [Requests -> PCs]
        /\ signals' \in Signals
        /\ TypeShared'
    BY <2>1, FinallyTypes
  <2>3. TypeRequest' /\ TypeOutput'
    BY <2>1, <2>2 DEF CancelledOutcome, TypeRequest, TypeOutput, Outcomes,
                      reqVars, outVars
  <2>4. TypeProcess'
    BY <2>1, <2>2 DEF TypeProcess, Signals, procVars
  <2>5. QED
    BY <2>2, <2>3, <2>4
<1>5. CASE CancelSpawn(r)
  <2>1. TypeRequest' /\ TypeOutput'
    BY <1>5 DEF CancelSpawn, CancelledOutcome, TypeRequest, TypeOutput, Goto,
                PCs, Outcomes, reqVars, outVars
  <2>2. TypeProcess'
    <3>1. CASE UNCHANGED <<proc, signals>>
      BY <1>5, <3>1 DEF CancelSpawn, TypeProcess
    <3>2. CASE /\ proc' = [proc EXCEPT ![r] = "live"]
               /\ signals' = [signals EXCEPT ![r] =
                                IF canSignal THEN {"KILL"} ELSE {}]
      <4>1. signals' \in Signals
        BY <3>2 DEF TypeProcess, Signals
      <4>2. QED
        BY <1>5, <3>2, <4>1 DEF CancelSpawn, TypeProcess, Signals
    <3>3. QED
      BY <1>5, <3>1, <3>2 DEF CancelSpawn
  <2>3. TypeShared'
    <3>1. running' \in [Tools -> {0, 1}]
      BY <1>5, Zenon DEF CancelSpawn, TypeShared
    <3>2. QED
      BY <1>5, <3>1 DEF CancelSpawn, TypeShared, statVars
  <2>4. QED
    BY <2>1, <2>2, <2>3
<1>6. ASSUME NEW size \in LineSizes, PrintLine(r, size)
      PROVE  TypeOK'
  <2>1. TypeRequest' /\ TypeOutput' /\ TypeShared'
    BY <1>6 DEF PrintLine, TypeRequest, TypeOutput, TypeShared, reqVars,
                outVars, lockVars, statVars
  <2>2. pipe' \in [Requests -> Seq(LineSizes)]
    BY <1>6, AppendProperties DEF PrintLine, TypeProcess
  <2>3. TypeProcess'
    BY <1>6, <2>2 DEF PrintLine, TypeProcess
  <2>4. QED
    BY <2>1, <2>3
<1>7. CASE ExitSelf(r) \/ DieOnTerm(r) \/ DieOnKill(r) \/ Observe(r)
  <2>1. UNCHANGED <<pc, reqVars, outVars, outcome, lockVars, statVars>>
    BY <1>7 DEF ExitSelf, DieOnTerm, DieOnKill, Die, Observe
  <2>2. TypeRequest' /\ TypeOutput' /\ TypeShared'
    BY <2>1 DEF TypeRequest, TypeOutput, TypeShared, reqVars, outVars,
                lockVars, statVars
  <2>3. TypeProcess'
    <3>1. CASE Observe(r)
      BY <3>1 DEF Observe, TypeProcess
    <3>2. CASE Die(r)
      BY <3>2 DEF Die, TypeProcess
    <3>3. QED
      BY <1>7, <3>1, <3>2 DEF ExitSelf, DieOnTerm, DieOnKill
  <2>4. QED
    BY <2>2, <2>3
<1>8. CASE Disconnect(r) \/ Elapse(r)
  <2>1. TypeRequest' /\ TypeOutput'
    BY <1>8 DEF Disconnect, Elapse, TypeRequest, TypeOutput, outVars
  <2>2. TypeProcess' /\ TypeShared'
    BY <1>8 DEF Disconnect, Elapse, TypeProcess, TypeShared, procVars,
                lockVars, statVars
  <2>3. QED
    BY <2>1, <2>2
<1>9. QED
  BY <1>1, <1>2, <1>3, <1>4, <1>5, <1>6, <1>7, <1>8
     DEF SendStep, CancelStep, ProcessStep

\* Every step of the server and of its environment keeps the types.
LEMMA TypeStep == TypeOK /\ [Next]_vars => TypeOK'
<1> SUFFICES ASSUME TypeOK, [Next]_vars PROVE TypeOK'
  OBVIOUS
<1>1. CASE UNCHANGED vars
  BY <1>1 DEF vars, TypeOK, TypeRequest, TypeOutput, TypeProcess, TypeShared
<1>2. CASE Next
  BY <1>2, ServerTypes, OtherTypes DEF Next
<1>3. QED
  BY <1>1, <1>2

\* The state of the server always has its type.
THEOREM TypeCorrect == Spec => []TypeOK
<1>1. Init => TypeOK
  BY DEF Init, TypeOK, TypeRequest, TypeOutput, TypeProcess, TypeShared, PCs,
         Outcomes
<1>2. QED
  BY <1>1, TypeStep, PTL DEF Spec

-----------------------------------------------------------------------------
(* The lock and the gauge.  A step is quiet for them, takes the lock for a  *)
(* request, or drops it.                                                    *)

Quiet ==
    /\ UNCHANGED lockVars
    /\ \A r \in Requests : Active(r) <=> Active(r)'
    /\ \A r \in Requests :
         pc'[r] \in ActivePCs \cup {"begin"} =>
             \/ pc[r] \in ActivePCs \cup {"begin"} /\ tool'[r] = tool[r]
             \/ pc'[r] = "begin" /\ tool'[r] \in Tools

Take(r) ==
    /\ pc[r] = "begin"
    /\ running[tool[r]] = 0
    /\ running' = [running EXCEPT ![tool[r]] = 1]
    /\ tool_running' = tool_running + 1
    /\ Goto(r, "spawn")
    /\ UNCHANGED tool

Drop(r) ==
    /\ Active(r)
    /\ running' = [running EXCEPT ![tool[r]] = 0]
    /\ tool_running' = tool_running - 1
    /\ \E label \in {"reap", "done"} : Goto(r, label)
    /\ UNCHANGED tool

\* A step that moves one request between two active (or two inactive) labels
\* without touching the lock is quiet.
LEMMA QuietMove ==
  ASSUME TypeOK, NEW r \in Requests, NEW label \in PCs, Goto(r, label),
         UNCHANGED <<lockVars, tool>>,
         Active(r) <=> label \in ActivePCs,
         label = "begin" => pc[r] = "begin"
  PROVE  Quiet
BY DEF TypeOK, TypeRequest, Quiet, Goto, Active, ActivePCs

\* Every step is of one of the three kinds, whichever way out of the generator
\* the code takes.
LEMMA LockSteps ==
  ASSUME TypeOK, [Next]_vars
  PROVE  Quiet \/ \E r \in Requests : Take(r) \/ Drop(r)
<1>1. CASE UNCHANGED <<pc, tool, lockVars>>
  BY <1>1 DEF TypeOK, TypeRequest, Quiet, Active
<1>2. ASSUME NEW r \in Requests, Next, \E t \in Tools : Accept(r, t)
      PROVE  Quiet
  BY <1>2 DEF Accept, Goto, TypeOK, TypeRequest, Quiet, Active, ActivePCs
<1>3. ASSUME NEW r \in Requests, ServerStep(r)
      PROVE  Quiet \/ Take(r)
  <2> USE DEF PCs, ActivePCs, Active
  <2>1. CASE Begin(r)
    <3>1. CASE running[tool[r]] = 0
      BY <2>1, <3>1 DEF Begin, Take, reqVars
    <3>2. CASE running[tool[r]] = 1
      BY <2>1, <3>2, QuietMove DEF Begin, reqVars, lockVars
    <3>3. QED
      BY <2>1, <3>1, <3>2 DEF Begin
  <2>2. CASE Reap(r)
    BY <2>2, QuietMove DEF Reap, reqVars
  <2>3. CASE ~Begin(r) /\ ~Reap(r)
    <3>1. /\ Active(r)
          /\ \E label \in ActivePCs : Goto(r, label)
          /\ UNCHANGED <<lockVars, tool>>
      BY <1>3, <2>3 DEF ServerStep, SpawnOk, SpawnFail, Poll, ReadLine,
           ReadError, ReadEOF, ReadTimeout, WaitDone, TermTimeout, StopTool,
           Finish, Fail, reqVars
    <3>2. QED
      BY <3>1, QuietMove
  <2>4. QED
    BY <2>1, <2>2, <2>3
<1>4. ASSUME NEW r \in Requests, SendStep(r)
      PROVE  Quiet \/ Drop(r)
  <2> USE DEF PCs, ActivePCs, Active
  <2>1. CASE Resume(r)
    BY <2>1, QuietMove DEF Resume, reqVars
  <2>2. CASE Close(r)
    BY <2>2 DEF Close, Finally, Drop, reqVars
  <2>3. QED
    BY <1>4, <2>1, <2>2 DEF SendStep
<1>5. ASSUME NEW r \in Requests, CancelStep(r)
      PROVE  Quiet \/ Drop(r)
  <2> USE DEF PCs, ActivePCs, Active
  <2>1. CASE CancelOutside(r)
    BY <2>1, QuietMove DEF CancelOutside, reqVars
  <2>2. CASE CancelSpawn(r)
    BY <2>2 DEF CancelSpawn, Drop, reqVars
  <2>3. CASE Cancel(r)
    BY <2>3 DEF Cancel, Finally, Drop, reqVars
  <2>4. QED
    BY <1>5, <2>1, <2>2, <2>3 DEF CancelStep
<1>6. ASSUME NEW r \in Requests, Refuse(r)
      PROVE  Quiet
  BY <1>6, QuietMove DEF Refuse, reqVars, PCs, ActivePCs, Active
<1>7. ASSUME NEW r \in Requests, ProcessStep(r) \/ Disconnect(r) \/ Elapse(r)
      PROVE  Quiet
  <2>1. UNCHANGED <<pc, tool, lockVars>>
    BY <1>7 DEF ProcessStep, PrintLine, ExitSelf, DieOnTerm, DieOnKill, Die,
                Observe, Disconnect, Elapse, reqVars
  <2>2. QED
    BY <1>1, <2>1 DEF TypeOK, TypeRequest, Quiet, Active
<1>8. CASE UNCHANGED vars
  BY <1>1, <1>8 DEF vars, lockVars
<1>9. QED
  BY <1>2, <1>3, <1>4, <1>5, <1>6, <1>7, <1>8 DEF Next

\* The inductive strengthening of Exclusive: it is about the requests, and
\* also says that a request which may still take a lock names a real tool.
LockInv ==
    /\ \A r \in Requests : pc[r] \in ActivePCs \cup {"begin"} => tool[r] \in Tools
    /\ \A r \in Requests : Active(r) => running[tool[r]] = 1
    /\ \A r, s \in Requests :
          Active(r) /\ Active(s) /\ tool[r] = tool[s] => r = s
    /\ \A t \in Tools :
          running[t] = 1 => \E r \in Requests : Active(r) /\ tool[r] = t

\* Each of the three kinds of step keeps the lock invariant.
LEMMA LockStep == TypeOK /\ LockInv /\ [Next]_vars => LockInv'
<1> SUFFICES ASSUME TypeOK, LockInv, [Next]_vars PROVE LockInv'
  OBVIOUS
<1>1. CASE Quiet
  BY <1>1 DEF Quiet, LockInv, lockVars, Active, ActivePCs
<1>2. ASSUME NEW q \in Requests, Take(q)
      PROVE  LockInv'
  <2>1. /\ tool[q] \in Tools
        /\ \A r \in Requests : Active(r) => r # q /\ tool[r] # tool[q]
    BY <1>2 DEF Take, LockInv, Active, ActivePCs
  <2>2. /\ pc' = [pc EXCEPT ![q] = "spawn"]
        /\ \A r \in Requests : Active(r)' <=> Active(r) \/ r = q
    BY <1>2 DEF Take, Goto, TypeOK, TypeRequest, Active, ActivePCs
  <2>3. \A t \in Tools : running'[t] = IF t = tool[q] THEN 1 ELSE running[t]
    BY <1>2, <2>1 DEF Take, TypeOK, TypeShared
  <2>4. tool' = tool
    BY <1>2 DEF Take
  <2>5. \A r \in Requests :
           pc'[r] \in ActivePCs \cup {"begin"} => pc[r] \in ActivePCs \cup {"begin"}
    BY <1>2, <2>2 DEF Take, TypeOK, TypeRequest
  <2>6. QED
    BY <2>1, <2>2, <2>3, <2>4, <2>5 DEF LockInv, Active
<1>3. ASSUME NEW q \in Requests, Drop(q)
      PROVE  LockInv'
  <2>1. /\ tool[q] \in Tools
        /\ \A r \in Requests : Active(r) /\ r # q => tool[r] # tool[q]
    BY <1>3 DEF Drop, LockInv, Active
  <2>2. /\ \A r \in Requests : Active(r)' <=> Active(r) /\ r # q
        /\ \A r \in Requests :
             pc'[r] \in ActivePCs \cup {"begin"} =>
                 pc[r] \in ActivePCs \cup {"begin"}
    BY <1>3 DEF Drop, Goto, TypeOK, TypeRequest, Active, ActivePCs
  <2>3. \A t \in Tools : running'[t] = IF t = tool[q] THEN 0 ELSE running[t]
    BY <1>3, <2>1 DEF Drop, TypeOK, TypeShared
  <2>4. tool' = tool
    BY <1>3 DEF Drop
  <2>5. QED
    BY <2>1, <2>2, <2>3, <2>4 DEF LockInv, Active
<1>4. QED
  BY <1>1, <1>2, <1>3, LockSteps

\* For every set of tools and requests, with or without permission to signal:
\* TOOL_STATS[tool]["running"] is a mutual exclusion lock for the runs of a tool.
THEOREM LockCorrect == Spec => []Exclusive
<1>1. Init => LockInv
  BY DEF Init, LockInv, Active, ActivePCs
<1>2. LockInv => Exclusive
  BY DEF LockInv, Exclusive
<1>3. QED
  BY <1>1, <1>2, LockStep, TypeCorrect, PTL DEF Spec

\* A step changes the gauge exactly as it changes the number of active runs.
LEMMA GaugeStep ==
  ASSUME TypeOK, GaugeExact, [Next]_vars
  PROVE  GaugeExact'
<1> DEFINE A == {r \in Requests : Active(r)}
<1>1. IsFiniteSet(A) /\ Cardinality(A) \in Nat
  BY ConstantsAssumption, FS_Subset, FS_CardinalityType
<1>2. CASE Quiet
  <2>1. A' = A
    BY <1>2 DEF Quiet
  <2>2. QED
    BY <1>2, <2>1 DEF Quiet, GaugeExact, lockVars
<1>3. ASSUME NEW q \in Requests, Take(q)
      PROVE  GaugeExact'
  <2>1. q \notin A /\ A' = A \cup {q}
    BY <1>3 DEF Take, Goto, TypeOK, TypeRequest, Active, ActivePCs
  <2>2. Cardinality(A') = Cardinality(A) + 1
    BY <1>1, <2>1, FS_AddElement
  <2>3. QED
    BY <1>3, <2>2 DEF Take, GaugeExact
<1>4. ASSUME NEW q \in Requests, Drop(q)
      PROVE  GaugeExact'
  <2>1. q \in A /\ A' = A \ {q}
    BY <1>4 DEF Drop, Goto, TypeOK, TypeRequest, Active, ActivePCs
  <2>2. Cardinality(A') = Cardinality(A) - 1
    BY <1>1, <2>1, FS_RemoveElement
  <2>3. QED
    BY <1>4, <2>2 DEF Drop, GaugeExact
<1>5. QED
  BY <1>2, <1>3, <1>4, LockSteps

\* The gauge my_tools_tool_running is exact for any number of requests.
THEOREM GaugeCorrect == Spec => []GaugeExact
<1>1. Init => GaugeExact
  <2> SUFFICES ASSUME Init PROVE GaugeExact
    OBVIOUS
  <2>1. {r \in Requests : Active(r)} = {}
    BY DEF Init, Active, ActivePCs
  <2>2. QED
    BY <2>1, FS_EmptySet DEF Init, GaugeExact
<1>2. QED
  BY <1>1, GaugeStep, TypeCorrect, PTL DEF Spec

-----------------------------------------------------------------------------
(* No process is left behind.  The strengthening: there is a process only   *)
(* once create_subprocess_exec was reached, and returncode is never set     *)
(* before the exit, so a finally block that skips the kill skips a corpse.  *)

ProcInv ==
    \A r \in Requests :
        /\ pc[r] \in {"idle", "begin", "spawn"} => proc[r] = "none"
        /\ returncode[r] => proc[r] = "exited"
        /\ pc[r] \in {"reap", "done"} /\ proc[r] = "live" => "KILL" \in signals[r]

\* A request that no step of this kind touches keeps its part of ProcInv.
LEMMA ProcOthers ==
  ASSUME ProcInv, NEW r \in Requests, NEW q \in Requests, q # r,
         pc'[q] = pc[q], proc'[q] = proc[q], returncode'[q] = returncode[q],
         signals'[q] = signals[q]
  PROVE  /\ pc'[q] \in {"idle", "begin", "spawn"} => proc'[q] = "none"
         /\ returncode'[q] => proc'[q] = "exited"
         /\ pc'[q] \in {"reap", "done"} /\ proc'[q] = "live"
               => "KILL" \in signals'[q]
BY DEF ProcInv

\* ProcInv may be checked for the one request that takes the step.
LEMMA ProcLocal ==
  ASSUME TypeOK, ProcInv, NEW r \in Requests,
         \A q \in Requests \ {r} :
            /\ pc'[q] = pc[q] /\ proc'[q] = proc[q]
            /\ returncode'[q] = returncode[q] /\ signals'[q] = signals[q],
         pc'[r] \in {"idle", "begin", "spawn"} => proc'[r] = "none",
         returncode'[r] => proc'[r] = "exited",
         pc'[r] \in {"reap", "done"} /\ proc'[r] = "live"
            => "KILL" \in signals'[r]
  PROVE  ProcInv'
BY ProcOthers DEF ProcInv

\* Every step keeps what the generator knows about its process, given that the
\* server may signal it.
LEMMA ProcStep ==
  ASSUME canSignal, TypeOK, ProcInv, [Next]_vars
  PROVE  ProcInv'
<1> USE DEF Goto, TypeOK, TypeRequest, TypeProcess
<1>1. CASE UNCHANGED <<pc, proc, returncode, signals>>
  BY <1>1 DEF ProcInv
<1>2. ASSUME NEW r \in Requests, \E t \in Tools : Accept(r, t)
      PROVE  ProcInv'
  BY <1>2, ProcLocal DEF Accept, procVars, ProcInv
<1>3. ASSUME NEW r \in Requests, Refuse(r)
      PROVE  ProcInv'
  BY <1>3, ProcLocal DEF Refuse, procVars, ProcInv
<1>4. ASSUME NEW r \in Requests, ServerStep(r)
      PROVE  ProcInv'
  <2>1. CASE SpawnOk(r)
    BY <2>1, ProcLocal DEF SpawnOk, ProcInv
  <2>2. CASE Begin(r)
    BY <2>2, ProcLocal DEF Begin, procVars, ProcInv
  <2>3. CASE Reap(r)
    BY <2>3, ProcLocal DEF Reap, procVars, ProcInv
  <2>4. CASE ~SpawnOk(r) /\ ~Begin(r) /\ ~Reap(r)
    <3>1. /\ UNCHANGED <<proc, returncode>>
          /\ \E label \in ActivePCs \ {"spawn"} : pc' = [pc EXCEPT ![r] = label]
          /\ \/ signals' = signals
             \/ \E s \in {"TERM", "KILL"} :
                   signals' = [signals EXCEPT ![r] = @ \cup {s}]
      BY <1>4, <2>4 DEF ServerStep, SpawnFail, Poll, ReadLine, ReadError,
           ReadEOF, ReadTimeout, WaitDone, TermTimeout, StopTool, Finish, Fail,
           procVars, ActivePCs
    <3>2. QED
      BY <3>1, ProcLocal DEF ProcInv, ActivePCs
  <2>5. QED
    BY <2>1, <2>2, <2>3, <2>4
<1>5. ASSUME NEW r \in Requests, Resume(r)
      PROVE  ProcInv'
  BY <1>5, ProcLocal DEF Resume, procVars, ProcInv
<1>6. ASSUME NEW r \in Requests, Close(r) \/ Cancel(r)
      PROVE  ProcInv'
  <2>1. /\ UNCHANGED <<proc, returncode>>
        /\ \/ /\ proc[r] = "none" \/ returncode[r]
              /\ pc' = [pc EXCEPT ![r] = "done"]
              /\ signals' = signals
           \/ /\ pc' = [pc EXCEPT ![r] = "reap"]
              /\ signals' = [signals EXCEPT ![r] = @ \cup {"KILL"}]
    BY <1>6 DEF Close, Cancel, Finally, KillDenied, procVars
  <2>2. CASE signals' = signals
    BY <2>1, <2>2, ProcLocal DEF ProcInv
  <2>3. CASE signals' = [signals EXCEPT ![r] = @ \cup {"KILL"}]
    BY <2>1, <2>3, ProcLocal DEF ProcInv
  <2>4. QED
    BY <2>1, <2>2, <2>3
<1>7. ASSUME NEW r \in Requests, CancelOutside(r)
      PROVE  ProcInv'
  BY <1>7, ProcLocal DEF CancelOutside, procVars, ProcInv
<1>8. ASSUME NEW r \in Requests, CancelSpawn(r)
      PROVE  ProcInv'
  BY <1>8, ProcLocal DEF CancelSpawn, ProcInv
<1>9. ASSUME NEW r \in Requests, ProcessStep(r)
      PROVE  ProcInv'
  <2>1. CASE Observe(r)
    BY <2>1, ProcLocal DEF Observe, ProcInv
  <2>2. CASE Die(r)
    BY <2>2, ProcLocal DEF Die, ProcInv
  <2>3. ASSUME NEW size \in LineSizes, PrintLine(r, size)
        PROVE  ProcInv'
    BY <1>1, <2>3 DEF PrintLine
  <2>4. QED
    BY <1>9, <2>1, <2>2, <2>3 DEF ProcessStep, ExitSelf, DieOnTerm, DieOnKill
<1>10. ASSUME NEW r \in Requests, Disconnect(r) \/ Elapse(r)
       PROVE  ProcInv'
  BY <1>1, <1>10 DEF Disconnect, Elapse, procVars
<1>11. CASE UNCHANGED vars
  BY <1>1, <1>11 DEF vars
<1>12. QED
  BY <1>2, <1>3, <1>4, <1>5, <1>6, <1>7, <1>8, <1>9, <1>10, <1>11
     DEF Next, SendStep, CancelStep

\* A server that may signal its children leaves no tool running: however a run
\* ends, its process group is dead or about to die when the generator is left.
THEOREM NoOrphanCorrect == Spec => []NoOrphan
<1>1. Init => ProcInv
  BY DEF Init, ProcInv
<1>2. (canSignal => ProcInv) => NoOrphan
  BY DEF ProcInv, NoOrphan
<1>3. TypeOK /\ (canSignal => ProcInv) /\ [Next]_vars => (canSignal => ProcInv)'
  <2>1. [Next]_vars => UNCHANGED canSignal
    BY DEF Next, vars
  <2>2. QED
    BY <2>1, ProcStep
<1>4. QED
  BY <1>1, <1>2, <1>3, TypeCorrect, PTL DEF Spec

=============================================================================
