---------------------------- MODULE OutputProofs ----------------------------
(***************************************************************************)
(* The output of a run, for any limits, line lengths and pipe size: the    *)
(* log stays within both limits, and nothing is dropped unannounced.       *)
(***************************************************************************)
EXTENDS LedgerProofs

-----------------------------------------------------------------------------
(* The limits *)

\* Only ReadLine writes to the log, and it has tested both limits.
LEMMA BoundStep ==
  ASSUME TypeOK, OutputBounded, [Next]_vars
  PROVE  OutputBounded'
<1> USE DEF TypeOK, TypeOutput
<1>1. CASE UNCHANGED <<output_lines, output_bytes>>
  BY <1>1 DEF OutputBounded
<1>2. ASSUME NEW r \in Requests, ReadLine(r)
      PROVE  OutputBounded'
  <2>1. CASE UNCHANGED <<output_lines, output_bytes>>
    BY <1>1, <2>1
  <2>2. CASE /\ Fits(r, Head(pipe[r]))
             /\ output_lines' = [output_lines EXCEPT ![r] = @ + 1]
             /\ output_bytes' = [output_bytes EXCEPT ![r] = @ + Head(pipe[r])]
    <3>1. output_lines'[r] <= MAX_OUTPUT_LINES
      BY <2>2, ConstantsAssumption DEF Fits
    <3>2. output_bytes'[r] <= MAX_OUTPUT_BYTES
      BY <2>2 DEF Fits
    <3>3. \A q \in Requests \ {r} : /\ output_lines'[q] = output_lines[q]
                                    /\ output_bytes'[q] = output_bytes[q]
      BY <2>2
    <3>4. QED
      BY <3>1, <3>2, <3>3 DEF OutputBounded
  <2>3. QED
    BY <1>2, <2>1, <2>2 DEF ReadLine
<1>3. ASSUME NEW r \in Requests, ServerStep(r), ~ReadLine(r)
      PROVE  UNCHANGED outVars
  BY <1>3 DEF ServerStep, Begin, SpawnOk, SpawnFail, Poll, ReadError, ReadEOF,
              ReadTimeout, WaitDone, TermTimeout, Reap
<1>4. ASSUME NEW r \in Requests,
             \/ \E t \in Tools : Accept(r, t)
             \/ Refuse(r) \/ SendStep(r) \/ CancelStep(r) \/ ProcessStep(r)
             \/ Disconnect(r) \/ Elapse(r)
      PROVE  UNCHANGED outVars
  BY <1>4 DEF Accept, Refuse, SendStep, Resume, Close, CancelStep, CancelOutside,
              CancelSpawn, Cancel, ProcessStep, PrintLine, ExitSelf, DieOnTerm,
              DieOnKill, Die, Observe, Disconnect, Elapse
<1>5. CASE UNCHANGED vars
  BY <1>1, <1>5 DEF vars
<1>6. QED
  BY <1>1, <1>2, <1>3, <1>4, <1>5 DEF Next, outVars

\* The log of a run never exceeds MAX_OUTPUT_LINES lines or MAX_OUTPUT_BYTES bytes.
THEOREM BoundCorrect == Spec => []OutputBounded
<1>1. Init => OutputBounded
  BY ConstantsAssumption DEF Init, OutputBounded
<1>2. TypeOK /\ OutputBounded /\ [Next]_vars => OutputBounded'
  BY BoundStep
<1>3. QED
  BY <1>1, <1>2, TypeCorrect, PTL DEF Spec

-----------------------------------------------------------------------------
(* Nothing is dropped unannounced.  The strengthening: no line is in the log *)
(* that was not taken from the pipe, and a run on its way to success before  *)
(* its time is up has seen the end of the pipe, which nobody can fill again. *)

Taken(r) == printed[r] - Len(pipe[r])

Accounted(r) ==
    /\ output_lines[r] <= Taken(r)
    /\ outcome[r] # "error" => (output_truncated[r] <=> Taken(r) > output_lines[r])

Drained(r) ==
    ~timeUp[r] /\ (pc[r] \in {"term", "kill"} \/ outcome[r] = "success")
        => pipe[r] = <<>> /\ proc[r] = "exited"

OutputInv == \A r \in Requests : Accounted(r) /\ Drained(r)

\* The invariant may be checked for the one request that takes the step.
LEMMA OutputLocal ==
  ASSUME OutputInv, NEW r \in Requests,
         \A q \in Requests \ {r} :
            /\ pc'[q] = pc[q] /\ timeUp'[q] = timeUp[q] /\ outcome'[q] = outcome[q]
            /\ output_lines'[q] = output_lines[q]
            /\ output_truncated'[q] = output_truncated[q]
            /\ proc'[q] = proc[q] /\ pipe'[q] = pipe[q] /\ printed'[q] = printed[q],
         Accounted(r)', Drained(r)'
  PROVE  OutputInv'
<1> SUFFICES ASSUME NEW q \in Requests, q # r
             PROVE  Accounted(q)' /\ Drained(q)'
  BY DEF OutputInv
<1>1. Accounted(q) /\ Drained(q)
  BY DEF OutputInv
<1>2. QED
  BY <1>1 DEF Accounted, Taken, Drained

\* A step of the generator that touches neither the log nor the pipe.
LEMMA OutputMove ==
  ASSUME TypeOK, OutputInv, NEW r \in Requests, NEW label \in PCs, Goto(r, label),
         UNCHANGED <<timeUp, outVars, pipe, printed>>,
         \/ proc' = proc
         \/ pc[r] = "spawn" /\ proc' = [proc EXCEPT ![r] = "live"],
         \E o \in Outcomes : outcome' = [outcome EXCEPT ![r] = o],
         outcome[r] = "error" => outcome'[r] = "error",
         Drained(r)'
  PROVE  OutputInv'
<1>1. Accounted(r)
  BY DEF OutputInv
<1>2. Accounted(r)'
  BY <1>1 DEF Accounted, Taken, outVars
<1>3. QED
  BY <1>2, OutputLocal DEF Goto, TypeOK, TypeRequest, TypeProcess, outVars

\* What the generator does keeps every line accounted for.
LEMMA OutputServer ==
  ASSUME TypeOK, OutcomeInv, OutputInv, NEW r \in Requests, ServerStep(r)
  PROVE  OutputInv'
<1> USE DEF PCs, ActivePCs, Outcomes, Unreported
<1>1. Accounted(r) /\ Drained(r)
  BY DEF OutputInv
<1>2. CASE ReadLine(r)
  <2>1. /\ pc[r] = "read" /\ outcome[r] = "none" /\ outcome' = outcome
        /\ UNCHANGED <<timeUp, proc, printed>>
        /\ pipe[r] # <<>> /\ pipe' = [pipe EXCEPT ![r] = Tail(pipe[r])]
        /\ \E label \in {"line", "poll"} : pc' = [pc EXCEPT ![r] = label]
    BY <1>2 DEF ReadLine, Goto, reqVars, OutcomeInv
  <2>2. /\ pipe[r] \in Seq(LineSizes) /\ Len(Tail(pipe[r])) = Len(pipe[r]) - 1
        /\ Len(pipe[r]) \in Nat /\ Len(pipe[r]) >= 1
    BY <2>1 DEF TypeOK, TypeProcess
  <2>3. Len(pipe'[r]) = Len(pipe[r]) - 1
    BY <2>1, <2>2 DEF TypeOK, TypeProcess
  <2>4. Taken(r)' = Taken(r) + 1 /\ Taken(r) \in Int
    BY <2>1, <2>2, <2>3 DEF Taken, TypeOK, TypeProcess
  <2>5. Accounted(r)'
    <3>1. CASE /\ output_lines' = [output_lines EXCEPT ![r] = @ + 1]
               /\ output_truncated' = output_truncated
      BY <1>1, <2>1, <2>4, <3>1 DEF Accounted, TypeOK, TypeOutput
    <3>2. CASE /\ output_lines' = output_lines
               /\ output_truncated' = [output_truncated EXCEPT ![r] = TRUE]
      <4>1. output_truncated'[r] = TRUE /\ output_lines'[r] = output_lines[r]
        BY <3>2 DEF TypeOK, TypeOutput
      <4>2. Taken(r)' > output_lines'[r]
        BY <1>1, <2>4, <4>1 DEF Accounted, TypeOK, TypeOutput
      <4>3. output_lines'[r] <= Taken(r)'
        BY <1>1, <2>4, <4>1 DEF Accounted, TypeOK, TypeOutput
      <4>4. QED
        BY <4>1, <4>2, <4>3 DEF Accounted
    <3>3. QED
      BY <1>2, <3>1, <3>2 DEF ReadLine
  <2>6. Drained(r)'
    BY <2>1 DEF Drained, TypeOK, TypeRequest
  <2>7. \A q \in Requests \ {r} : /\ output_lines'[q] = output_lines[q]
                                  /\ output_truncated'[q] = output_truncated[q]
    BY <1>2 DEF ReadLine, TypeOK, TypeOutput
  <2>8. QED
    BY <2>1, <2>5, <2>6, <2>7, OutputLocal DEF TypeOK, TypeRequest, TypeProcess
<1>3. CASE ReadError(r)
  <2>1. /\ outcome' = [outcome EXCEPT ![r] = "error"]
        /\ pc' = [pc EXCEPT ![r] = "fail"]
        /\ UNCHANGED <<timeUp, outVars, proc, printed>>
        /\ pipe[r] # <<>> /\ pipe' = [pipe EXCEPT ![r] = Tail(pipe[r])]
    BY <1>3 DEF ReadError, Fail, Goto, reqVars
  <2>2. /\ Len(pipe'[r]) = Len(pipe[r]) - 1 /\ Len(pipe[r]) \in Nat
    BY <2>1 DEF TypeOK, TypeProcess
  <2>3. Taken(r)' = Taken(r) + 1 /\ Taken(r) \in Int
    BY <2>1, <2>2 DEF Taken, TypeOK, TypeProcess
  <2>4. Accounted(r)'
    BY <1>1, <2>1, <2>3 DEF Accounted, outVars, TypeOK, TypeOutput, TypeRequest
  <2>5. Drained(r)'
    BY <2>1 DEF Drained, TypeOK, TypeRequest
  <2>6. QED
    BY <2>1, <2>4, <2>5, OutputLocal DEF TypeOK, TypeRequest, TypeProcess, outVars
<1>4. CASE ~ReadLine(r) /\ ~ReadError(r)
  <2>1. /\ UNCHANGED <<timeUp, outVars, pipe, printed>>
        /\ \/ proc' = proc
           \/ pc[r] = "spawn" /\ proc' = [proc EXCEPT ![r] = "live"]
    BY <1>4 DEF ServerStep, Begin, SpawnOk, SpawnFail, Poll, ReadEOF, ReadTimeout,
                WaitDone, TermTimeout, Reap, reqVars, procVars
  <2>2. PICK label \in PCs : Goto(r, label)
    BY <1>4 DEF ServerStep, Begin, SpawnOk, SpawnFail, Poll, ReadEOF, ReadTimeout,
                WaitDone, TermTimeout, Reap, StopTool, Finish, Fail
  <2>3. PICK o \in Outcomes : outcome' = [outcome EXCEPT ![r] = o]
    <3>1. \/ outcome' = outcome
          \/ \E o \in {"busy", "success", "error"} :
                outcome' = [outcome EXCEPT ![r] = o]
      BY <1>4 DEF ServerStep, Begin, SpawnOk, SpawnFail, Poll, ReadEOF,
           ReadTimeout, WaitDone, TermTimeout, Reap, StopTool, Finish, Fail
    <3>2. outcome = [outcome EXCEPT ![r] = outcome[r]] /\ outcome[r] \in Outcomes
      BY DEF TypeOK, TypeRequest
    <3>3. QED
      BY <3>1, <3>2
  <2>4. pc'[r] = label /\ outcome'[r] = o
    BY <2>2, <2>3 DEF Goto, TypeOK, TypeRequest
  <2>5. outcome[r] = "error" => outcome'[r] = "error"
    <3>1. CASE Reap(r)
      BY <3>1 DEF Reap
    <3>2. CASE ~Reap(r)
      BY <1>4, <3>2 DEF OutcomeInv, ServerStep, Begin, SpawnOk, SpawnFail, Poll,
           ReadEOF, ReadTimeout, WaitDone, TermTimeout
    <3>3. QED
      BY <3>1, <3>2
  <2>6. \/ ~timeUp[r] => pipe[r] = <<>> /\ proc[r] = "exited" /\ proc' = proc
        \/ outcome'[r] # "success" /\ label \notin {"term", "kill"}
    <3>1. CASE ReadEOF(r) \/ Poll(r) \/ ReadTimeout(r)
      <4>1. CASE timeUp[r] \/ ReadEOF(r)
        BY <3>1, <4>1 DEF ReadEOF, procVars
      <4>2. CASE ~timeUp[r] /\ ~ReadEOF(r)
        <5>1. /\ pc[r] \in {"poll", "read"} /\ outcome' = outcome
              /\ \E l \in {"poll", "read"} : Goto(r, l)
          BY <3>1, <4>2 DEF Poll, ReadTimeout
        <5>2. QED
          BY <2>4, <5>1 DEF OutcomeInv, Goto, TypeOK, TypeRequest
      <4>3. QED
        BY <4>1, <4>2
    <3>2. CASE WaitDone(r) \/ TermTimeout(r)
      BY <1>1, <3>2 DEF WaitDone, TermTimeout, Drained, procVars
    <3>3. CASE Begin(r) \/ SpawnOk(r) \/ SpawnFail(r)
      <4>1. /\ outcome[r] = "none"
            /\ \E l \in {"done", "spawn", "poll", "fail"} : Goto(r, l)
            /\ \/ outcome' = outcome
               \/ \E x \in {"busy", "error"} : outcome' = [outcome EXCEPT ![r] = x]
        BY <3>3 DEF Begin, SpawnOk, SpawnFail, Fail, OutcomeInv
      <4>2. QED
        BY <2>4, <4>1 DEF Goto, TypeOK, TypeRequest
    <3>4. CASE Reap(r)
      <4>1. outcome' = outcome /\ Goto(r, "done") /\ proc' = proc
        BY <3>4 DEF Reap, procVars
      <4>2. QED
        BY <1>1, <2>4, <4>1 DEF Drained, Goto, TypeOK, TypeRequest
    <3>5. QED
      BY <1>4, <3>1, <3>2, <3>3, <3>4 DEF ServerStep
  <2>7. Drained(r)'
    BY <2>1, <2>4, <2>6 DEF Drained
  <2>8. QED
    BY <2>1, <2>2, <2>3, <2>5, <2>7, OutputMove
<1>5. QED
  BY <1>2, <1>3, <1>4

\* So do all other steps: a printed line is in the pipe, and an exited process
\* prints no more.
LEMMA OutputOthers ==
  ASSUME TypeOK, OutcomeInv, OutputInv, NEW r \in Requests,
         \/ \E t \in Tools : Accept(r, t)
         \/ Refuse(r) \/ SendStep(r) \/ CancelStep(r) \/ ProcessStep(r)
         \/ Disconnect(r) \/ Elapse(r)
  PROVE  OutputInv'
<1> USE DEF PCs, ActivePCs, Outcomes, Unreported
<1>1. Accounted(r) /\ Drained(r)
  BY DEF OutputInv
<1>2. ASSUME NEW size \in LineSizes, PrintLine(r, size)
      PROVE  OutputInv'
  <2>1. /\ proc[r] = "live"
        /\ pipe' = [pipe EXCEPT ![r] = Append(pipe[r], size)]
        /\ printed' = [printed EXCEPT ![r] = printed[r] + 1]
        /\ UNCHANGED <<pc, timeUp, outcome, outVars, proc>>
    BY <1>2 DEF PrintLine, reqVars
  <2>2. Len(pipe'[r]) = Len(pipe[r]) + 1 /\ Len(pipe[r]) \in Nat
    BY <2>1 DEF TypeOK, TypeProcess
  <2>3. Taken(r)' = Taken(r)
    BY <2>1, <2>2 DEF Taken, TypeOK, TypeProcess
  <2>4. Accounted(r)' /\ Drained(r)'
    BY <1>1, <2>1, <2>3 DEF Accounted, Drained, outVars
  <2>5. QED
    BY <2>1, <2>4, OutputLocal DEF TypeOK, TypeProcess, outVars
<1>3. CASE ExitSelf(r) \/ DieOnTerm(r) \/ DieOnKill(r) \/ Observe(r)
  <2>1. /\ UNCHANGED <<pc, timeUp, outcome, outVars, pipe, printed>>
        /\ proc' = [proc EXCEPT ![r] = "exited"] \/ proc' = proc
    BY <1>3 DEF ExitSelf, DieOnTerm, DieOnKill, Die, Observe, reqVars
  <2>2. Accounted(r)' /\ Drained(r)'
    BY <1>1, <2>1 DEF Accounted, Taken, Drained, outVars, TypeOK, TypeProcess
  <2>3. QED
    BY <2>1, <2>2, OutputLocal DEF TypeOK, TypeProcess, outVars
<1>4. CASE Disconnect(r) \/ Elapse(r)
  <2>1. /\ UNCHANGED <<pc, outcome, outVars, proc, pipe, printed>>
        /\ timeUp' = [timeUp EXCEPT ![r] = TRUE] \/ timeUp' = timeUp
    BY <1>4 DEF Disconnect, Elapse, procVars
  <2>2. Accounted(r)' /\ Drained(r)'
    BY <1>1, <2>1 DEF Accounted, Taken, Drained, outVars, TypeOK, TypeRequest
  <2>3. QED
    BY <2>1, <2>2, OutputLocal DEF TypeOK, TypeRequest, outVars
<1>5. CASE \/ \E t \in Tools : Accept(r, t)
           \/ Refuse(r) \/ SendStep(r) \/ CancelStep(r)
  <2>1. /\ UNCHANGED <<timeUp, outVars, pipe, printed>>
        /\ \/ proc' = proc
           \/ pc[r] = "spawn" /\ proc' = [proc EXCEPT ![r] = "live"]
    BY <1>5 DEF Accept, Refuse, SendStep, Resume, Close, CancelStep,
         CancelOutside, CancelSpawn, Cancel, reqVars, procVars
  <2>2. PICK label \in {"begin", "done", "poll", "reap"} : Goto(r, label)
    BY <1>5 DEF Accept, Refuse, SendStep, Resume, Close, CancelStep,
         CancelOutside, CancelSpawn, Cancel, Finally
  <2>3. \/ outcome' = outcome
        \/ /\ outcome[r] = "none"
           /\ \E o \in {"refused", "cancelled"} :
                outcome' = [outcome EXCEPT ![r] = o]
    BY <1>5 DEF Accept, Refuse, SendStep, Resume, Close, CancelStep,
         CancelOutside, CancelSpawn, Cancel, CancelledOutcome, OutcomeInv
  <2>4. /\ \E o \in Outcomes : outcome' = [outcome EXCEPT ![r] = o]
        /\ outcome[r] = "error" => outcome'[r] = "error"
        /\ outcome'[r] = "success" => outcome[r] = "success"
    <3>1. outcome = [outcome EXCEPT ![r] = outcome[r]] /\ outcome[r] \in Outcomes
      BY DEF TypeOK, TypeRequest
    <3>2. QED
      BY <2>3, <3>1 DEF TypeOK, TypeRequest
  <2>5. pc[r] = "spawn" => outcome[r] = "none"
    BY DEF OutcomeInv
  <2>6. pc'[r] = label
    BY <2>2 DEF Goto, TypeOK, TypeRequest
  <2>7. Drained(r)'
    BY <1>1, <2>1, <2>4, <2>5, <2>6 DEF Drained
  <2>8. QED
    BY <2>1, <2>2, <2>4, <2>7, OutputMove
<1>6. QED
  BY <1>2, <1>3, <1>4, <1>5 DEF ProcessStep

\* Every step keeps the output invariant.
LEMMA OutputStep == TypeOK /\ OutcomeInv /\ OutputInv /\ [Next]_vars => OutputInv'
<1> SUFFICES ASSUME TypeOK, OutcomeInv, OutputInv, [Next]_vars PROVE OutputInv'
  OBVIOUS
<1>1. CASE UNCHANGED vars
  BY <1>1 DEF vars, OutputInv, Accounted, Taken, Drained
<1>2. CASE Next
  BY <1>2, OutputServer, OutputOthers DEF Next
<1>3. QED
  BY <1>1, <1>2

\* For any limits and pipe: a line taken from the pipe is in the log or announced
\* as truncated, and a run that succeeds within its time has read everything.
THEOREM OutputCorrect == Spec => []OutputAccounted
<1>1. Init => OutcomeInv
  BY DEF Init, OutcomeInv
<1>2. Init => OutputInv
  BY DEF Init, OutputInv, Accounted, Taken, Drained
<1>3. OutputInv => OutputAccounted
  BY DEF OutputInv, OutputAccounted, Accounted, Taken, Drained
<1>4. QED
  BY <1>1, <1>2, <1>3, OutcomeStep, OutputStep, TypeCorrect, PTL DEF Spec

=============================================================================
