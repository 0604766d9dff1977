---------------------------- MODULE LoaderProofs ----------------------------
(***************************************************************************)
(* Theorems about Loader, for any loaders that can be described to it, any *)
(* sizes of buffer, pipe and pass, and any patience of the client.         *)
(***************************************************************************)
EXTENDS Loader, TLAPS

\* What the assumptions on the constants say of one loader.
LEMMA LoaderFacts ==
  ASSUME NEW l \in Loaders
  PROVE  /\ l.signals \subseteq Signals
         /\ l.place \in {"start", "loaded", "attached"}
         /\ l.first \in {"sleep", "print"}
         /\ l.flush \in {"line", "pass", "never"}
         /\ l.period \in Nat /\ l.split \in BOOLEAN /\ l.alloc \in BOOLEAN
BY LoaderAssumption DEF LoaderType

\* And of the sizes.
LEMMA SizeFacts ==
  MaxPass \in Nat /\ BufferCap \in Nat /\ PipeCap \in Nat /\ KillAfter \in Nat
BY LoaderAssumption

-----------------------------------------------------------------------------
(* Types *)

\* The flags stay flags.
LEMMA FlagTypes ==
  ASSUME TypeOK, [Next]_vars
  PROVE  exiting' \in BOOLEAN /\ stuck' \in BOOLEAN
<1>1. exiting \in BOOLEAN /\ stuck \in BOOLEAN
  BY DEF TypeOK
<1>2. CASE LoaderStep \/ Read \/ Kill \/ Abandon \/ UNCHANGED vars
  BY <1>1, <1>2, Zenon DEF LoaderStep, Start, Open, Load, Loaded, Attach, Attached, Test,
     Sleep, Awake, BeginPass, Line, Write, Cleanup, Exit, Read, Kill, Abandon, vars
<1>3. CASE Tick
  BY <1>1, <1>3, Zenon DEF Tick
<1>4. CASE \E s \in Signals : Signal(s)
  BY <1>1, <1>4, Zenon DEF Signal
<1>5. QED
  BY <1>2, <1>3, <1>4 DEF Next

\* The state of every loader has its type in every reachable state: in
\* particular neither the buffer of stdio nor the pipe overflows.
THEOREM LoaderTypeCorrect == Spec => []TypeOK
<1> USE SizeFacts DEF TypeOK, Booting, Looping, Signals, Goto, Alive, outVars,
        heapVars
<1>1. Init => TypeOK
  <2> SUFFICES ASSUME Init PROVE TypeOK
    OBVIOUS
  <2>1. exiting \in BOOLEAN /\ stuck \in BOOLEAN
    BY Zenon DEF Init
  <2>2. QED
    BY <2>1 DEF Init
<1>2. TypeOK /\ [Next]_vars => TypeOK'
  <2> SUFFICES ASSUME TypeOK, [Next]_vars PROVE TypeOK'
    OBVIOUS
  <2> exiting' \in BOOLEAN /\ stuck' \in BOOLEAN
    BY FlagTypes
  <2>1. CASE Start
    BY <2>1, LoaderFacts DEF Start, Install
  <2>2. CASE Open
    BY <2>2 DEF Open
  <2>3. CASE Load
    BY <2>3 DEF Load
  <2>4. CASE Loaded
    BY <2>4, LoaderFacts DEF Loaded, Install
  <2>5. CASE Attach
    BY <2>5 DEF Attach
  <2>6. CASE Attached
    BY <2>6, LoaderFacts DEF Attached, Install
  <2>7. CASE Test
    BY <2>7, LoaderFacts DEF Test
  <2>8. CASE Sleep
    BY <2>8, LoaderFacts DEF Sleep
  <2>9. CASE Awake
    BY <2>9 DEF Awake
  <2>10. CASE BeginPass
    BY <2>10 DEF BeginPass
  <2>11. CASE Line
    BY <2>11 DEF Line
  <2>12. CASE Write
    BY <2>12 DEF Write
  <2>13. CASE Cleanup \/ Exit
    BY <2>13 DEF Cleanup, Exit
  <2>14. CASE Read \/ Kill \/ Abandon
    <3>1. CASE Read
      BY <3>1 DEF Read
    <3>2. CASE Kill \/ Abandon
      BY <3>2 DEF Kill, Abandon
    <3>3. QED
      BY <2>14, <3>1, <3>2
  <2>15. CASE Tick
    <3>1. /\ left' = IF left > 0 THEN left - 1 ELSE 0
          /\ age' = IF age \in 0..(KillAfter - 1) THEN age + 1 ELSE age
          /\ UNCHANGED <<loader, pc, handled, heapVars, outVars, fate, late>>
      BY <2>15, Zenon DEF Tick
    <3>2. QED
      BY <3>1
  <2>16. CASE \E s \in Signals : Signal(s)
    BY <2>16 DEF Signal
  <2>17. CASE UNCHANGED vars
    BY <2>17 DEF vars
  <2>18. QED
    BY <2>1, <2>2, <2>3, <2>4, <2>5, <2>6, <2>7, <2>8, <2>9, <2>10, <2>11, <2>12,
       <2>13, <2>14, <2>15, <2>16, <2>17 DEF Next, LoaderStep
<1>3. QED
  BY <1>1, <1>2, PTL DEF Spec

-----------------------------------------------------------------------------
(* The inductive invariant *)

\* Nothing is obtained before its time; a return has nothing left to give back.
HeapInv ==
    /\ pc \in Booting => pids = "none"
    /\ pc \in {"start", "open"} => skel = "none"
    /\ pc = "return" => skel # "open" /\ pids # "allocated"
    /\ skel = "destroyed" \/ pids = "freed" => pc = "return"
    /\ fate = "returned" => pc = "return"

\* The handlers are there from where the loader installs them, at the latest when
\* its loop begins.
HandlerInv ==
    \/ loader.signals \subseteq handled
    \/ pc = "start"
    \/ loader.place # "start" /\ pc \in {"open", "load", "loaded"}
    \/ loader.place = "attached" /\ pc \in {"attach", "attached"}
    \/ pc \in {"cleanup", "return"}

\* Nothing is in the buffer before the loop, and the handlers are in place when
\* something is; a loader that flushes has at most one pass there.
BufferInv ==
    /\ pc \in Booting => buffer = 0
    /\ ~(loader.signals \subseteq handled) => buffer = 0
    /\ fate \in {"returned"} \cup loader.signals => buffer = 0
    /\ loader.flush # "never" =>
          /\ buffer <= MaxPass
          /\ pc \in {"line", "flush"} => walk <= MaxPass - buffer
          /\ pc \notin {"line", "flush"} => buffer = 0
    /\ loader.flush = "line" /\ pc = "line" => buffer = 0

\* A pass begun after the signal is the last one: the flag is tested before
\* another can begin.
PassInv ==
    /\ late <= 1
    /\ ~exiting => late = 0
    /\ late = 1 =>
          pc \in {"line", "flush", "test", "cleanup", "return"}
                \cup (IF loader.first = "print" THEN {"sleep", "sleeping"} ELSE {})

\* Unless it is blocked, a loader that has got SIGTERM sleeps once more at most,
\* and age counts the seconds of that sleep.
AgeInv ==
    /\ Alive /\ age >= 0 => exiting
    /\ Alive /\ ~stuck =>
          /\ age <= loader.period
          /\ pc = "sleeping" /\ age >= 0 => age + left <= loader.period
          /\ pc = "sleeping" => left <= loader.period
          /\ pc \in Booting \cup {"sleep"} => age <= 0
          /\ loader.first = "print" /\ pc \in {"print", "line", "flush"} => age <= 0
    /\ fate = "KILL" /\ loader.period < KillAfter => stuck

LoaderInv == HeapInv /\ HandlerInv /\ BufferInv /\ PassInv /\ AgeInv

\* Every step keeps the heap invariant.
LEMMA HeapStep ==
  ASSUME TypeOK, HeapInv, [Next]_vars
  PROVE  HeapInv'
<1> USE SizeFacts, LoaderFacts DEF TypeOK, HeapInv, Booting, Looping, Goto, Alive, outVars, heapVars
<1>1. CASE Start
  BY <1>1 DEF Start, Install
<1>2. CASE Open
  BY <1>2 DEF Open
<1>3. CASE Load
  BY <1>3 DEF Load
<1>4. CASE Loaded
  BY <1>4 DEF Loaded, Install
<1>5. CASE Attach
  BY <1>5 DEF Attach
<1>6. CASE Attached
  BY <1>6 DEF Attached, Install
<1>7. CASE Test
  BY <1>7 DEF Test
<1>8. CASE Sleep
  BY <1>8 DEF Sleep
<1>9. CASE Awake
  BY <1>9 DEF Awake
<1>10. CASE BeginPass
  BY <1>10 DEF BeginPass
<1>11. CASE Line
  BY <1>11 DEF Line
<1>12. CASE Write
  BY <1>12 DEF Write
<1>13. CASE Cleanup
  BY <1>13 DEF Cleanup
<1>14. CASE Exit
  BY <1>14 DEF Exit
<1>15. CASE Read
  BY <1>15 DEF Read
<1>16. CASE Kill \/ Abandon
  BY <1>16 DEF Kill, Abandon
<1>17. CASE Tick
  BY <1>17 DEF Tick, Blocked
<1>18. CASE \E s \in Signals : Signal(s)
  BY <1>18 DEF Signal, Signals
<1>19. CASE UNCHANGED vars
  BY <1>19 DEF vars
<1>20. QED
  BY <1>1, <1>2, <1>3, <1>4, <1>5, <1>6, <1>7, <1>8, <1>9, <1>10, <1>11, <1>12, <1>13, <1>14, <1>15, <1>16, <1>17, <1>18, <1>19 DEF Next, LoaderStep

\* Every step keeps the handlers in place.
LEMMA HandlerStep ==
  ASSUME TypeOK, HandlerInv, [Next]_vars
  PROVE  HandlerInv'
<1> USE SizeFacts, LoaderFacts DEF TypeOK, HandlerInv, Booting, Looping, Goto, Alive, outVars, heapVars, Signals
<1>1. CASE Start
  BY <1>1 DEF Start, Install
<1>2. CASE Open
  BY <1>2 DEF Open
<1>3. CASE Load
  BY <1>3 DEF Load
<1>4. CASE Loaded
  BY <1>4 DEF Loaded, Install
<1>5. CASE Attach
  BY <1>5 DEF Attach
<1>6. CASE Attached
  BY <1>6 DEF Attached, Install
<1>7. CASE Test
  BY <1>7 DEF Test
<1>8. CASE Sleep
  BY <1>8 DEF Sleep
<1>9. CASE Awake
  BY <1>9 DEF Awake
<1>10. CASE BeginPass
  BY <1>10 DEF BeginPass
<1>11. CASE Line
  BY <1>11 DEF Line
<1>12. CASE Write
  BY <1>12 DEF Write
<1>13. CASE Cleanup
  BY <1>13 DEF Cleanup
<1>14. CASE Exit
  BY <1>14 DEF Exit
<1>15. CASE Read
  BY <1>15 DEF Read
<1>16. CASE Kill \/ Abandon
  BY <1>16 DEF Kill, Abandon
<1>17. CASE Tick
  BY <1>17 DEF Tick, Blocked
<1>18. CASE \E s \in Signals : Signal(s)
  BY <1>18 DEF Signal
<1>19. CASE UNCHANGED vars
  BY <1>19 DEF vars
<1>20. QED
  BY <1>1, <1>2, <1>3, <1>4, <1>5, <1>6, <1>7, <1>8, <1>9, <1>10, <1>11, <1>12, <1>13, <1>14, <1>15, <1>16, <1>17, <1>18, <1>19 DEF Next, LoaderStep

\* Every step keeps the buffer within its bounds.
LEMMA BufferStep ==
  ASSUME TypeOK, BufferInv, HandlerInv, [Next]_vars
  PROVE  BufferInv'
<1> USE SizeFacts, LoaderFacts DEF TypeOK, BufferInv, HandlerInv, Booting, Looping, Goto, Alive, outVars, heapVars, Signals
<1>1. CASE Start
  BY <1>1 DEF Start, Install
<1>2. CASE Open
  BY <1>2 DEF Open
<1>3. CASE Load
  BY <1>3 DEF Load
<1>4. CASE Loaded
  BY <1>4 DEF Loaded, Install
<1>5. CASE Attach
  BY <1>5 DEF Attach
<1>6. CASE Attached
  BY <1>6 DEF Attached, Install
<1>7. CASE Test
  BY <1>7 DEF Test
<1>8. CASE Sleep
  BY <1>8 DEF Sleep
<1>9. CASE Awake
  BY <1>9 DEF Awake
<1>10. CASE BeginPass
  <2>1. /\ pc = "print" /\ pc' = "line" /\ walk' \in 0..MaxPass
        /\ loader' = loader /\ handled' = handled /\ buffer' = buffer /\ fate' = fate
    BY <1>10 DEF BeginPass
  <2>2. loader.flush # "never" => buffer = 0
    BY <2>1
  <2>3. loader'.flush # "never" => buffer' <= MaxPass /\ walk' <= MaxPass - buffer'
    BY <2>1, <2>2
  <2>4. loader'.flush = "line" => buffer' = 0
    BY <2>1, <2>2
  <2>5. /\ ~(loader'.signals \subseteq handled') => buffer' = 0
        /\ fate' \in {"returned"} \cup loader'.signals => buffer' = 0
    BY <2>1
  <2>6. QED
    BY <2>1, <2>3, <2>4, <2>5, Zenon
<1>11. CASE Line
  <2>1. CASE walk > 0
    <3>1. /\ walk' = walk - 1 /\ buffer' = buffer + 1
          /\ pc' = IF loader.flush = "line" THEN "flush" ELSE "line"
          /\ pc = "line" /\ fate = "alive"
          /\ loader' = loader /\ handled' = handled /\ fate' = fate
      BY <1>11, <2>1 DEF Line
    <3>2. loader.signals \subseteq handled
      BY <3>1
    <3>3. loader.flush # "never" => walk' <= MaxPass - buffer' /\ buffer' <= MaxPass
      BY <2>1, <3>1
    <3>4. /\ loader'.signals \subseteq handled'
          /\ fate' \notin {"returned"} \cup loader'.signals
          /\ ~(loader'.flush = "line" /\ pc' = "line")
          /\ pc' \in {"line", "flush"}
      BY <3>1, <3>2 DEF Signals
    <3>5. QED
      BY <3>1, <3>3, <3>4
  <2>2. CASE walk = 0
    BY <1>11, <2>2 DEF Line
  <2>3. QED
    BY <2>1, <2>2
<1>12. CASE Write
  BY <1>12 DEF Write
<1>13. CASE Cleanup
  BY <1>13 DEF Cleanup
<1>14. CASE Exit
  BY <1>14 DEF Exit
<1>15. CASE Read
  BY <1>15 DEF Read
<1>16. CASE Kill \/ Abandon
  BY <1>16 DEF Kill, Abandon
<1>17. CASE Tick
  BY <1>17 DEF Tick, Blocked
<1>18. CASE \E s \in Signals : Signal(s)
  BY <1>18 DEF Signal
<1>19. CASE UNCHANGED vars
  BY <1>19 DEF vars
<1>20. QED
  BY <1>1, <1>2, <1>3, <1>4, <1>5, <1>6, <1>7, <1>8, <1>9, <1>10, <1>11, <1>12, <1>13, <1>14, <1>15, <1>16, <1>17, <1>18, <1>19 DEF Next, LoaderStep

\* Every step keeps the count of late passes.
LEMMA PassStep ==
  ASSUME TypeOK, PassInv, [Next]_vars
  PROVE  PassInv'
<1> USE SizeFacts, LoaderFacts DEF TypeOK, PassInv, Booting, Looping, Goto, Alive, outVars, heapVars
<1>1. CASE Start
  BY <1>1 DEF Start, Install
<1>2. CASE Open
  BY <1>2 DEF Open
<1>3. CASE Load
  BY <1>3 DEF Load
<1>4. CASE Loaded
  BY <1>4 DEF Loaded, Install
<1>5. CASE Attach
  BY <1>5 DEF Attach
<1>6. CASE Attached
  BY <1>6 DEF Attached, Install
<1>7. CASE Test
  BY <1>7 DEF Test
<1>8. CASE Sleep
  BY <1>8 DEF Sleep
<1>9. CASE Awake
  BY <1>9 DEF Awake
<1>10. CASE BeginPass
  BY <1>10 DEF BeginPass
<1>11. CASE Line
  BY <1>11 DEF Line
<1>12. CASE Write
  BY <1>12 DEF Write
<1>13. CASE Cleanup
  BY <1>13 DEF Cleanup
<1>14. CASE Exit
  BY <1>14 DEF Exit
<1>15. CASE Read
  BY <1>15 DEF Read
<1>16. CASE Kill \/ Abandon
  BY <1>16 DEF Kill, Abandon
<1>17. CASE Tick
  BY <1>17 DEF Tick, Blocked
<1>18. CASE \E s \in Signals : Signal(s)
  BY <1>18 DEF Signal
<1>19. CASE UNCHANGED vars
  BY <1>19 DEF vars
<1>20. QED
  BY <1>1, <1>2, <1>3, <1>4, <1>5, <1>6, <1>7, <1>8, <1>9, <1>10, <1>11, <1>12, <1>13, <1>14, <1>15, <1>16, <1>17, <1>18, <1>19 DEF Next, LoaderStep

\* Every step keeps the account of time.
LEMMA AgeStep ==
  ASSUME TypeOK, AgeInv, BufferInv, [Next]_vars
  PROVE  AgeInv'
<1> USE SizeFacts, LoaderFacts DEF TypeOK, AgeInv, BufferInv, Booting, Looping, Goto, Alive, outVars, heapVars, Signals
<1>1. CASE Start
  BY <1>1 DEF Start, Install
<1>2. CASE Open
  BY <1>2 DEF Open
<1>3. CASE Load
  BY <1>3 DEF Load
<1>4. CASE Loaded
  BY <1>4 DEF Loaded, Install
<1>5. CASE Attach
  BY <1>5 DEF Attach
<1>6. CASE Attached
  BY <1>6 DEF Attached, Install
<1>7. CASE Test
  BY <1>7 DEF Test
<1>8. CASE Sleep
  BY <1>8 DEF Sleep
<1>9. CASE Awake
  BY <1>9 DEF Awake
<1>10. CASE BeginPass
  BY <1>10 DEF BeginPass
<1>11. CASE Line
  BY <1>11 DEF Line
<1>12. CASE Write
  BY <1>12 DEF Write
<1>13. CASE Cleanup
  BY <1>13 DEF Cleanup
<1>14. CASE Exit
  BY <1>14 DEF Exit
<1>15. CASE Read
  BY <1>15 DEF Read
<1>16. CASE Kill \/ Abandon
  BY <1>16 DEF Kill, Abandon
<1>17. CASE Tick
  BY <1>17 DEF Tick, Blocked
<1>18. CASE \E s \in Signals : Signal(s)
  BY <1>18 DEF Signal
<1>19. CASE UNCHANGED vars
  BY <1>19 DEF vars
<1>20. QED
  BY <1>1, <1>2, <1>3, <1>4, <1>5, <1>6, <1>7, <1>8, <1>9, <1>10, <1>11, <1>12, <1>13, <1>14, <1>15, <1>16, <1>17, <1>18, <1>19 DEF Next, LoaderStep

-----------------------------------------------------------------------------
\* The invariant holds in every reachable state of every loader.
LEMMA LoaderInvariant == Spec => []LoaderInv
<1>1. Init => LoaderInv
  <2> SUFFICES ASSUME Init PROVE LoaderInv
    OBVIOUS
  <2>1. HeapInv /\ HandlerInv
    BY DEF Init, HeapInv, HandlerInv
  <2>2. BufferInv
    BY SizeFacts DEF Init, BufferInv
  <2>3. PassInv
    BY DEF Init, PassInv
  <2>4. AgeInv
    BY SizeFacts, LoaderFacts DEF Init, AgeInv, Alive
  <2>5. QED
    BY <2>1, <2>2, <2>3, <2>4 DEF LoaderInv
<1>2. TypeOK /\ LoaderInv /\ [Next]_vars => LoaderInv'
  BY HeapStep, HandlerStep, BufferStep, PassStep, AgeStep DEF LoaderInv
<1>3. QED
  BY <1>1, <1>2, LoaderTypeCorrect, PTL DEF Spec

\* Whichever of open, load, attach and the allocation fails, and whenever signals
\* come, a main that returns has destroyed its skeleton and freed its array, and
\* uses neither afterwards.
THEOREM ReleaseCorrect == Spec => []ReleasedOnReturn
<1>1. LoaderInv => ReleasedOnReturn
  BY DEF LoaderInv, HeapInv, ReleasedOnReturn
<1>2. QED
  BY <1>1, LoaderInvariant, PTL

\* No number of handled signals, at whatever points of main, costs a line that was
\* taken out of the maps.
THEOREM SignalCorrect == Spec => []SignalLosesNothing
<1>1. LoaderInv => SignalLosesNothing
  BY DEF LoaderInv, BufferInv, SignalLosesNothing
<1>2. QED
  BY <1>1, LoaderInvariant, PTL

\* A loader that flushes never has more than one pass to lose, for any size of
\* the buffer of stdio.
THEOREM LossCorrect == Spec => []LossAtMostOnePass
<1>1. LoaderInv => LossAtMostOnePass
  BY DEF LoaderInv, BufferInv, LossAtMostOnePass
<1>2. QED
  BY <1>1, LoaderInvariant, PTL

\* At most one pass is begun after a handled signal.
THEOREM PassCorrect == Spec => []OneMorePass
<1>1. LoaderInv => OneMorePass
  BY DEF LoaderInv, PassInv, OneMorePass
<1>2. QED
  BY <1>1, LoaderInvariant, PTL

\* When the time of a run is up, then for any patience of the client and any sleep
\* shorter than it, a loader that handles SIGTERM is killed only if it was blocked
\* in write(2).  (A cancelled run is no part of this: it is killed at once.)
THEOREM KillCorrect == Spec => []KilledOnlyIfStuck
<1>1. LoaderInv => KilledOnlyIfStuck
  BY DEF LoaderInv, AgeInv, KilledOnlyIfStuck
<1>2. QED
  BY <1>1, LoaderInvariant, PTL

=============================================================================
