------------------------------- MODULE Loader -------------------------------
(***************************************************************************)
(* The life of a user-space loader: the main function of every tool under  *)
(* my_tools, seen from its process.  It opens, loads and attaches its      *)
(* skeleton, installs its signal handlers somewhere on the way, and then   *)
(* sleeps and prints until a handler sets `exiting'.  What it prints it    *)
(* has taken out of the maps (or will not print again), so a line that is  *)
(* lost in the buffer of stdio is lost for good.  How the loaders differ   *)
(* is data (module Loaders).                                               *)
(*                                                                         *)
(* The client reads the other end of the pipe; at the end of a run it      *)
(* sends SIGTERM, and SIGKILL if the process is still there KillAfter      *)
(* seconds later.  A run that is cancelled, because the browser has left,  *)
(* ends with SIGKILL at once.  Time passes only while the loader sleeps or *)
(* is blocked in write(2): a pass takes much less than a second.           *)
(*                                                                         *)
(* External: signal() keeps the handler installed and restarts write(2),   *)
(* but not sleep(3); stdout is a pipe, so stdio writes when its buffer is  *)
(* full, on fflush and on return from main; libbpf.                        *)
(***************************************************************************)
EXTENDS Integers, Sequences, Functions

CONSTANTS
    Loaders,        \* the loader descriptions under study
    MaxPass,        \* bound: lines printed in one pass
    BufferCap,      \* lines that fit in the buffer of stdio
    PipeCap,        \* lines that fit in the pipe
    KillAfter       \* seconds from SIGTERM to SIGKILL

Signals == {"INT", "TERM"}

\* What there is to know of a loader, see module Loaders.
LoaderType ==
    [name : STRING, signals : SUBSET Signals, place : {"start", "loaded", "attached"},
     split : BOOLEAN, alloc : BOOLEAN, first : {"sleep", "print"}, period : Nat,
     flush : {"line", "pass", "never"}]

ASSUME LoaderAssumption ==
    /\ Loaders \subseteq LoaderType
    /\ {MaxPass, BufferCap, PipeCap, KillAfter} \subseteq Nat

VARIABLES
    loader,
    pc,
    handled,        \* signals with a handler
    exiting,
    skel,           \* the skeleton
    pids,           \* the array read_stat allocates
    walk,           \* lines left to print in this pass
    buffer, pipe,   \* lines in stdio and in the pipe
    left,           \* seconds left to sleep
    age,            \* seconds since SIGTERM, -1 before
    fate,           \* how the process ended
    late, stuck     \* history: passes begun after `exiting' was set; was the
                    \* loader blocked for a second after SIGTERM?

heapVars == <<skel, pids>>
outVars  == <<walk, buffer, pipe>>
vars == <<loader, pc, handled, exiting, skel, pids, walk, buffer, pipe, left, age,
          fate, late, stuck>>

Alive == fate = "alive"

Init ==
    /\ loader \in Loaders
    /\ pc = "start" /\ handled = {} /\ exiting = FALSE
    /\ skel = "none" /\ pids = "none"
    /\ walk = 0 /\ buffer = 0 /\ pipe = 0
    /\ left = 0 /\ age = -1 /\ fate = "alive" /\ late = 0 /\ stuck = FALSE

Goto(label) == pc' = label

\* The handlers are installed where the loader does it.
Install(place) ==
    handled' = IF loader.place = place THEN handled \cup loader.signals ELSE handled

-----------------------------------------------------------------------------
(* Up to the loop *)

Start ==
    /\ Alive /\ pc = "start"
    /\ Install("start")
    /\ Goto("open")
    /\ UNCHANGED <<loader, exiting, heapVars, outVars, left, age, fate, late, stuck>>

\* __open or __open_and_load; NULL is `return 1'.
Open ==
    /\ Alive /\ pc = "open"
    /\ \/ skel' = "open" /\ Goto(IF loader.split THEN "load" ELSE "loaded")
       \/ skel' = "none" /\ Goto("return")
    /\ UNCHANGED <<loader, handled, exiting, pids, outVars, left, age, fate, late, stuck>>

\* __load of a loader that opens and loads in two calls.
Load ==
    /\ Alive /\ pc = "load"
    /\ Goto("loaded") \/ Goto("cleanup")
    /\ UNCHANGED <<loader, handled, exiting, heapVars, outVars, left, age, fate,
                   late, stuck>>

Loaded ==
    /\ Alive /\ pc = "loaded"
    /\ Install("loaded")
    /\ Goto("attach")
    /\ UNCHANGED <<loader, exiting, heapVars, outVars, left, age, fate, late, stuck>>

\* Faulty variant of Attach: a failed kprobe returns without destroying.
AttachLeaks ==
    /\ Alive /\ pc = "attach"
    /\ Goto("attached") \/ Goto("return")
    /\ UNCHANGED <<loader, handled, exiting, heapVars, outVars, left, age, fate,
                   late, stuck>>

\* __attach, or one kprobe after the other; a failure goes to the clean-up.
Attach ==
    /\ Alive /\ pc = "attach"
    /\ Goto("attached") \/ Goto("cleanup")
    /\ UNCHANGED <<loader, handled, exiting, heapVars, outVars, left, age, fate,
                   late, stuck>>

\* page_fault_stat installs its handlers, read_stat allocates its array.
Attached ==
    /\ Alive /\ pc = "attached"
    /\ Install("attached")
    /\ \/ ~loader.alloc /\ Goto("test") /\ UNCHANGED pids
       \/ loader.alloc /\ pids' = "allocated" /\ Goto("test")
       \/ loader.alloc /\ Goto("cleanup") /\ UNCHANGED pids
    /\ UNCHANGED <<loader, exiting, skel, outVars, left, age, fate, late, stuck>>

-----------------------------------------------------------------------------
(* The loop *)

\* Faulty variant of Test: `while (1)' where the flag should be looked at.
TestNot ==
    /\ Alive /\ pc = "test"
    /\ Goto(loader.first)
    /\ UNCHANGED <<loader, handled, exiting, heapVars, outVars, left, age, fate,
                   late, stuck>>

\* while (!exiting), or while (1) without a handler.
Test ==
    /\ Alive /\ pc = "test"
    /\ Goto(IF exiting THEN "cleanup" ELSE loader.first)
    /\ UNCHANGED <<loader, handled, exiting, heapVars, outVars, left, age, fate,
                   late, stuck>>

\* Faulty variant of Sleep: every loader sleeps for as long as the client waits.
SleepLonger ==
    /\ Alive /\ pc = "sleep"
    /\ left' = KillAfter
    /\ Goto("sleeping")
    /\ UNCHANGED <<loader, handled, exiting, heapVars, outVars, age, fate, late,
                   stuck>>

Sleep ==
    /\ Alive /\ pc = "sleep"
    /\ left' = loader.period
    /\ Goto("sleeping")
    /\ UNCHANGED <<loader, handled, exiting, heapVars, outVars, age, fate, late, stuck>>

Awake ==
    /\ Alive /\ pc = "sleeping" /\ left = 0
    /\ Goto(IF loader.first = "sleep" THEN "print" ELSE "test")
    /\ UNCHANGED <<loader, handled, exiting, heapVars, outVars, left, age, fate,
                   late, stuck>>

\* A pass begins; it finds some lines to print.
BeginPass ==
    /\ Alive /\ pc = "print"
    /\ walk' \in 0..MaxPass
    /\ late' = IF exiting THEN late + 1 ELSE late
    /\ Goto("line")
    /\ UNCHANGED <<loader, handled, exiting, heapVars, buffer, pipe, left, age,
                   fate, stuck>>

\* Faulty variant of Line: the pass ends without fflush.
LineNoFlush ==
    /\ Alive /\ pc = "line"
    /\ buffer < BufferCap
    /\ \/ /\ walk > 0
          /\ walk' = walk - 1 /\ buffer' = buffer + 1
          /\ UNCHANGED pc
       \/ /\ walk = 0
          /\ Goto(IF loader.first = "sleep" THEN "test" ELSE "sleep")
          /\ UNCHANGED <<walk, buffer>>
    /\ UNCHANGED <<loader, handled, exiting, heapVars, pipe, left, age, fate, late, stuck>>

\* printf, and fflush after each line or at the end of the pass.
Line ==
    /\ Alive /\ pc = "line"
    /\ buffer < BufferCap
    /\ \/ /\ walk > 0
          /\ walk' = walk - 1 /\ buffer' = buffer + 1
          /\ Goto(IF loader.flush = "line" THEN "flush" ELSE "line")
       \/ /\ walk = 0
          /\ Goto(IF loader.flush = "pass" /\ buffer > 0 THEN "flush"
                  ELSE IF loader.first = "sleep" THEN "test" ELSE "sleep")
          /\ UNCHANGED <<walk, buffer>>
    /\ UNCHANGED <<loader, handled, exiting, heapVars, pipe, left, age, fate, late, stuck>>

\* Faulty variant of Write: an interrupted write is not taken up again.
WriteInterrupted ==
    /\ Alive /\ ~exiting
    /\ buffer > 0 /\ pipe < PipeCap
    /\ \/ pc = "flush"
       \/ pc = "line" /\ buffer = BufferCap
       \/ pc = "return"
    /\ buffer' = buffer - 1 /\ pipe' = pipe + 1
    /\ pc' = IF buffer' = 0 /\ pc = "flush" THEN "line"
             ELSE IF pc = "line" THEN "flush" ELSE pc
    /\ UNCHANGED <<loader, handled, exiting, heapVars, walk, left, age, fate, late,
                   stuck>>

\* write(2), of a flush, of a full buffer or on return; blocks on a full pipe.
Write ==
    /\ Alive
    /\ buffer > 0 /\ pipe < PipeCap
    /\ \/ pc = "flush"
       \/ pc = "line" /\ buffer = BufferCap
       \/ pc = "return"
    /\ buffer' = buffer - 1 /\ pipe' = pipe + 1
    /\ pc' = IF buffer' = 0 /\ pc = "flush" THEN "line"
             ELSE IF pc = "line" THEN "flush" ELSE pc
    /\ UNCHANGED <<loader, handled, exiting, heapVars, walk, left, age, fate, late, stuck>>

-----------------------------------------------------------------------------
(* The end *)

\* cleanup: free the array and destroy the skeleton.
Cleanup ==
    /\ Alive /\ pc = "cleanup"
    /\ skel' = "destroyed"
    /\ pids' = IF pids = "allocated" THEN "freed" ELSE pids
    /\ Goto("return")
    /\ UNCHANGED <<loader, handled, exiting, outVars, left, age, fate, late, stuck>>

\* main has returned and stdio has flushed.
Exit ==
    /\ Alive /\ pc = "return" /\ buffer = 0
    /\ fate' = "returned"
    /\ UNCHANGED <<loader, pc, handled, exiting, heapVars, outVars, left, age, late, stuck>>

-----------------------------------------------------------------------------
(* The client, and time *)

\* Faulty variant of Signal: a handler that works once only.
SignalOnce(s) ==
    /\ Alive
    /\ age' = IF s = "TERM" /\ age < 0 THEN 0 ELSE age
    /\ \/ /\ s \in handled
          /\ exiting' = TRUE /\ handled' = {}
          /\ left' = 0
          /\ UNCHANGED fate
       \/ /\ s \notin handled
          /\ fate' = s
          /\ UNCHANGED <<exiting, left, handled>>
    /\ UNCHANGED <<loader, pc, heapVars, outVars, late, stuck>>

\* A signal, once or again: the handler sets the flag and ends a sleep; without
\* a handler the process dies.
Signal(s) ==
    /\ Alive
    /\ age' = IF s = "TERM" /\ age < 0 THEN 0 ELSE age
    /\ \/ /\ s \in handled
          /\ exiting' = TRUE
          /\ left' = 0
          /\ UNCHANGED fate
       \/ /\ s \notin handled
          /\ fate' = s
          /\ UNCHANGED <<exiting, left>>
    /\ UNCHANGED <<loader, pc, handled, heapVars, outVars, late, stuck>>

\* The client reads a line; after SIGTERM it may stop to.
Read ==
    /\ pipe > 0
    /\ pipe' = pipe - 1
    /\ UNCHANGED <<loader, pc, handled, exiting, heapVars, walk, buffer, left, age,
                   fate, late, stuck>>

\* The run's time was up, and SIGTERM did not end the process in time.
Kill ==
    /\ Alive /\ age >= KillAfter
    /\ fate' = "KILL"
    /\ UNCHANGED <<loader, pc, handled, exiting, heapVars, outVars, left, age, late, stuck>>

\* The run is cancelled, at any moment: SIGKILL without SIGTERM before it and
\* without a wait.
Abandon ==
    /\ Alive
    /\ fate' = "ABANDON"
    /\ UNCHANGED <<loader, pc, handled, exiting, heapVars, outVars, left, age, late, stuck>>

\* Waiting for room in the pipe.
Blocked ==
    /\ buffer > 0 /\ pipe = PipeCap
    /\ pc \in {"flush", "return"} \/ (pc = "line" /\ buffer = BufferCap)

\* Faulty variant of Tick: the time left to sleep is not checked.
TickPast ==
    /\ Alive
    /\ (pc = "sleeping" /\ left > 0) \/ Blocked
    /\ left' = left - 1
    /\ age' = IF age \in 0..(KillAfter - 1) THEN age + 1 ELSE age
    /\ stuck' = (stuck \/ (Blocked /\ age >= 0))
    /\ UNCHANGED <<loader, pc, handled, exiting, heapVars, outVars, fate, late>>

\* A second passes.
Tick ==
    /\ Alive
    /\ (pc = "sleeping" /\ left > 0) \/ Blocked
    /\ left' = IF left > 0 THEN left - 1 ELSE 0
    /\ age' = IF age \in 0..(KillAfter - 1) THEN age + 1 ELSE age
    /\ stuck' = (stuck \/ (Blocked /\ age >= 0))
    /\ UNCHANGED <<loader, pc, handled, exiting, heapVars, outVars, fate, late>>

-----------------------------------------------------------------------------
LoaderStep ==
    \/ Start \/ Open \/ Load \/ Loaded \/ Attach \/ Attached
    \/ Test \/ Sleep \/ Awake \/ BeginPass \/ Line \/ Write \/ Cleanup \/ Exit

Next == LoaderStep \/ Read \/ Kill \/ Abandon \/ Tick \/ \E s \in Signals : Signal(s)

Spec == Init /\ [][Next]_vars

\* The process runs, the client (or a terminal) reads, time passes.  SIGKILL is
\* not counted on: at a terminal nobody sends it.
FairSpec == Spec /\ WF_vars(LoaderStep) /\ WF_vars(Read) /\ WF_vars(Tick)

-----------------------------------------------------------------------------
(* Properties *)

Booting == {"start", "open", "load", "loaded", "attach", "attached"}
Looping == {"test", "sleep", "sleeping", "print", "line", "flush"}

\* The state has its type.
TypeOK ==
    /\ loader \in Loaders
    /\ pc \in Booting \cup Looping \cup {"cleanup", "return"}
    /\ handled \subseteq Signals /\ exiting \in BOOLEAN /\ stuck \in BOOLEAN
    /\ skel \in {"none", "open", "destroyed"}
    /\ pids \in {"none", "allocated", "freed"}
    /\ walk \in 0..MaxPass /\ buffer \in 0..BufferCap /\ pipe \in 0..PipeCap
    /\ left \in Nat /\ late \in Nat /\ age \in -1..KillAfter
    /\ fate \in {"alive", "returned", "KILL", "ABANDON"} \cup Signals

\* Whichever step fails and whenever a signal comes, a main that returns has given
\* back what it got, and nothing is used after it was given back.
ReleasedOnReturn ==
    /\ fate = "returned" => skel # "open" /\ pids # "allocated"
    /\ skel = "destroyed" \/ pids = "freed" => pc = "return"

\* A loader with handlers that dies of any number of these signals, or returns
\* because of them, has lost none of the lines it took out of the maps.
SignalLosesNothing ==
    fate \in {"returned"} \cup (loader.signals \cap Signals) => buffer = 0

\* A loader that flushes never holds back more than one pass, which is all that
\* even a SIGKILL can cost.
LossAtMostOnePass == loader.flush # "never" => buffer <= MaxPass

\* At most one pass is begun after the signal.
OneMorePass == late <= 1

\* When the time of a run is up, a loader that handles SIGTERM and sleeps for less
\* than the client waits is killed only if it was blocked in write(2), even if
\* SIGTERM comes between the test of the flag and the sleep.  (A cancelled run is
\* no part of this: there the client kills the loader whatever it is doing.)
KilledOnlyIfStuck ==
    fate = "KILL" /\ "TERM" \in handled /\ loader.period < KillAfter => stuck

\* A handled signal ends the loader.
SignalStops == exiting ~> ~Alive

\* my_tools/README.md:142: the loaders handle SIGINT and SIGTERM alike and exit
\* gracefully, so that none dies of one in its loop.
GracefulExit == fate \in Signals => pc \notin Looping

=============================================================================
