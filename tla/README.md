# TLA+ models of ebpf-demo

The repository is a set of small eBPF statistics tools (`my_tools/`) and a
dashboard (`client/`) that starts one of them on demand, streams its output to a
browser and exports run statistics to Prometheus. This directory models the
places where its correctness depends on interleavings, failures and the order of
events: the asynchronous generator of the server that supervises a tool
process, the page that talks to it, the maps that kernel handlers and a tool's
user-space loop share, and the life of a tool's process.

## 1. Inventory

| Component | State | Operations | Interacts with | Hard behaviour | What makes it correct |
|---|---|---|---|---|---|
| Run endpoint (`client/main.py`, `run_tool_stream`, `event_generator`) | `TOOL_STATS[tool]`, Prometheus metrics, generator locals, the child process | accept, take the lock, spawn, read, stop, report, `finally` | tool process (pipe, signals), browser (SSE), metrics | requests interleave at every `await`/`yield`; cancellation at any of them; kill escalation; a full pipe | one run per tool, exact gauge and counters, no process left behind, output accounted for, runs end |
| Tool discovery (`load_tool_config`, `get_available_tools`, `get_tool_path`) | `TOOL_CONFIGS` (read at start-up) | list, look up | run endpoint, page | a tool that is gone when it is asked for | only white-listed, installed, executable files are started |
| Output parser (`parse_output_metrics`, `summarize_tool_metrics`) | none | parse `key: value` lines, add up, rank | run endpoint, page | keys that come again, ties, unusable values | sums of increments are totals |
| Read-only endpoints (`/`, `/api/tools`, `/api/stats`, `/metrics`) | none of their own | read | run endpoint | none | - |
| Browser page (`client/static/app.js`) | one EventSource, output box, badge, button, summary, chart | load list, run, clear, receive, reload | run endpoint over a connection | a stream that ends, breaks, stalls or connects again; handlers that throw | one request per click, lines in order, a truthful status, the button comes back |
| Counting tools (11 of `my_tools/{cpu,file,memo,network}`, and one map of `disk_io_size`) | BPF hash and array maps, loop locals | kernel handlers count; the loop walks, prints, clears | each other through the maps only | handlers on several CPUs against each other and against the loop; slot reuse; full maps; keys deleted under a walk | nothing printed twice, nothing lost but to a known race, right key, complete passes |
| Latency tools (`cpu_run_delay`, `disk_{read,write}_delay`, `disk_io_sched`, `file_fsync_stat`, `page_swap_stat`) | start-stamp maps, totals, snapshots | stamp, match, add, difference | as above | stamps keyed by something that does not identify the operation; nested, missed and overlapping probes; totals and counts updated apart | a delay belongs to one operation; differences add up to what was added |
| Array tools (`cpu_usage`, `disk_io_size`) | array cells, snapshots | add, difference | as above | several cells updated one by one | differences neither lost nor repeated |
| Frequency gauge (`cpu_freq_stat`) | one cell per CPU | store, print | as above | none | - |
| Loader life cycle (every `X.c`) | skeleton, `exiting` flag, stdio buffer | open, load, attach, loop, clean up | server (signals, pipe) | signals at any point; killed between printing and flushing; a full pipe | everything released, no line lost on a signal, exit within the client's patience |
| `common/`, `prometheus-demo/`, `examples/`, build files | - | - | - | - | no logic of the project's own |

`PROJECT.json` lists the same parts with their sources, and under `hazards`
the places where something can go wrong that a test would hardly reach.

## 2. Modules

| Module | Contents |
|---|---|
| `RunLedger` | what the run endpoint promises: abstract specification |
| `ToolRunner` | the run endpoint, its process groups, pipes, clock and browsers; refines `RunLedger` |
| `ToolRunnerProofs`, `LedgerProofs`, `OutputProofs` | TLAPS proofs about `ToolRunner`, each extending the one before |
| `OutputParser` | parser and summary as operators, and a reference definition |
| `Dashboard` | the page and its connection, composed with the server (`RunLedger`, `OutputParser`) |
| `BpfCounter`, `CounterTools` | counting handlers on several CPUs, hash-map slots, the reader loop; the tools as data |
| `BpfDelta`, `DeltaTools` | probes with time stamps, accumulators, differencing loops; the tools as data |
| `Loader`, `Loaders` | a loader's process from start to exit; the twenty loaders as data |
| `CounterProofs`, `DeltaProofs`, `LoaderProofs`, `DashboardProofs` | TLAPS proofs about `BpfCounter`, `BpfDelta`, `Loader` and `Dashboard` |
| `MC...` | instances of the four specifications for TLC |

The parts meet as follows. `ToolRunner` has the tool as an arbitrary process
that prints, hangs, exits or obeys a signal; `Loader` is one such process in
detail, with the client reduced to SIGTERM, SIGKILL and a reader of the pipe.
`BpfCounter` and `BpfDelta` are what happens inside the `print` steps of
`Loader`. `ToolRunner` implements `RunLedger`, and `Dashboard` uses `RunLedger` as
its server, so what `Dashboard` shows rests on what `ToolRunner` is proved to do.

Definitions called "faulty variant" are not used by the specifications; each is a
plausible mistake in the definition after it, and `PROJECT.json` says which
property catches it.

### ToolRunner and RunLedger

asyncio runs one task at a time, so an action is the code from one suspension
point to the next; `pc[r]` names the point where the generator of request `r` is
parked (the table is at the top of the module). Variables keep the names of the
Python locals (`output_lines`, `output_truncated`, `returncode`) and of the
metrics (`tool_running`, `tool_runs`, `tool_last_success`); `running` and
`status` are the entries of `TOOL_STATS`.

| Actions | Code |
|---|---|
| `Accept`, `Refuse` | `run_tool_stream` up to the generator, `get_tool_path` |
| `Begin` | the check and the set of the lock, no `await` in between; a busy tool is answered and the generator returns |
| `SpawnOk`, `SpawnFail`, `CancelSpawn` | `create_subprocess_exec` returns, raises, is cancelled |
| `Poll`, `ReadLine`, `ReadError`, `ReadEOF`, `ReadTimeout`, `Resume` | the read loop |
| `StopTool`, `WaitDone`, `TermTimeout` | SIGTERM, 2 s, SIGKILL, `wait()` |
| `Finish`, `Fail` | success report, `except Exception` |
| `Finally`, `Close`, `Reap` | the `finally` block and its last `await` |
| `Cancel`, `CancelOutside` | `CancelledError` at an `await`, `GeneratorExit` at a `yield` |
| `PrintLine`, `ExitSelf`, `DieOnTerm`, `DieOnKill`, `Observe`, `Disconnect`, `Elapse` | tool, kernel, child watcher, browser, clock |

Decisions that matter:

- A process is `live` or `exited`; asyncio's knowledge of it (`returncode`) is a
  separate variable set later by `Observe`. The code tests the latter.
  The value of the exit status is left out: the generator never looks at it.
- `os.killpg` on a group that is gone raises `ProcessLookupError` (swallowed); on a
  group of another user it raises `PermissionError` (not swallowed). The tool is
  started through `sudo`, so which of the two worlds holds depends on the user
  who runs the server: `canSignal`, chosen by `Init` and never changed.
- `wait()` after SIGTERM does not read the pipe, and a tool blocked in `write(2)`
  need not react to SIGTERM; only SIGKILL is sure to end it.
- A line is its length. `readline()` raises above `StreamLimit` (64 KiB in
  asyncio), and this goes to `except Exception`.
- `is_disconnected()` may answer "no" after the browser has gone; when it answers
  "yes" the code raises `CancelledError` itself, which is `Cancel` too.
- A request that finds the tool busy gets its one event and ends; the `yield` of
  that event is not a state of its own because nothing is held there.
- A `yield` that is cancelled by the response may only be closed when the
  generator is collected; `Cancel` may be arbitrarily late under `Spec`, and is
  assumed to happen under the fair specification.

`RunLedger` has three variables: the phase of a request, the tool it has to itself,
and the counters. `Take`, `Report`, `Release` and `Decline` are all it can do. The
refinement mapping (`PhaseOf`, `JobOf`, `tool_runs`) forgets the process, the
output, the signals and the suspension points.

### Dashboard and OutputParser

The page's variables are those of `app.js` (`currentEs`, the button, the badge, the
output box, the summary table); `wire` is the connection: events in order, held
back at `WireCap`, cut off anywhere by `Break`. A click is one request. Only the
stream that is open is followed, since a closed EventSource handles no events;
the server learns of the closing later (`Hangup`), or never before it ends.

| Actions | Code |
|---|---|
| `LoadTools`, `Click`, `ClearOutput`, `Reload` | the fetch at start-up and the two button handlers; the user |
| `OnLine`, `OnSuccess`, `OnFailure`, `onerror` | the handlers of the EventSource |
| `Accept`, `TurnDown`, `Output`, `ReportRun`, `Finally` | the server's events, on top of `RunLedger` |
| `Hangup`, `Break` | connection |

`OnSuccess` has three outcomes because the handler has: `JSON.parse` throws when a sum
has overflowed to `Infinity` (which Python writes and JSON does not know); with
Chart.js missing `updateChart` throws after the badge was set; or it goes through.

In `OutputParser` a line is the sequence of its key-value pairs, each usable or not
(a string key of at most 128 characters, a finite number). The two functions are
folds like the loops they model, a dict is a sequence of entries in order of
insertion, and the sort is stable. `Summarizes` says what the summary has to be
in terms of places in the output, without folds; `SummaryMatchesOutput` compares the
two on every log a run can produce. Quotients (`avg`, `rate_per_sec`) are left out.

### BpfCounter and CounterTools

All counting tools are one machine over different data. A handler is a sequence
of count operations, each a lookup followed by an atomic add or by the creation
of the key (`ANY`, `NOEXIST` or `ZERO`, see `CounterTools`); a loop body is a
sequence of passes over maps, each with a way of walking. One action is one map
operation. The value of a counter is the *set of events* counted in it, so an
event that is lost, repeated or filed under another key is visible.

Hash maps are external and modelled from the kernel's preallocated hash map: an
update of a present key puts another slot in its place, a freed slot can be
reused at once while a handler still holds a pointer to it, `get_next_key` of a
missing key starts again at the first one. A walk meets the keys by their `place`:
`KeyOrder` lists them bucket after bucket, `Home` says where the bucket of a key
begins, and every update, of a present key too, puts its key at the head of its
bucket (`ToHead`). Each index of an array map is a map with one cell.

Left out: the process name some maps store beside the count, byte amounts (a
byte counter is counted like an event), the wording of the lines. `read_stat`
stops collecting keys at `MAX_ENTRIES`; the map cannot hold more, so this bound is
never met.

History variables: `report[m][e]` is the list of keys under which event `e` of map
`m` was printed; `raced` holds the events that met one of the three ways to lose
a count (another handler creating the same key; the loop between reading and
clearing the key; a full map); `due`/`missed` compare what a pass found at its
beginning with what it has printed at its end.

### BpfDelta and DeltaTools

The other data-driven machine: tools that never clear what they count. An owner
(a thread, or a block request) enters and leaves traced operations; `Start` and
`End` put the tool's probe for it into `todo`, and one action is one map operation
of the probe. `PutStamp`, `Match`, `Sane` and `Unstamp` are the stamp map, `AddCell`
an array accumulator, `LookUp`/`Add`/`Insert` one in a hash map. Operations nest
(a read inside a read, a request issued again), probes are missed (`MissEnd`), and
an operation may be under way when the probes are attached (`Init`).

The loop walks or reads cells (`Walk`, `Read`) and prints with `PrintGroup`, which
has the loops' variations as data: guarded subtraction or plain unsigned
subtraction, a gate (print only if one of the differences is positive), integer
division, and what is done with a PID beyond the snapshot array.

A time stamp is the pair of owner and serial number of the start, which shows
whose start a delay is measured from; every delay counts 1, so that totals and
counts can be compared. Accumulators that no loop reads are left out.
`cpu_run_delay` prints the added delays divided by their number; the model has the
two differences it divides.

A replaced element of a hash map becomes a spare of the CPU, and the next
replacement there uses it, for any key of the map. An add through an older pointer
is then lost, or lands under the key that uses the element now (`Reused`); for
`disk_read_delay` and `disk_write_delay`, whose four cells are keys of one hash map
(`Table`), this may be another cell, and nanoseconds may land in a count. The model
has no CPUs: any element that was put in by a replacement may be the one. Stamp
maps and accumulators may be full, and then take no new key.

History: `fed` (what the handlers added), `landed` (what of it landed under a key it
was not meant for), `out` (what the lines add up to), `lines` (how many
remainders may be missing), `strays` (owners with a missed end), `quiet` (no probe
ran since the pass began).

### Loader and Loaders

One action per stage of `main`: `Start`, `Open`, `Load`, `Loaded`, `Attach`, `Attached`,
then `Test`, `Sleep`, `Awake`, `BeginPass`, `Line`, `Write`, then `Cleanup` and `Exit`. The
loaders differ in the signals they handle, where they install the handlers,
whether they open and load in two calls, whether the loop sleeps or prints first,
how long it sleeps, and when they flush; `Loaders` has these as records.

`Signal` may come at any moment and any number of times. Without a handler the
process dies on the spot; with one the flag is set and a sleep ends, but a signal
between the test of the flag and `sleep()` does not shorten the sleep. `Kill` is
the client's SIGKILL after SIGTERM and its patience; `Abandon` is the one a cancelled
run sends at once (the browser has gone), at any moment.
stdout is a pipe, so stdio writes when its buffer is full, on `fflush` and on return.
A second passes (`Tick`) only while the loader sleeps or is blocked in `write(2)`.

## 3. Runs

| Run | Bounds | Shows |
|---|---|---|
| `runner_safety` | 2 requests, 3 tools (one not installed), 1 line, either value of `canSignal` | `TypeOK`, `Exclusive`, `GaugeExact`, `NoOrphan`, `RunsCountedOnce`, and the refinement `ImplementsLedger`, the `PermissionError` paths included |
| `runner_output` | 1 request, lines of 1, 3 and 4 (over-long) bytes, both limits in reach, a pipe of 2 lines | `OutputAccounted`, `OutputBounded`; liveness `RunEnds`, `ProcessGone` |
| `counter_single` | `irq_stat`, `read_stat`, `write_stat`, `mmap_stat`, `page_fault_stat` (the last with 2 events and 2 keys); 3 events, 2 CPUs, 3 keys in 2 buckets, the key that walks start from among them, 2 entries, 3 slots | `TypeOK`, `ReportedAtMostOnce`, `LostOnlyToRaces`, `PrintedUnderOwnKey`, `PassComplete`, insertions into a full map included |
| `counter_several` | the 7 other tools and the per-PID map of `disk_io_size`; 2 events, 2 CPUs, 1 key, up to 7 maps | `ReportedAtMostOnce`, `LostOnlyToRaces` |
| `delta` | 8 tools; 2 owners of one process, with `disk_read_delay`, `cpu_usage` and `page_swap_stat` a third one of another process; 2 or 3 operations in all, nesting of 2, 1 stamp (3 for `disk_read_delay`), 2 elements (1 for `cpu_run_delay`), 2 contexts, a thread and a process beyond the snapshots | `TypeOK`, `OwnDelay`, `StampsReleased`, `NoOvercount`, `OnlyRemaindersLost`, `CaughtUp`, `TotalsMatchCounts` |
| `loader` | all 20 loaders; passes of 0 to 2 lines, a buffer of 5, a pipe of 2, SIGKILL 2 s after SIGTERM or at any moment | `TypeOK`, `ReleasedOnReturn`, `SignalLosesNothing`, `LossAtMostOnePass`, `OneMorePass`, `KilledOnlyIfStuck`; liveness `SignalStops` |
| `dashboard` | 2 requests, 2 tools (one not available), 2 lines of two kinds and the notice, a connection of 1 event | `DashboardTypeOK`, `OneRequestPerClick`, `ShownInOrder`, `SuccessIsShownTruly`, `SummaryMatchesOutput`; liveness `ButtonReturns`, `AbandonedRunStops` |

Why the bounds are enough.

- *Runner.* Requests meet only in the lock, the gauge and the counters, and every
  conflict is between two of them; the theorems below cover any number. `MaxPrint`
  exceeds what pipe and limits hold together, so both limits, a full pipe and an
  over-long line all occur.
- *Counters.* A lost or repeated count needs two handlers, or one handler and the
  loop; a third event shows the state afterwards. Slots are one more than entries,
  as in the kernel, where each CPU has a spare element: replacement and reuse by
  another key both occur. The tools with several maps run with one key, where
  every race happens; reuse of a slot by another key and walks over several keys are
  the subject of `counter_single`, where two keys share a bucket. `counter_mmap`
  needs two keys in one bucket and one CPU.
- *Differences.* Two owners are what it takes to mistake one stamp for another, and
  two operations to find a stale one; a third brings a difference after a lost add.
  Three handlers of `disk_read_delay` at once are what it takes to reuse the element
  of one cell for another while a pointer to it is held (two of them race to create
  each cell, the third has the pointer); they meet the same kind of operation, once
  each. One stamp makes the map full for the second owner, one element the
  accumulators of `cpu_run_delay`. `Unit` = 2 leaves a
  remainder, and `Word` is larger than anything that is added, so a negative
  difference is seen as a huge one.
- *Loaders.* A pass of two lines can be cut between them; the pipe holds one pass,
  the buffer two and a half, so a loader that flushes can block, and one that does
  not flush fills its buffer. The longest sleep equals the client's patience.
- *Page.* Two requests are one stream and its successor. The output passes its
  limit by the third line. Two kinds of line have a repeated key, a new key, an
  unusable value and a tie.

Deadlock checking is off in the runs of the runner, the loader and the page only:
requests are finitely many, a server that has served them is idle, and a loader
exits. In the runs of the maps it is on: the loop never stops.

`delta` takes about three minutes, the others less.

### Where the code does not do what is written

Five runs state what a comment or a document says, and TLC finds it violated:

| Run | Property | Says | Does |
|---|---|---|---|
| `runner_overlap` | `OneProcessPerTool` | `client/main.py:217` the lock rules out concurrent duplicate runs | the lock is dropped before the old process is killed and awaited |
| `runner_orphan` | `NoneLeftRunning` | `client/README.md:162,164` an ordinary user with `sudo`; the group is signalled | `PermissionError` leaves `finally`, the tool runs on |
| `counter_mmap` | `PassEnds` | `memo/mmap_stat.c:32` counts "per sec" | zeroing a key inside the walk puts it back at the head of its bucket: with two PIDs in one bucket the walk goes from one to the other for ever, and `sleep(1)` is not reached |
| `delta_sched` | `MeasuresOneOperation` | `my_tools/README.md:28` issue to complete | the stamp is keyed by the PID and CPU of the moment; a completion finds the stamp of another request |
| `loader_signals` | `GracefulExit` | `my_tools/README.md:142` all loaders handle SIGINT and SIGTERM | `socket_stat` handles SIGINT only, `read_stat`, `write_stat`, `mmap_stat`, `page_swap_stat` none |

### Observations

What follows was met while modelling and can be read off the models; no run of
its own is kept for it.

Server and page:

- A disconnected browser leads to SIGKILL without a SIGTERM before it:
  cancellation goes straight to `Finally` (`main.py:311-312`, `319-328`), while
  `client/README.md:164` and `my_tools/README.md:142` promise SIGTERM and 2 s in this
  case as well. `Loader!Abandon` is this SIGKILL. `KilledOnlyIfStuck` does not hold of
  it and says nothing about it; `LossAtMostOnePass` bounds what it can cost a loader
  that flushes. One that does not flush loses its whole buffer.
- Parsing the output may raise (`math.isfinite` of an integer too large for a float
  is an `OverflowError`, which line 155 does not catch): a run whose tool has ended
  is then an error (`Fail` in `StopTool` and `WaitDone`). No tool of the repository
  prints such a number.
- The exit status of a tool takes no part in the outcome; a tool that fails at
  once is a success (`client/main.py:85`: "whether the last tool run succeeded").
- A generator parked at a `yield` does not look at the clock: a browser that stays
  connected and reads nothing keeps the run beyond its time limit
  (`client/README.md:163`).
- A short line after the truncation notice is logged again, because each line is
  tested on its own (`ReadLine`).
- After a failed run the summary on the page is still that of the run before
  (`OnFailure` leaves `summary` alone).
- The page's filter for secondary counts never applies: it asks for a category
  `latency` that no tool has (`app.js:28`).

Tools:

- `write_stat` prints cumulative counts (`my_tools/README.md:33` says increments),
  and the server adds them up.
- `cpu_freq_stat` prints the current frequency in every pass, and the server adds
  these up too: the total of a run grows with its length.
- A walk that starts at key 0 while PID 0 is in the map skips PID 0 and whatever is
  before it in bucket order (`net_tcp_retransmit`, `tcp_connect` and others);
  `PassComplete` asks such a pass for the rest only (`Due`).
- A delay of `disk_read_delay` or `disk_write_delay` can be added to a count, or to
  the other pair's total, when three handlers race for the first elements of the
  map; it is printed with that cell, once (`NoOvercount`).
- The per-process accumulators of `cpu_run_delay`, `cpu_usage`, `file_fsync_stat` and
  `page_swap_stat` are never cleared; once they hold 10240 PIDs, a new PID is not counted.
- Of two first calls of a process that race, `mmap_stat` drops the one whose
  `NOEXIST` insertion fails.
- `page_swap_stat` prints PIDs at or above 65535 as cumulative values
  (`my_tools/README.md:181` says increments); `cpu_usage` and `cpu_run_delay` skip them.
- The stamps of `file_fsync_stat` and `page_swap_stat` are keyed by the process: with
  two threads one delay is measured from the other's start and one is not
  measured. Totals and counts still agree (`TotalsMatchCounts`).
- The gates of `cpu_run_delay` (`cpu_run_delay.c:72`) and `disk_io_size`
  (`disk_io_size.c:71`) swallow a difference whose companion is zero, since the
  snapshot is taken either way; hence `OnlyRemaindersLost` has `gate = 0`.
- `disk_io_sched` keeps a maximum that no loop prints, although
  `my_tools/README.md:28` promises it.
- `tcp_connect` and `socket_stat` sleep for as long as the client waits before
  SIGKILL, so a SIGTERM at the wrong moment ends in a SIGKILL; hence
  `KilledOnlyIfStuck` has `period < KillAfter`.

### Fairness

- `ToolRunner`. `Fairness` assumes what asyncio and the kernel give: ready tasks run,
  timers fire, `duration` seconds pass, a cancelled task sees its cancellation,
  SIGKILL ends a process, an exit is noticed. It assumes nothing about the tool,
  which may hang, ignore SIGTERM or block in `write(2)`. `ReadingBrowser` adds
  a browser that takes the events sent to it; `RunEnds` is false without it (see
  the observation on the clock).
- `BpfCounter` (`FairSpec`, for `counter_mmap` only). A handler that has started ends,
  as the verifier guarantees, and the loop goes on. `PassEnds` fails in spite of it.
- `Loader`. The process runs, somebody reads the pipe, time passes. `SignalStops` is
  about a loader that has such a reader, as at a terminal or under `tool | tee`; the
  server awaits `wait()` without reading (`main.py:275`), and there it is SIGKILL that
  ends a blocked loader, which is `RunEnds` and `ProcessGone` of `ToolRunner`. SIGKILL is not
  counted on: at a terminal nobody sends it, and `SignalStops` has to hold there.
- `Dashboard`. Requests and the news of a closed stream arrive, the page handles its
  events, and a run ends, which is `ToolRunner!RunEnds`. Nothing is assumed of clicks,
  reloads, tools or broken connections. `ButtonReturns` holds although handlers may
  throw, because the end of the stream that follows gets to `onerror`.

## 4. Proofs

Seven modules hold theorems. TLC checks the properties on the instances of section
3; the theorems are about every value of the constants. The inductive invariants
were checked with TLC on those instances before they were proved.

### The run endpoint

For all sets of tools, all finite sets of requests, all limits, pipe sizes and line
lengths, from `ConstantsAssumption` only.

`ToolRunnerProofs`:

- `TypeCorrect`: `Spec => []TypeOK`, which is inductive by itself.
- `LockCorrect`: `Spec => []Exclusive`. `Exclusive` speaks of the tool's holders; it is
  not inductive, since nothing in it says that a request which is about to take a
  lock names a tool. `LockInv` says that, and has the two directions (a holder's
  lock is set; a set lock has a holder) and uniqueness apart. `LockSteps` first
  shows that each of the twenty-odd actions is one of three kinds, `Quiet`, `Take(r)`
  or `Drop(r)`; the invariant is then checked for the three.
- `GaugeCorrect`: `Spec => []GaugeExact`, with the same three kinds and cardinality
  of finite sets.
- `NoOrphanCorrect`: `Spec => []NoOrphan`. The invariant is `canSignal => ProcInv`;
  `ProcInv` adds that there is no process before the spawn and that a known return code
  means an exited process, so the `finally` block skips the kill only for a corpse.
  Without `canSignal` nothing of the kind holds (`runner_orphan`).

`LedgerProofs`:

- `LedgerImplemented`: `Spec => ImplementsLedger`, the refinement. One lemma for each
  thing the ledger can do (`LedgerTake`, `LedgerReport`, `LedgerRelease`,
  `LedgerDecline`) and one for the steps it does not see (`LedgerStutter`);
  `LedgerStep` puts every action under one of them. `LedgerTake` needs `LockInv`: that
  the lock is free has to mean that no request has the tool.
- `CountCorrect`: `Spec => []RunsCountedOnce`. `OutcomeInv` says that a request has no
  outcome before its run is reported; every step is then `Silent` or
  `Counting(r, result)`, and the second adds one element to one set.

`OutputProofs`:

- `BoundCorrect`: `Spec => []OutputBounded`, both limits tested before a line is logged.
- `OutputCorrect`: `Spec => []OutputAccounted`. `OutputInv` strengthens its two halves:
  `Accounted` holds of runs that are under way too, and `Drained` says that a request
  on its way to a success before the time limit has an empty pipe and an
  exited process, so that nothing is printed after the last read.

### The loaders

`LoaderProofs`, from `LoaderAssumption`: any loader that a record of `LoaderType` can
describe, any sizes of buffer, pipe and pass, any patience of the client.
`LoaderTypeCorrect` (`TypeOK`) is inductive by itself. The others follow from
`LoaderInv`, which has one part for each:

| Theorem | Property | What the invariant adds |
|---|---|---|
| `ReleaseCorrect` | `ReleasedOnReturn` | `HeapInv`: at which `pc` the skeleton and the array are held |
| `SignalCorrect` | `SignalLosesNothing` | `HandlerInv`: the loop is reached only with the handlers installed, so a handled signal kills only before anything is printed |
| `LossCorrect` | `LossAtMostOnePass` | `BufferInv`: lines in the buffer and lines left of the pass are one pass together; between passes the buffer of a loader that flushes is empty |
| `PassCorrect` | `OneMorePass` | `PassInv`: a pass after the signal has passed the only test of the flag that it can |
| `KillCorrect` | `KilledOnlyIfStuck` | `AgeInv`: the age of the signal and what is left to sleep are at most the period together, unless the loader was blocked |

### The counting tools

`CounterProofs`, from `ConstantsAssumption` and `ToolsAssumption`: any number of events,
CPUs, keys, entries and slots (more slots than entries), any order of the keys, and
any tool of the common shape `WellFormed`: a handler counts an event once in each
of its maps, a map is counted in one way, the loop goes through a map once, arrays
with `diff`. Nothing is assumed of the key a walk starts from; `Due` says what a walk
owes whose start key is in the map. TLC evaluates the assumption on the tools of
`CounterTools`.

The properties are far from inductive. `CounterInv` (`CounterInvariant`) says where
an event is: on one CPU at most (`QueueInv`), in one slot at most, and no two keys
share a slot (`SlotInv`), in a slot or printed only if handled (`PlaceInv`); printed
events are out of the map but for the key about to be cleared (`PrintInv`). `RaceInv`
is the heart of the matter: a handler that raced with nobody still points to the
slot of its key, inserts where there is nothing, and finds again what it inserted;
two handlers on one key that do not both add have raced, and so has a handler
whose key the loop is about to clear. `KeyInv` and `KeptInv` follow the event from
there to the line it is printed in, and `WalkInv` says that the pass still comes to
the key of whatever it owes, for each of the six ways of walking: what it owes is
after the cursor by `place`, and an update under the walk moves only its own key
and those between it and the head of its bucket. Nothing says that a pass ends,
which `counter_mmap` refutes. Theorems:
`CounterTypeCorrect`, `ReportedOnceCorrect` (`ReportedAtMostOnce`), `LostCorrect`
(`LostOnlyToRaces`), `OwnKeyCorrect` (`PrintedUnderOwnKey`) and `PassCompleteCorrect`
(`PassComplete`).

### The differencing tools

`DeltaProofs`, from `ConstantsAssumption` and `ToolsAssumption`: any finite set of
owners, any processes, contexts, keys, order of the walk, size of the stamp maps,
nesting, and any tool of the shape `WellFormed`: a probe stores a stamp, only adds, or
looks a stamp up, adds and deletes it; a map is added to in one way and read by one
group; only array cells are subtracted without a guard; a total is added to right
before its count, where both are array cells.

`DeltaInv` (`DeltaInvariant`) has four parts.

- `CoreInv`: types; what a probe in progress has left to do, from the shape of
  its pair (`ProbeInv`); whose stamp is under an owner's key (`StampInv`); which
  elements can be there at all (`ElementInv`). It gives `DeltaTypeCorrect`,
  `OwnDelayCorrect` (`OwnDelay`) and `ReleasedCorrect` (`StampsReleased`). A full stamp map
  takes no stamp, so an owner may find none; it never finds another's.
- `CountInv`: printed, plus read and not printed, plus added and not read, is no
  more than what the handlers added under the key, or meant for another key and
  landed there (`Balanced`, `Added`). The steps of a handler are reduced to what they
  do to one element: it stays, it takes an add, or it restarts (`StaysAt`,
  `CountsAt`, `RestartsAt`). A racing creation sets an
  accumulator back below what the loop has seen, so the differences are cut off at
  zero (`Excess`), as the guarded loops do; where a loop subtracts without a guard
  the three values are in order, because an array element is never replaced. It
  gives `NoOvercountCorrect` (`NoOvercount`).
- `TotalInv`: a total is ahead of its count by the number of probes between the two
  additions. It gives `TotalsCorrect` (`TotalsMatchCounts`).
- `CaughtInv`: in a pass without a probe, whatever the walk is past has been read
  (`Past`, by the order of the keys). It gives `CaughtUpCorrect` (`CaughtUp`). A key
  that is in another map of its group and not in the one that is walked, because that
  one was full, is not read, and the property does not say so.

`RemaindersCorrect` is `Spec /\ []NoOverflow => []OnlyRemaindersLost`. `NoOverflow` says
that accumulators stay below `Word`, 2^64 in the code: nanoseconds reach it after
five centuries. Beyond it an unguarded difference is taken modulo `Word` and the
property is about other numbers. The bounds of the runs imply `NoOverflow`.

### The page

`DashboardProofs`, from `DashboardAssumption`: any tools, any finite set of requests (and
so any number of clicks), any limit on the output, any lines, any capacity of the
connection. The properties speak of what the page shows; the invariant
(`DashboardInv`, theorem `DashboardInvariant`) has to say what is on its way there.

- `RequestInv` and `StreamInv`: a request that was not sent has done nothing, the
  notice comes only when the log is full, the open stream is that of the latest
  request, and an outcome is known only when its run is over, so that its log no
  longer grows.
- `OrderInv` and `WireInv`: lines have consecutive numbers and come before everything
  else, the end comes last; while a run goes on only lines and the notice are on the
  wire; a success on the wire was counted; how many events there can be.
- `ShownInv`: the first line on the wire goes on where the output box ends, also
  after the box was cleared.
- `LastInv`: as long as nothing was cut off (`Whole`: the connection stands, or the
  success is on the wire or on the page), the last line sent is the last one logged.
  A connection that breaks behind the success therefore cuts off no line.

Every step is first shown to be one of eight kinds (`SeenByPage`): unseen by the page,
a stream closed or opened, an event taken, a line or another event sent, a request
refused, a connection broken. Theorems: `DashboardTypeCorrect`, `OneRequestCorrect`
(`OneRequestPerClick`, by cardinality of finite sets), `ShownCorrect` (`ShownInOrder`),
`SuccessCorrect` (`SuccessIsShownTruly`).

`SummaryOfThisRun` says that a page with SUCCESS and its chart shows `Summary(logged)`,
the parser's result for the log of this very run. `SummaryCorrect` derives
`SummaryMatchesOutput` from it under the hypothesis that the parser is right, that is
`Summarizes(Summary(output), output)` for every output. That is an induction over the
output, which the provers cannot do; TLC evaluates it for all outputs of up to four
lines with three keys (`MCDashboard!ParserChecked`).

### What is only model-checked

- All liveness: `RunEnds`, `ProcessGone`, `SignalStops`, `ButtonReturns`,
  `AbandonedRunStops`. Fairness and ENABLED are beyond the proof system.
- The parser itself: `ParserChecked`, the hypothesis of `SummaryCorrect`.
- The bounds that the models put on behaviour (`MaxCalls`, `MaxStarted`, `Meets`,
  `Underway`, `MaxEvents`, `KeysOf`, `MaxPrint`) take no part in the proofs: the
  theorems hold with any.

## 5. Not modelled

- `common/vmlinux.h`: 141200 lines of generated kernel types, which is most of the
  repository by line count and has no behaviour. `common/kernel_utils.h`: accessors
  without state.
- `examples/` (upstream libbpf-bootstrap samples in C and Rust) and
  `prometheus-demo/` (container and scrape configuration): not part of the
  project's own program, and nothing in it uses them.
- Reading the configuration file at start-up and serving the read-only endpoints:
  plain I/O. The state they show is modelled.
- The map of `cpu_freq_stat`: a handler stores the last frequency of a CPU and the loop
  prints it; nothing spans two steps. Its loader is modelled.
- A spawn that is cancelled: asyncio kills the child it has started, which is sudo
  alone and not its group. `CancelSpawn` takes sudo to have started nothing yet, a
  moment after its fork; if it has, the tool is left behind.
- The byte limit on the output in `Dashboard`, and with it a notice before the limit
  on lines and a short line after the notice; `ToolRunner` has both limits.
- An endless stream of events. The runs bound the events, so that a draining walk
  that new keys make start again and again comes to its end; the theorems about
  counters are about passes that end.
- The order of a walk in `BpfDelta`, which replacements change in the kernel: no
  property is about it, but `CaughtUp`, which is about passes without replacements.
- Byte sizes, nanoseconds, process names, the wording of lines, JSON syntax and the
  regular expression of the parser: data that no property tells apart.
- The quotients of the summary, and the drawing of the chart.

## 6. Plan

Done: the supervisor first, since it runs tools as root; the counting tools,
since all the numbers depend on them; the differencing tools, the loaders, the page
and the parser; the ledger and its refinement; the theorems about the server, the
loaders, the counting and the differencing tools and the page. Every safety
invariant that a passing run checks is stated by a theorem. Next:

1. `Dashboard` on top of `ToolRunner` itself instead of its ledger; the state space
   is too large for TLC today.
2. Both limits on the output in `Dashboard`, with lines after the notice.
3. sudo and the tool as two processes of one group in `ToolRunner`.

