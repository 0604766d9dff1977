----------------------------- MODULE MCBpfDelta -----------------------------
(* Instances of BpfDelta for TLC: which tools, and which owners. *)
EXTENDS BpfDelta, DeltaTools, TLC

\* Every tool that prints differences.
AllTools ==
    {disk_read_delay, disk_write_delay, disk_io_sched, disk_io_size,
     cpu_run_delay, cpu_usage(Unit), file_fsync_stat, page_swap_stat(Unit)}

\* Three owners where it takes as many: to use a replaced element for another cell
\* (disk_read_delay, whose probes disk_write_delay has too), to have two PIDs in the
\* snapshots and one beyond (cpu_usage), or two processes (page_swap_stat).
ActiveIn(t) ==
    IF t.name \in {"disk_read_delay", "cpu_usage", "page_swap_stat"}
    THEN Owners ELSE Owners \ {"c"}

\* Three handlers of disk_read_delay at once are many states: one kind of operation,
\* one for each, none under way before.  (page_swap_stat has file_fsync_stat's stamps.)
MeetsIn(t) ==
    {f \in [Owners -> DOMAIN t.pairs] :
        /\ \A o \in Owners \ ActiveIn(t) : f[o] = 1
        /\ t.name = "disk_read_delay" => \A o \in Owners : f[o] = 1}

UnderwayIn(t) ==
    IF t.name \in {"disk_read_delay", "file_fsync_stat"} THEN {} ELSE ActiveIn(t)

CallsOf(t, o) ==
    IF o \notin ActiveIn(t) THEN 0
    ELSE IF o = "c" \/ t.name = "disk_read_delay" THEN 1 ELSE 2

StartedBy(t) ==
    IF t.name \in {"disk_read_delay", "cpu_run_delay", "page_swap_stat"} THEN 3 ELSE 2

\* Maps that are too small for the owners, each where it does not keep the tool from
\* what it is there for.
StampsOf(t) == IF t.name = "disk_read_delay" THEN 3 ELSE 1
ElementsOf(t) == IF t.name = "cpu_run_delay" THEN 1 ELSE 2

SchedTool == {disk_io_sched}

\* Two threads of one process and one of another.
TwoProcesses == [o \in Owners |-> IF o = "c" THEN "q" ELSE "p"]

OwnersThenProcesses == <<"b", "a", "c", "q", "p">>

=============================================================================
