----------------------------- MODULE DeltaTools -----------------------------
(***************************************************************************)
(* The tools that print differences as data for BpfDelta.  A pair is the   *)
(* probe at the start and the probe at the end of an operation, each the   *)
(* sequence of what it does:                                               *)
(*   STAMP    store the time        MATCH  look it up, return if not there *)
(*   SANE     drop delays > 10 s    ADD    add to an accumulator           *)
(*   UNSTAMP  delete the time                                              *)
(* `key' is what the stamp is stored under: the owner itself (thread id or *)
(* request address), its process, or the (PID, CPU) that is current.  A    *)
(* group of the loop is a set of maps read one after the other and printed *)
(* together: array cells, or the values of one key of a walk.              *)
(* Accumulators that no loop reads (per-PID latencies of disk_io_sched,    *)
(* pid_fsync_count, the maximum of disk_io_sched) are left out.            *)
(***************************************************************************)
EXTENDS Sequences

STAMP   == [do |-> "stamp"]
MATCH   == [do |-> "match"]
SANE    == [do |-> "sane"]
UNSTAMP == [do |-> "unstamp"]
ADD(map, key, create) ==
    [do |-> "add", map |-> map, key |-> key, create |-> create]

Pair(stamps, key, start, finish) ==
    [stamps |-> stamps, key |-> key, start |-> start, finish |-> finish]

\* Array or hash cells: 0 <= gate is the index of the difference that must be
\* positive for the group to be printed.
Cells(maps, gate, guarded, unit) ==
    [cells |-> TRUE, maps |-> maps, gate |-> gate, guarded |-> guarded,
     unit |-> unit, keep |-> TRUE, beyond |-> "skip"]

\* A walk over the first map; what is done with a PID beyond the snapshot array.
Walked(maps, gate, unit, beyond) ==
    [cells |-> FALSE, maps |-> maps, gate |-> gate, guarded |-> TRUE,
     unit |-> unit, keep |-> TRUE, beyond |-> beyond]

\* A walk that prints what it finds.
Snapshot(map) ==
    [cells |-> FALSE, maps |-> <<map>>, gate |-> 0, guarded |-> TRUE,
     unit |-> 1, keep |-> FALSE, beyond |-> "zero"]

\* `averages': pairs of a total and a count that are array cells.
Tool(name, pairs, loop, averages) ==
    [name |-> name, pairs |-> pairs, loop |-> loop, averages |-> averages]

-----------------------------------------------------------------------------
(* disk/disk_read_delay, disk/disk_write_delay: a hash map with 4 keys *)

update_stats(total, count) == <<ADD(total, "cell", "ANY"), ADD(count, "cell", "ANY")>>

handle_vfs_read ==
    Pair("ts_start_pid", "owner", <<STAMP>>,
         <<MATCH>> \o update_stats("read_stats[0]", "read_stats[1]") \o <<UNSTAMP>>)

read_handle_blk ==
    Pair("ts_start_req", "owner", <<STAMP>>,
         <<MATCH>> \o update_stats("read_stats[2]", "read_stats[3]") \o <<UNSTAMP>>)

disk_read_delay_loop ==
    <<Cells(<<"read_stats[0]", "read_stats[1]", "read_stats[2]", "read_stats[3]">>,
            0, TRUE, 1)>>

disk_read_delay ==
    Tool("disk_read_delay", <<handle_vfs_read, read_handle_blk>>,
         disk_read_delay_loop, {})

handle_vfs_write ==
    Pair("ts_start_pid", "owner", <<STAMP>>,
         <<MATCH>> \o update_stats("write_stats[0]", "write_stats[1]") \o <<UNSTAMP>>)

write_handle_blk ==
    Pair("ts_start_req", "owner", <<STAMP>>,
         <<MATCH>> \o update_stats("write_stats[2]", "write_stats[3]") \o <<UNSTAMP>>)

print_incremental_stats ==
    <<Cells(<<"write_stats[0]", "write_stats[1]", "write_stats[2]", "write_stats[3]">>,
            0, TRUE, 1)>>

disk_write_delay ==
    Tool("disk_write_delay", <<handle_vfs_write, write_handle_blk>>,
         print_incremental_stats, {})

(* disk/disk_io_sched *)

handle_rq ==
    Pair("rq_issue_ts", "context", <<STAMP>>,
         <<MATCH, SANE, ADD("io_latency_stats[0]", "cell", "array"),
           ADD("io_latency_stats[1]", "cell", "array"), UNSTAMP>>)

disk_io_sched_loop ==
    <<Cells(<<"io_latency_stats[0]", "io_latency_stats[1]">>, 0, FALSE, 1)>>

disk_io_sched ==
    Tool("disk_io_sched", <<handle_rq>>, disk_io_sched_loop,
         {<<"io_latency_stats[0]", "io_latency_stats[1]">>})

(* disk/disk_io_size: no stamps; the per-PID map is in CounterTools *)

\* One request of a kind: bytes and count of the kind, then of all.
handle_block_rq_issue(bytes, count) ==
    Pair("none", "owner",
         <<ADD(bytes, "cell", "array"), ADD(count, "cell", "array"),
           ADD("io_size_stats[4]", "cell", "array"),
           ADD("io_size_stats[5]", "cell", "array")>>, <<>>)

disk_io_size_loop ==
    <<Cells(<<"io_size_stats[0]", "io_size_stats[1]", "io_size_stats[2]",
              "io_size_stats[3]", "io_size_stats[4]", "io_size_stats[5]">>,
            6, FALSE, 1)>>

disk_io_size ==
    Tool("disk_io_size",
         <<handle_block_rq_issue("io_size_stats[0]", "io_size_stats[2]"),
           handle_block_rq_issue("io_size_stats[1]", "io_size_stats[3]")>>,
         disk_io_size_loop,
         {<<"io_size_stats[0]", "io_size_stats[2]">>,
          <<"io_size_stats[1]", "io_size_stats[3]">>,
          <<"io_size_stats[4]", "io_size_stats[5]">>})

-----------------------------------------------------------------------------
(* cpu/cpu_run_delay: woken up, then switched to.  The loop prints the       *)
(* quotient of its two differences, an average; here it prints the two that  *)
(* the average is computed from.                                             *)

handle_sched_wakeup ==
    Pair("wakeup_ts", "owner", <<STAMP>>,
         <<MATCH, ADD("run_delay", "owner", "ANY"),
           ADD("wakeup_count", "owner", "ANY"), UNSTAMP>>)

cpu_run_delay_loop == <<Walked(<<"run_delay", "wakeup_count">>, 2, 1, "skip")>>

cpu_run_delay ==
    Tool("cpu_run_delay", <<handle_sched_wakeup>>, cpu_run_delay_loop, {})

(* cpu/cpu_usage: switched to, then switched from.  The handler of a switch  *)
(* is the end for one task and then the start for another; the idle task is  *)
(* skipped in both.                                                          *)

cpu_usage_handle_sched_switch ==
    Pair("cpu_start", "owner", <<STAMP>>,
         <<MATCH, ADD("cpu_time", "owner", "ANY"), ADD("cpu_busy", "cell", "array"),
           UNSTAMP>>)

cpu_usage_loop(unit) ==
    <<Walked(<<"cpu_time">>, 0, unit, "skip"), Cells(<<"cpu_busy">>, 0, TRUE, unit)>>

cpu_usage(unit) ==
    Tool("cpu_usage", <<cpu_usage_handle_sched_switch>>, cpu_usage_loop(unit), {})

(* file/file_fsync_stat *)

record_fsync ==
    Pair("fsync_start", "process", <<STAMP>>,
         <<MATCH, ADD("fsync_stats[0]", "cell", "array"),
           ADD("fsync_stats[1]", "cell", "array"),
           ADD("pid_fsync_latency", "process", "ANY"), UNSTAMP>>)

file_fsync_stat_loop ==
    <<Cells(<<"fsync_stats[0]", "fsync_stats[1]">>, 0, TRUE, 1),
      Snapshot("pid_fsync_latency")>>

file_fsync_stat ==
    Tool("file_fsync_stat", <<record_fsync>>, file_fsync_stat_loop,
         {<<"fsync_stats[0]", "fsync_stats[1]">>})

(* memo/page_swap_stat *)

handle_direct_reclaim ==
    Pair("start_ts", "process", <<STAMP>>,
         <<MATCH, ADD("total_delay", "process", "ANY"), UNSTAMP>>)

page_swap_stat_loop(unit) == <<Walked(<<"total_delay">>, 0, unit, "zero")>>

page_swap_stat(unit) ==
    Tool("page_swap_stat", <<handle_direct_reclaim>>, page_swap_stat_loop(unit), {})

=============================================================================
