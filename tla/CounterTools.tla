---------------------------- MODULE CounterTools ----------------------------
(***************************************************************************)
(* The counting tools as data for BpfCounter.  A handler is the sequence   *)
(* of its count operations: the map, what the key is taken from (the array *)
(* index is a "cell"), and how a missing key is created:                   *)
(*   ANY      update with 1, BPF_ANY                                       *)
(*   NOEXIST  update with 1, BPF_NOEXIST                                   *)
(*   ZERO     update with 0, BPF_ANY, then look up again and add           *)
(* An early return before any count is the empty handler.  A pass is a     *)
(* walk of the loop over one map: how it goes about it, and the key the    *)
(* first get_next_key starts from (a zeroed variable or NULL):             *)
(*   drain    print and delete key by key       diff   print the increase  *)
(*   ahead    the same, next key fetched first  snapshot  print only       *)
(*   collect  all keys first, then drain them   zero   print and set to 0  *)
(* A byte count is counted like an event, its size is not told apart.      *)
(***************************************************************************)
EXTENDS Sequences

Count(map, key, flag) == [map |-> map, key |-> key, flag |-> flag]
Pass(map, style, start) == [map |-> map, style |-> style, start |-> start]
Tool(handlers, passes) == [handlers |-> handlers, passes |-> passes]

NULL == "null"
ZERO == "0"

-----------------------------------------------------------------------------
(* cpu/irq_stat *)

irq_stat_handle_execve == <<Count("irq_stats", "comm", "ZERO")>>

irq_stat_loop == <<Pass("irq_stats", "drain", NULL)>>

irq_stat == Tool({irq_stat_handle_execve}, irq_stat_loop)

(* file/read_stat, file/write_stat *)

read_stat_handle_enter_read == <<Count("file_read_counter", "pid", "ANY")>>

read_stat_loop == <<Pass("file_read_counter", "collect", ZERO)>>

read_stat == Tool({read_stat_handle_enter_read}, read_stat_loop)

write_stat_handle_enter_write == <<Count("file_write_counter", "pid", "ANY")>>

write_stat_loop == <<Pass("file_write_counter", "snapshot", ZERO)>>

write_stat == Tool({write_stat_handle_enter_write}, write_stat_loop)

(* file/file_open_stat *)

handle_openat_enter ==
    <<Count("open_counter", "pid", "ANY"), Count("open_comm_counter", "comm", "ANY")>>

\* Only a negative return value is counted.
handle_openat_exit(failed) ==
    IF failed THEN <<Count("open_fail_counter", "pid", "ANY")>> ELSE <<>>

file_open_stat_loop ==
    <<Pass("open_counter", "drain", ZERO),
      Pass("open_fail_counter", "drain", ZERO),
      Pass("open_comm_counter", "drain", NULL)>>

file_open_stat ==
    Tool({handle_openat_enter} \cup {handle_openat_exit(f) : f \in BOOLEAN},
         file_open_stat_loop)

(* memo/mmap_stat, memo/page_fault_stat, memo/mem_oom_stat *)

mmap_stat_handle_enter_mmap == <<Count("memo_counter", "pid", "NOEXIST")>>

mmap_stat_loop == <<Pass("memo_counter", "zero", ZERO)>>

mmap_stat == Tool({mmap_stat_handle_enter_mmap}, mmap_stat_loop)

count_page_fault ==
    <<Count("counter", "pid", "NOEXIST"), Count("counter_exporter", "comm", "ANY")>>

page_fault_stat_loop == <<Pass("counter", "ahead", NULL)>>

page_fault_stat == Tool({count_page_fault}, page_fault_stat_loop)

handle_oom_kill_process ==
    <<Count("oom_stats", "cell", "ANY"), Count("oom_victim_map", "pid", "ANY")>>

mem_oom_stat_loop ==
    <<Pass("oom_stats", "diff", NULL), Pass("oom_victim_map", "drain", ZERO)>>

mem_oom_stat == Tool({handle_oom_kill_process}, mem_oom_stat_loop)

-----------------------------------------------------------------------------
(* network/socket_stat, network/tcp_connect *)

handle_socket_enter ==
    <<Count("family_count", "family", "ANY"), Count("socket_pid_count", "pid", "ANY"),
      Count("family_exporter", "family", "ANY"),
      Count("socket_pid_exporter", "comm", "ANY")>>

socket_stat_print_and_clear ==
    <<Pass("family_count", "drain", ZERO), Pass("socket_pid_count", "drain", ZERO)>>

socket_stat == Tool({handle_socket_enter}, socket_stat_print_and_clear)

record_conn ==
    <<Count("conn_count", "pid", "ANY"), Count("conn_exporter", "comm", "ANY")>>

tcp_connect_print_and_clear == <<Pass("conn_count", "drain", ZERO)>>

tcp_connect == Tool({record_conn}, tcp_connect_print_and_clear)

(* network/net_tcp_retransmit, network/net_udp_stat *)

handle_tcp_retransmit ==
    <<Count("retrans_stats", "cell", "ANY"), Count("retrans_map", "pid", "ANY"),
      Count("retrans_comm_map", "comm", "ANY")>>

net_tcp_retransmit_loop ==
    <<Pass("retrans_stats", "diff", NULL), Pass("retrans_map", "drain", ZERO),
      Pass("retrans_comm_map", "drain", NULL)>>

net_tcp_retransmit == Tool({handle_tcp_retransmit}, net_tcp_retransmit_loop)

handle_udp_sendmsg ==
    <<Count("udp_send_map", "pid", "ANY"), Count("udp_stats[0]", "cell", "ANY"),
      Count("udp_stats[2]", "cell", "ANY"), Count("udp_send_bytes_map", "pid", "ANY")>>

\* Nothing is counted unless bytes were received.
handle_udp_recvmsg(received) ==
    IF received
    THEN <<Count("udp_recv_map", "pid", "ANY"), Count("udp_stats[1]", "cell", "ANY"),
           Count("udp_stats[3]", "cell", "ANY")>>
    ELSE <<>>

net_udp_stat_loop ==
    <<Pass("udp_stats[0]", "diff", NULL), Pass("udp_stats[1]", "diff", NULL),
      Pass("udp_stats[2]", "diff", NULL), Pass("udp_stats[3]", "diff", NULL),
      Pass("udp_send_map", "drain", ZERO), Pass("udp_recv_map", "drain", ZERO),
      Pass("udp_send_bytes_map", "drain", ZERO)>>

net_udp_stat ==
    Tool({handle_udp_sendmsg} \cup {handle_udp_recvmsg(b) : b \in BOOLEAN},
         net_udp_stat_loop)

(* disk/disk_io_size: the per-PID map; its array cells are in DeltaTools.   *)
(* The four sums of an element are one count.                               *)

count_pid_io == <<Count("pid_io_stats", "pid", "ANY")>>

disk_io_size_pid_loop == <<Pass("pid_io_stats", "drain", ZERO)>>

disk_io_size_pid == Tool({count_pid_io}, disk_io_size_pid_loop)

=============================================================================
