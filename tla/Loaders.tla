------------------------------ MODULE Loaders -------------------------------
(***************************************************************************)
(* The loaders of my_tools as data for Loader: the signals a loader        *)
(* handles and where it installs the handlers, whether it opens and loads  *)
(* in two calls, whether it allocates an array, what its loop does first,  *)
(* how long it sleeps, and when it flushes stdout.                         *)
(***************************************************************************)

\* Most loaders: both handlers first thing, sleep(1), one flush for each pass.
Common(name) ==
    [name |-> name, signals |-> {"INT", "TERM"}, place |-> "start",
     split |-> FALSE, alloc |-> FALSE, first |-> "sleep", period |-> 1,
     flush |-> "pass"]

irq_stat           == Common("irq_stat")
cpu_freq_stat      == Common("cpu_freq_stat")
cpu_run_delay      == Common("cpu_run_delay")
cpu_usage          == Common("cpu_usage")
disk_io_sched      == Common("disk_io_sched")
disk_io_size       == Common("disk_io_size")
file_fsync_stat    == Common("file_fsync_stat")
file_open_stat     == Common("file_open_stat")
mem_oom_stat       == Common("mem_oom_stat")
net_tcp_retransmit == Common("net_tcp_retransmit")
net_udp_stat       == Common("net_udp_stat")

disk_write_delay == [Common("disk_write_delay") EXCEPT !.first = "print"]

disk_read_delay ==
    [Common("disk_read_delay") EXCEPT !.first = "print", !.place = "loaded"]

page_fault_stat ==
    [Common("page_fault_stat") EXCEPT !.first = "print", !.place = "attached"]

tcp_connect == [Common("tcp_connect") EXCEPT !.period = 2]

socket_stat == [Common("socket_stat") EXCEPT !.period = 2, !.signals = {"INT"}]

\* No handler at all.
Plain(name) == [Common(name) EXCEPT !.signals = {}, !.split = TRUE]

read_stat == [Plain("read_stat") EXCEPT !.alloc = TRUE]

write_stat == [Plain("write_stat") EXCEPT !.first = "print", !.flush = "never"]

mmap_stat == [Plain("mmap_stat") EXCEPT !.first = "print", !.flush = "never"]

page_swap_stat == [Plain("page_swap_stat") EXCEPT !.first = "print", !.flush = "line"]

=============================================================================
