------------------------------ MODULE MCLoader ------------------------------
(* Instances of Loader for TLC. *)
EXTENDS Loader, Loaders

AllLoaders ==
    {irq_stat, cpu_freq_stat, cpu_run_delay, cpu_usage, disk_io_sched, disk_io_size,
     file_fsync_stat, file_open_stat, mem_oom_stat, net_tcp_retransmit, net_udp_stat,
     disk_write_delay, disk_read_delay, page_fault_stat, tcp_connect, socket_stat,
     read_stat, write_stat, mmap_stat, page_swap_stat}

=============================================================================
