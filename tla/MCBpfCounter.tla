---------------------------- MODULE MCBpfCounter ----------------------------
(* Instances of BpfCounter for TLC: which tools, and which keys. *)
EXTENDS BpfCounter, CounterTools, TLC

\* One printed map each, and between them every way to create a key and to walk a
\* map.
SingleMapTools == {irq_stat, read_stat, write_stat, mmap_stat, page_fault_stat}

\* Tools that count one event in several maps, and the map of disk_io_size.
SeveralMapsTools ==
    {page_fault_stat, tcp_connect, mem_oom_stat, file_open_stat,
     net_tcp_retransmit, socket_stat, net_udp_stat, disk_io_size_pid}

MmapTool == {mmap_stat}

\* Three keys in two buckets, one of them the key that many walks start from;
\* two keys in one bucket; one key, where every race happens.
ThreeKeys == <<"1", ZERO, "2">>
TwoKeys == <<"1", "2">>
OneKey == <<"1">>
HomeOf == [k \in {"1", ZERO, "2"} |-> IF k = "2" /\ ZERO \in Keys THEN 3 ELSE 1]

\* Less for page_fault_stat, which has two maps.
EventsOf(t) == IF t = page_fault_stat THEN 2 ELSE 3
SomeKeys(t) == IF t = page_fault_stat THEN Keys \ {ZERO} ELSE Keys

Symmetry ==
    Permutations(Slots) \cup Permutations(Events) \cup Permutations(CPUs)

=============================================================================
