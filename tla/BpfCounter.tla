----------------------------- MODULE BpfCounter -----------------------------
(***************************************************************************)
(* The counting tools of my_tools: kernel handlers (X.bpf.c) that count    *)
(* events into BPF maps, and a user-space loop (X.c) that walks the maps,  *)
(* prints the counts and clears them, with nothing between the two but the *)
(* atomicity of single map operations.                                     *)
(*                                                                         *)
(* A tool is data here: its handlers are sequences of count operations and *)
(* its loop is a sequence of passes (module CounterTools translates them   *)
(* from the sources).  A counter's value is the SET of the events counted  *)
(* in it, so that an event counted twice, lost, or counted under another   *)
(* key shows.                                                              *)
(*                                                                         *)
(* Map semantics (external: the kernel's preallocated hash map).  A lookup *)
(* gives a pointer to the value of a slot.  An update of a present key     *)
(* puts a new slot in its place.  A deleted or replaced slot is free for   *)
(* reuse at once, even for another key, while handlers still hold pointers *)
(* to it.  A walk goes through the buckets of the hash table in turn, and  *)
(* every update links the new slot at the head of its key's bucket, that   *)
(* of a present key too.  get_next_key of a key that is not there starts   *)
(* again at the first.                                                     *)
(***************************************************************************)
EXTENDS Integers, Sequences, Functions, FiniteSets

CONSTANTS
    Tools,          \* the tool descriptions under study
    Events,         \* occurrences of traced kernel functions
    CPUs,           \* handlers that can be in progress together
    KeyOrder,       \* the keys (PIDs, names...), bucket after bucket
    Home,           \* the place in KeyOrder where the bucket of a key begins
    Slots,          \* slots of each map
    MaxEntries,     \* max_entries of each hash map
    MaxEvents(_),   \* bounds for each tool: events that happen,
    KeysOf(_)       \* and the keys they have

Keys == Range(KeyOrder)

Cell == "cell"      \* the index of an array map; each index is a map here
Null == "null"      \* a NULL pointer, or no key

ASSUME ConstantsAssumption ==
    /\ IsFiniteSet(Events) /\ IsFiniteSet(Slots)
    /\ MaxEntries \in Nat
    /\ Cardinality(Slots) > MaxEntries
    /\ Cell \notin Keys /\ Null \notin Keys \cup Slots \cup Events
    /\ KeyOrder \in Seq(Keys)
    /\ \A i, j \in DOMAIN KeyOrder : KeyOrder[i] = KeyOrder[j] => i = j
    /\ \A i \in DOMAIN KeyOrder :
          /\ Home[KeyOrder[i]] \in 1..i
          /\ \A j \in Home[KeyOrder[i]]..i : Home[KeyOrder[j]] = Home[KeyOrder[i]]

OpType == [map : STRING, key : STRING, flag : {"ANY", "NOEXIST", "ZERO"}]

PassType == [map : STRING, start : STRING,
             style : {"drain", "ahead", "collect", "zero", "snapshot", "diff"}]

\* What the sources of the tools have in common.  A handler counts an event once
\* in each of its maps, and a map is counted in the same way wherever it is.  The
\* loop goes through a map once, array cells with "diff" and no other map.
WellFormed(t) ==
    /\ t \in [handlers : SUBSET Seq(OpType), passes : Seq(PassType)]
    /\ t.passes # <<>>
    /\ \A g, h \in t.handlers : \A i \in DOMAIN g, j \in DOMAIN h :
          g[i].map = h[j].map => g[i] = h[j] /\ (g = h => i = j)
    /\ \A p, q \in DOMAIN t.passes :
          t.passes[p].map = t.passes[q].map => p = q
    /\ \A p \in DOMAIN t.passes :
          \E h \in t.handlers : \E i \in DOMAIN h :
             /\ h[i].map = t.passes[p].map
             /\ h[i].key = Cell <=> t.passes[p].style = "diff"

ASSUME ToolsAssumption == \A t \in Tools : WellFormed(t)

ASSUME BoundsAssumption == \A t \in Tools : MaxEvents(t) \in Nat /\ KeysOf(t) \subseteq Keys

VARIABLES
    tool, attr,                 \* the tool that runs; the keys of each event
    bucket, val, place,         \* maps: the slot of each key, the slots' values,
                                \* the places of the keys in a walk
    todo, event, step, ptr,     \* handlers: operations left, event, stage, pointer
    pass, phase, cursor, key, ahead, keys, prev,    \* locals of the loop
    fired, handled, report, raced, due, missed      \* history

mapVars     == <<bucket, val, place>>
handlerVars == <<todo, event, step, ptr>>
readerVars  == <<pass, phase, cursor, key, ahead, keys, prev>>
vars == <<tool, attr, bucket, val, place, todo, event, step, ptr, pass, phase, cursor,
          key, ahead, keys, prev, fired, handled, report, raced, due, missed>>

-----------------------------------------------------------------------------
(* The tool's description *)

Ops      == UNION {Range(h) : h \in tool.handlers}
Maps     == {op.map : op \in Ops}
KeyKinds == {op.key : op \in Ops} \ {Cell}
IsArray(m) == \E op \in Ops : op.map = m /\ op.key = Cell

KeyOf(e, op) == IF op.key = Cell THEN Cell ELSE attr[e][op.key]

\* The key an event has in a map, for the operation that counts it there.
KeyIn(e, m) == KeyOf(e, CHOOSE op \in Ops : op.map = m)

Current == tool.passes[pass]

-----------------------------------------------------------------------------
(* Maps *)

Resident(m) == {s \in Slots : \E k \in DOMAIN bucket[m] : bucket[m][k] = s}
Counted(m)  == UNION {val[m][s] : s \in Resident(m)}
Used(m)     == {k \in Keys : bucket[m][k] # Null}

\* The keys of map m that a walk meets after key k.
After(m, k) == {j \in Used(m) : place[m][k] < place[m][j]}

\* bpf_map_get_next_key: the first key of the walk after k, or the first of all
\* when k is NULL or not in the map.
NextKey(m, k) ==
    LET from == IF k \in Used(m) THEN After(m, k) ELSE Used(m)
    IN  IF from = {} THEN Null
        ELSE CHOOSE j \in from : \A i \in from : place[m][j] <= place[m][i]

\* Key k of map m comes to the head of its bucket.  (A key that is not in the map
\* has a place too, which matters to nobody.)
ToHead(m, k) ==
    place' = [place EXCEPT ![m] = [j \in Keys |->
        IF j = k THEN Home[k]
        ELSE IF @[j] \in Home[k]..(@[k] - 1) THEN @[j] + 1 ELSE @[j]]]

\* A free slot takes the place of whatever key k has.
Store(m, k, value) ==
    \E s \in Slots \ Resident(m) :
        /\ bucket' = [bucket EXCEPT ![m][k] = s]
        /\ val' = [val EXCEPT ![m][s] = value]
        /\ ToHead(m, k)

-----------------------------------------------------------------------------
(* Handlers in progress *)

Idle(c) == step[c] = "idle"

Op(c) == Head(todo[c])

\* Between the lookup and the last access of the current operation.
InFlight(c, m, k) ==
    /\ step[c] \in {"add", "insert", "again"}
    /\ Op(c).map = m
    /\ KeyOf(event[c], Op(c)) = k

\* The loop has read the value of key k and is about to clear it.
ReadWindow(m, k) == phase = "clear" /\ Current.map = m /\ key = k

Init ==
    /\ tool \in Tools
    /\ attr \in [Events -> [KeyKinds -> KeysOf(tool)]]
    /\ LET cell == CHOOSE s \in Slots : TRUE
       IN  bucket = [m \in Maps |-> [k \in Keys \cup {Cell} |->
                        IF k = Cell /\ IsArray(m) THEN cell ELSE Null]]
    /\ val = [m \in Maps |-> [s \in Slots |-> {}]]
    /\ place = [m \in Maps |-> [k \in Keys |->
                    CHOOSE i \in DOMAIN KeyOrder : KeyOrder[i] = k]]
    /\ todo = [c \in CPUs |-> <<>>]
    /\ event = [c \in CPUs |-> Null]
    /\ step = [c \in CPUs |-> "idle"]
    /\ ptr = [c \in CPUs |-> Null]
    /\ pass = 0 /\ phase = "sleep"
    /\ cursor = Null /\ key = Null /\ ahead = Null /\ keys = <<>>
    /\ prev = [m \in Maps |-> {}]
    /\ fired = {} /\ handled = {}
    /\ report = [m \in Maps |-> [e \in Events |-> <<>>]]
    /\ raced = {}
    /\ due = {} /\ missed = {}

-----------------------------------------------------------------------------
(* Handler steps: one map operation, or one atomic add, each *)

\* A traced function is called: one of the tool's programs starts on CPU c.
Fire(c, e, h) ==
    /\ Idle(c)
    /\ e \notin fired /\ Cardinality(fired) < MaxEvents(tool)
    /\ fired' = fired \cup {e}
    /\ event' = [event EXCEPT ![c] = e]
    /\ todo' = [todo EXCEPT ![c] = h]
    /\ step' = [step EXCEPT ![c] = IF h = <<>> THEN "idle" ELSE "lookup"]
    /\ UNCHANGED <<handled, tool, attr, mapVars, ptr, readerVars, report, raced, due,
                   missed>>

\* The current operation of CPU c is over: on to the next one, or return.
Advance(c) ==
    /\ todo' = [todo EXCEPT ![c] = Tail(@)]
    /\ step' = [step EXCEPT ![c] =
                  IF Tail(todo[c]) = <<>> THEN "idle" ELSE "lookup"]
    /\ ptr' = [ptr EXCEPT ![c] = Null]
    /\ handled' = handled \cup {<<Op(c).map, event[c]>>}

\* History: <<m, e, why>> is in raced when event e may be lost in map m because
\* of another handler, of the loop, or of a full map.
Races(m, who, why) == {<<m, e, why>> : e \in who}

\* bpf_map_lookup_elem.  Two handlers race on a key when one of them finds no
\* element and the other is in progress there; a handler races with the loop
\* when it overlaps the loop's read-then-clear of the key.
Lookup(c) ==
    /\ step[c] = "lookup"
    /\ LET m == Op(c).map
           k == KeyOf(event[c], Op(c))
           s == bucket[m][k]
           rivals == {d \in CPUs \ {c} :
                        InFlight(d, m, k) /\ (s = Null \/ step[d] # "add")}
       IN  /\ ptr' = [ptr EXCEPT ![c] = s]
           /\ step' = [step EXCEPT ![c] = IF s = Null THEN "insert" ELSE "add"]
           /\ raced' = raced
                \cup (IF rivals = {} THEN {}
                      ELSE Races(m, {event[d] : d \in rivals \cup {c}}, "handler"))
                \cup (IF ReadWindow(m, k) THEN Races(m, {event[c]}, "reader")
                      ELSE {})
    /\ UNCHANGED <<handled, tool, attr, mapVars, todo, event, readerVars, fired, report,
                   due, missed>>

\* Faulty variant of Add: a plain store of the new count.
AddStore(c) ==
    /\ step[c] = "add"
    /\ val' = [val EXCEPT ![Op(c).map][ptr[c]] = {event[c]}]
    /\ Advance(c)
    /\ UNCHANGED <<tool, attr, bucket, place, event, readerVars, fired, report, raced,
                   due, missed>>

\* __sync_fetch_and_add through the pointer, whatever the slot is by now.
Add(c) ==
    /\ step[c] = "add"
    /\ val' = [val EXCEPT ![Op(c).map][ptr[c]] = @ \cup {event[c]}]
    /\ Advance(c)
    /\ UNCHANGED <<tool, attr, bucket, place, event, readerVars, fired, report, raced,
                   due, missed>>

\* bpf_map_update_elem(..., 1, BPF_ANY): a present element is replaced.
InsertAny(c) ==
    /\ step[c] = "insert"
    /\ Op(c).flag = "ANY"
    /\ LET m == Op(c).map
           k == KeyOf(event[c], Op(c))
       IN  IF bucket[m][k] = Null /\ Cardinality(Used(m)) >= MaxEntries
           THEN /\ raced' = raced \cup Races(m, {event[c]}, "full")
                /\ UNCHANGED mapVars
           ELSE /\ Store(m, k, {event[c]})
                /\ UNCHANGED raced
    /\ Advance(c)
    /\ UNCHANGED <<tool, attr, event, readerVars, fired, report, due, missed>>

\* bpf_map_update_elem(..., 1, BPF_NOEXIST): fails if the key is there by now;
\* the result is not looked at.
InsertNoExist(c) ==
    /\ step[c] = "insert"
    /\ Op(c).flag = "NOEXIST"
    /\ LET m == Op(c).map
           k == KeyOf(event[c], Op(c))
       IN  \/ /\ bucket[m][k] # Null
              /\ UNCHANGED <<mapVars, raced>>
           \/ /\ bucket[m][k] = Null /\ Cardinality(Used(m)) >= MaxEntries
              /\ raced' = raced \cup Races(m, {event[c]}, "full")
              /\ UNCHANGED mapVars
           \/ /\ bucket[m][k] = Null /\ Cardinality(Used(m)) < MaxEntries
              /\ Store(m, k, {event[c]})
              /\ UNCHANGED raced
    /\ Advance(c)
    /\ UNCHANGED <<tool, attr, event, readerVars, fired, report, due, missed>>

\* bpf_map_update_elem(..., 0, BPF_ANY), to be looked up again and added to.
InsertZero(c) ==
    /\ step[c] = "insert"
    /\ Op(c).flag = "ZERO"
    /\ LET m == Op(c).map
           k == KeyOf(event[c], Op(c))
       IN  IF bucket[m][k] = Null /\ Cardinality(Used(m)) >= MaxEntries
           THEN /\ raced' = raced \cup Races(m, {event[c]}, "full")
                /\ UNCHANGED mapVars
           ELSE Store(m, k, {}) /\ UNCHANGED raced
    /\ step' = [step EXCEPT ![c] = "again"]
    /\ UNCHANGED <<handled, tool, attr, todo, event, ptr, readerVars, fired, report, due,
                   missed>>

\* Faulty variant of LookupAgain: the pointer is not checked.
LookupAgainUnchecked(c) ==
    /\ step[c] = "again"
    /\ ptr' = [ptr EXCEPT ![c] = bucket[Op(c).map][KeyOf(event[c], Op(c))]]
    /\ step' = [step EXCEPT ![c] = "add"]
    /\ UNCHANGED <<tool, attr, mapVars, todo, event, readerVars, fired, handled,
                   report, raced, due, missed>>

\* irq_stat looks the key up again after creating it with a count of 0.
LookupAgain(c) ==
    /\ step[c] = "again"
    /\ LET s == bucket[Op(c).map][KeyOf(event[c], Op(c))]
       IN  \/ s = Null /\ Advance(c)
           \/ /\ s # Null
              /\ ptr' = [ptr EXCEPT ![c] = s]
              /\ step' = [step EXCEPT ![c] = "add"]
              /\ UNCHANGED <<todo, handled>>
    /\ UNCHANGED <<tool, attr, mapVars, event, readerVars, fired, report, raced,
                   due, missed>>

-----------------------------------------------------------------------------
(* The loop *)

\* Print the count of key k: the events v.  (Two reports tell all there is.)
PrintCount(m, k, v) ==
    report' = [report EXCEPT ![m] =
        [e \in Events |-> IF e \in v /\ Len(@[e]) < 2 THEN Append(@[e], k)
                          ELSE @[e]]]

\* Faulty variant of EnterPass: the walk starts from a key that may be there.
EnterPassAtKey(p) ==
    /\ pass' = p
    /\ phase' = IF tool.passes[p].style = "diff" THEN "diff" ELSE "walk"
    /\ cursor' = KeyOrder[1]
    /\ key' = Null /\ ahead' = Null /\ keys' = <<>>
    /\ due' = Counted(tool.passes[p].map)

\* Start pass p of the loop body (Null: the walk begins at NULL; otherwise with
\* the start key the tool passes to get_next_key).
EnterPass(p) ==
    /\ pass' = p
    /\ phase' = IF tool.passes[p].style = "diff" THEN "diff" ELSE "walk"
    /\ cursor' = tool.passes[p].start
    /\ key' = Null /\ ahead' = Null /\ keys' = <<>>
    /\ due' = Counted(tool.passes[p].map)

\* What the pass has to print.  A walk from a key that is in the map (PID 0, of
\* the idle task) begins after that key: the key itself and the keys before it
\* are not to be expected of this pass.
Due ==
    LET m == Current.map
        first == phase = "walk" /\ cursor = Current.start /\ key = Null /\ keys = <<>>
    IN  IF first /\ cursor \in Used(m)
        THEN due \cap UNION {val[m][bucket[m][k]] : k \in After(m, cursor)}
        ELSE due

\* A pass is over: what it should have printed and did not is `missed'.  It is
\* left with its last map operation, so that report' is what it has printed.  (The
\* next pass is over another map, which that operation leaves alone.)
LeavePass ==
    /\ missed' = missed \cup
          {<<Current.map, e>> : e \in {d \in Due :
                /\ report'[Current.map][d] = <<>>
                /\ \A why \in {"handler", "reader"} :
                      <<Current.map, d, why>> \notin raced}}
    /\ IF pass < Len(tool.passes)
       THEN EnterPass(pass + 1)
       ELSE /\ pass' = 0 /\ phase' = "sleep"
            /\ cursor' = Null /\ key' = Null /\ ahead' = Null /\ keys' = <<>>
            /\ due' = {}

\* sleep() returns.
WakeUp ==
    /\ phase = "sleep"
    /\ EnterPass(1)
    /\ UNCHANGED <<handled, tool, attr, mapVars, handlerVars, prev, fired, report, raced,
                   missed>>

\* Faulty variant of Diff: the snapshot is not refreshed.
DiffStale ==
    /\ phase = "diff"
    /\ LET m == Current.map
       IN  PrintCount(m, Cell, val[m][bucket[m][Cell]] \ prev[m])
    /\ LeavePass
    /\ UNCHANGED <<handled, tool, attr, mapVars, handlerVars, prev, fired, raced>>

\* Array cell: print what was added since the last pass; nothing is cleared.
Diff ==
    /\ phase = "diff"
    /\ LET m == Current.map
           cur == val[m][bucket[m][Cell]]
       IN  /\ PrintCount(m, Cell, cur \ prev[m])
           /\ prev' = [prev EXCEPT ![m] = cur]
    /\ LeavePass
    /\ UNCHANGED <<handled, tool, attr, mapVars, handlerVars, fired, raced>>

\* The first key still to be drained of those collected, or the end of the pass.
NextCollected ==
    IF keys = <<>> THEN LeavePass
    ELSE /\ phase' = "look" /\ key' = Head(keys) /\ keys' = Tail(keys)
         /\ UNCHANGED <<pass, cursor, ahead, due, missed>>

\* bpf_map_get_next_key.  (read_stat's buffer has room for max_entries keys, all
\* there can be, so its bound is never met.)
Walk ==
    /\ phase = "walk"
    /\ UNCHANGED <<handled, tool, attr, mapVars, handlerVars, prev, fired, report,
                   raced>>
    /\ LET k == NextKey(Current.map, cursor)
       IN  \/ k = Null /\ NextCollected
           \/ /\ k # Null /\ Current.style = "collect"
              /\ keys' = Append(keys, k) /\ cursor' = k
              /\ due' = Due
              /\ UNCHANGED <<pass, phase, key, ahead, missed>>
           \/ /\ k # Null /\ Current.style # "collect"
              /\ key' = k /\ cursor' = k
              /\ phase' = IF Current.style = "ahead" THEN "peek" ELSE "look"
              /\ due' = Due
              /\ UNCHANGED <<pass, ahead, keys, missed>>

\* page_fault_stat fetches the key after the current one before it deletes it.
Peek ==
    /\ phase = "peek"
    /\ ahead' = NextKey(Current.map, key)
    /\ phase' = "look"
    /\ UNCHANGED <<handled, tool, attr, mapVars, handlerVars, pass, cursor, key, keys,
                   prev, fired, report, raced, due, missed>>

\* Where the loop goes after the current key.
NextStop ==
    CASE Current.style = "ahead" ->
            IF ahead = Null THEN LeavePass
            ELSE /\ phase' = "peek" /\ key' = ahead
                 /\ UNCHANGED <<pass, cursor, ahead, keys, due, missed>>
      [] Current.style = "collect" -> NextCollected
      [] OTHER -> /\ phase' = "walk"
                  /\ UNCHANGED <<pass, cursor, key, ahead, keys, due, missed>>

\* Faulty variant of Look: the variable of the walk is printed for the key.
LookAtCursor ==
    /\ phase = "look"
    /\ LET m == Current.map
           s == bucket[m][key]
       IN  \/ s = Null /\ UNCHANGED <<report, raced>> /\ NextStop
           \/ /\ s # Null
              /\ PrintCount(m, cursor, val[m][s])
              /\ IF Current.style = "snapshot" THEN NextStop /\ UNCHANGED raced
                 ELSE /\ phase' = "clear"
                      /\ raced' = raced \cup Races(m,
                             {event[c] : c \in {d \in CPUs : InFlight(d, m, key)}},
                             "reader")
                      /\ UNCHANGED <<pass, cursor, key, ahead, keys, due, missed>>
    /\ UNCHANGED <<handled, tool, attr, mapVars, handlerVars, prev, fired>>

\* bpf_map_lookup_elem from user space copies the value, which is printed.
Look ==
    /\ phase = "look"
    /\ LET m == Current.map
           s == bucket[m][key]
       IN  \/ s = Null /\ UNCHANGED <<report, raced>> /\ NextStop
           \/ /\ s # Null
              /\ PrintCount(m, key, val[m][s])
              /\ IF Current.style = "snapshot" THEN NextStop /\ UNCHANGED raced
                 ELSE /\ phase' = "clear"
                      /\ raced' = raced \cup Races(m,
                             {event[c] : c \in {d \in CPUs : InFlight(d, m, key)}},
                             "reader")
                      /\ UNCHANGED <<pass, cursor, key, ahead, keys, due, missed>>
    /\ UNCHANGED <<handled, tool, attr, mapVars, handlerVars, prev, fired>>

\* Faulty variant of Clear: the count that was read stays in the map.
ClearNothing ==
    /\ phase = "clear"
    /\ UNCHANGED <<handled, tool, attr, mapVars, handlerVars, prev, fired, report,
                   raced>>
    /\ NextStop

\* The count that was read is cleared: the key is deleted, or (mmap_stat) set to
\* zero with BPF_EXIST.
Clear ==
    /\ phase = "clear"
    /\ LET m == Current.map
       IN  \/ bucket[m][key] = Null /\ UNCHANGED mapVars
           \/ /\ bucket[m][key] # Null
              /\ IF Current.style = "zero" THEN Store(m, key, {})
                 ELSE /\ bucket' = [bucket EXCEPT ![m][key] = Null]
                      /\ UNCHANGED <<val, place>>
    /\ UNCHANGED <<handled, tool, attr, handlerVars, prev, fired, report, raced>>
    /\ NextStop

-----------------------------------------------------------------------------
HandlerStep(c) ==
    \/ Lookup(c) \/ Add(c)
    \/ InsertAny(c) \/ InsertNoExist(c) \/ InsertZero(c) \/ LookupAgain(c)

ReaderStep == WakeUp \/ Diff \/ Walk \/ Peek \/ Look \/ Clear

Next ==
    \/ \E c \in CPUs, e \in Events : \E h \in tool.handlers : Fire(c, e, h)
    \/ \E c \in CPUs : HandlerStep(c)
    \/ ReaderStep

Spec == Init /\ [][Next]_vars

\* Handlers run to their end (the verifier has seen to it) and the loop goes on
\* for as long as the tool runs.
FairSpec ==
    /\ Spec
    /\ \A c \in CPUs : WF_vars(HandlerStep(c))
    /\ WF_vars(ReaderStep)

-----------------------------------------------------------------------------
(* Properties *)

\* Maps, handlers and loop keep their types: a handler adds only through a
\* pointer it has tested, and the loop looks up and clears only real keys.
TypeOK ==
    /\ bucket \in [Maps -> [Keys \cup {Cell} -> Slots \cup {Null}]]
    /\ val \in [Maps -> [Slots -> SUBSET Events]]
    /\ event \in [CPUs -> Events \cup {Null}]
    /\ step \in [CPUs -> {"idle", "lookup", "add", "insert", "again"}]
    /\ ptr \in [CPUs -> Slots \cup {Null}]
    /\ phase \in {"sleep", "diff", "walk", "peek", "look", "clear"}
    /\ key \in Keys \cup {Null}
    /\ phase \in {"peek", "look", "clear"} => key \in Keys
    /\ \A c \in CPUs : step[c] = "add" => ptr[c] \in Slots
    /\ prev \in [Maps -> SUBSET Events]

\* Maps the loop prints and clears, i.e. whose lines the dashboard may add up.
Incremental ==
    {tool.passes[p].map : p \in {q \in DOMAIN tool.passes :
                                    tool.passes[q].style # "snapshot"}}

\* No event is printed twice, however handlers, the reuse of slots and the
\* read-then-clear of the loop interleave.
ReportedAtMostOnce ==
    \A m \in Incremental, e \in Events : Len(report[m][e]) <= 1

\* An event whose handler has passed a map is in the map or was printed, unless
\* it met one of the three known ways to lose a count there: another handler
\* creating the same key, the loop between reading and clearing the key, or a
\* full map.  In particular adds to a present key are never lost to each other.
LostOnlyToRaces ==
    \A x \in handled :
        LET m == x[1]  e == x[2] IN
        \/ \E why \in {"handler", "reader", "full"} : <<m, e, why>> \in raced
        \/ e \in Counted(m)
        \/ report[m][e] # <<>>

\* An event is printed under its own key, unless it raced with the removal of
\* the slot it was about to be added to.
PrintedUnderOwnKey ==
    \A m \in Maps, e \in Events :
        \A k \in Range(report[m][e]) :
            \/ k = KeyIn(e, m)
            \/ \E why \in {"handler", "reader"} : <<m, e, why>> \in raced

\* A pass prints everything that was in its map when it began, in spite of the
\* keys it deletes and the handlers insert under its feet; from a start key that
\* is in the map, everything that the walk has after it.
PassComplete == missed = {}

\* mmap_stat.c:32 announces counts "per sec": a pass comes to its end and the
\* loop to its sleep(1).
PassEnds == phase # "sleep" ~> phase = "sleep"

=============================================================================
