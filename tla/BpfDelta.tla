------------------------------ MODULE BpfDelta ------------------------------
(***************************************************************************)
(* The tools of my_tools that keep cumulative values and print             *)
(* differences, most of them latencies: a probe at the start of an         *)
(* operation stores a time stamp in a map, a probe at its end looks the    *)
(* stamp up, adds the delay to accumulators and deletes the stamp.  The    *)
(* user-space loop reads accumulators one by one, prints what was added    *)
(* since its last pass and remembers what it read.                         *)
(*                                                                         *)
(* A tool is data (module DeltaTools).  An owner is what an operation      *)
(* belongs to: a thread, or a block request.  Its probes run one after the *)
(* other, operations may nest (a read inside a read, a request started     *)
(* again), and those of different owners overlap freely.  A start is the   *)
(* pair of its owner and a serial number, which is all a time stamp is     *)
(* good for here; every delay counts 1.                                    *)
(*                                                                         *)
(* External: BPF maps.  bpf_map_update_elem with BPF_ANY puts a new        *)
(* element in the place of an old one, and fails if the key is new and the *)
(* map full.  A replaced element is a spare of its CPU, which the next     *)
(* replacement there takes, under whatever key of the same map.  An add    *)
(* through a pointer to it is lost, or lands under that key.  (CPUs are    *)
(* not modelled: any element that was put in by a replacement may be the   *)
(* one the pointer leads to.)  A replaced element also moves in the order  *)
(* of a walk, which is fixed here: no property is about the order, and     *)
(* CaughtUp is about passes without replacements.  The probe at the end    *)
(* may be missed: the kernel has a limited number of kretprobe instances.  *)
(***************************************************************************)
EXTENDS Integers, Sequences, Functions, FiniteSets

CONSTANTS
    Tools,          \* the tool descriptions under study
    Owners,         \* threads or block requests
    ProcessOf,      \* the process (tgid) of each owner
    Contexts,       \* (PID, CPU) that may be current when a probe fires
    KeyOrder,       \* owners and processes in the order a walk meets them
    BigKeys,        \* PIDs not below MAX_PIDS, the size of the loops' snapshots
    MaxStamps(_),   \* max_entries of the stamp maps, for each tool
    MaxElements(_), \* and of the hash maps that accumulate
    Unit,           \* what the integer divisions on output divide by
    Word,           \* unsigned subtraction is modulo Word
    Meets(_),       \* the pairs of probes that the owners may meet, for each tool
    Underway(_),    \* owners that may be in an operation when a tool is started
    MaxCalls(_, _), \* bound: operations each owner starts, for each tool
    MaxStarted(_),  \* bound: and all of them together
    MaxDepth        \* bound: how deep operations nest

Cell == "cell"      \* the index of an array cell; each index is a map here
Null == "null"
NoStamp == <<Null, 0>>

Adds(op, m) == op.do = "add" /\ op.map = m

ASSUME ConstantsAssumption ==
    /\ IsFiniteSet(Owners)
    /\ Owners \cup {ProcessOf[o] : o \in Owners} \subseteq Range(KeyOrder)
    /\ KeyOrder \in Seq(Range(KeyOrder))
    /\ \A i, j \in DOMAIN KeyOrder : KeyOrder[i] = KeyOrder[j] => i = j
    /\ BigKeys \subseteq Range(KeyOrder)
    /\ {Unit, Word, MaxDepth} \subseteq Nat \ {0}
    /\ \A t \in Tools : {MaxStamps(t), MaxElements(t), MaxStarted(t)} \subseteq Nat
    /\ \A t \in Tools, o \in Owners : MaxCalls(t, o) \in Nat
    /\ \A t \in Tools : Underway(t) \subseteq Owners
    /\ \A t \in Tools : Meets(t) \subseteq [Owners -> DOMAIN t.pairs]
    /\ {Cell, Null} \cap Range(KeyOrder) = {}

OpType ==
    [do : {"stamp", "match", "sane", "unstamp"}] \cup
    [do : {"add"}, map : STRING, key : {"cell", "owner", "process"},
     create : {"array", "ANY"}]

PairType ==
    [stamps : STRING, key : {"owner", "process", "context"},
     start : Seq(OpType), finish : Seq(OpType)]

GroupType ==
    [cells : BOOLEAN, maps : Seq(STRING), gate : Nat, guarded : BOOLEAN,
     unit : Nat \ {0}, keep : BOOLEAN, beyond : {"skip", "zero"}]

\* The probes of a pair: either one probe that only adds, or one that stores the
\* time and one that looks it up, adds, and deletes it in the end.
ProbesFormed(p) ==
    \/ p.finish = <<>> /\ \A i \in DOMAIN p.start : p.start[i].do = "add"
    \/ /\ Len(p.start) = 1 /\ p.start[1].do = "stamp"
       /\ Len(p.finish) >= 2
       /\ \A i \in DOMAIN p.finish : p.finish[i].do \in
             (IF i = 1 THEN {"match"}
              ELSE IF i = Len(p.finish) THEN {"unstamp"} ELSE {"sane", "add"})

\* A map of a group is added to in one way, to cells or not as the group reads it;
\* the loop subtracts without a guard only what lives in an array.
GroupFormed(g, adds) ==
    /\ g.maps # <<>> /\ g.gate <= Len(g.maps)
    /\ \A i \in DOMAIN g.maps : \E a \in adds :
          /\ a.map = g.maps[i]
          /\ g.cells <=> a.key = "cell"
          /\ ~g.guarded => a.create = "array"

\* In program h, a total is added to right before its count.
InOrder(h, t) ==
    \A x \in t.averages : \A i \in DOMAIN h :
        /\ Adds(h[i], x[1]) => i < Len(h) /\ Adds(h[i + 1], x[2])
        /\ Adds(h[i], x[2]) => i > 1 /\ Adds(h[i - 1], x[1])

\* What the sources of the tools have in common.
WellFormed(t) ==
    LET programs == {p.start : p \in Range(t.pairs)} \cup {p.finish : p \in Range(t.pairs)}
        adds == {op \in UNION {Range(h) : h \in programs} : op.do = "add"}
    IN  /\ t \in [name : STRING, pairs : Seq(PairType), loop : Seq(GroupType),
                   averages : SUBSET (STRING \X STRING)]
        /\ t.loop # <<>>
        /\ \A p \in Range(t.pairs) : ProbesFormed(p)
        /\ \A p, q \in Range(t.pairs) : p.stamps = q.stamps => p.key = q.key
        /\ \A h \in programs : InOrder(h, t)
        /\ \A a, b \in adds : a.map = b.map => a = b
        /\ \A a \in adds : a.create = "array" => a.key = "cell"
        /\ \A g \in Range(t.loop) : GroupFormed(g, adds)
        /\ \A p, q \in DOMAIN t.loop :
              \A i \in DOMAIN t.loop[p].maps, j \in DOMAIN t.loop[q].maps :
                 t.loop[p].maps[i] = t.loop[q].maps[j] => p = q /\ i = j
        /\ \A x \in t.averages : /\ x[1] # x[2]
                                  /\ \A n \in {1, 2} : \E a \in adds :
                                        a.map = x[n] /\ a.create = "array"

ASSUME ToolsAssumption == \A t \in Tools : WellFormed(t)

VARIABLES
    tool, pairOf,               \* the tool that runs; which pair an owner meets
    stamp,                      \* stamp maps: the start stored under each key
    acc,                        \* accumulators: replacements so far and value
    calls, open,                \* operations each owner started, and is in
    todo, stage, ctx, ptr, from,    \* probe in progress: operations left, and locals
    phase, group, key, cur,     \* locals of the loop
    prev,                       \* its snapshots
    strays, fed, landed, out, lines, quiet      \* history

mapVars     == <<stamp, acc>>
handlerVars == <<calls, open, todo, stage, ctx, ptr, from>>
readerVars  == <<phase, group, key, cur, prev, out, lines>>
vars == <<tool, pairOf, stamp, acc, calls, open, todo, stage, ctx, ptr,
          from, phase, group, key, cur, prev, strays, fed, landed, out, lines,
          quiet>>

-----------------------------------------------------------------------------
(* The tool's description *)

Ops       == UNION {Range(p.start) \cup Range(p.finish) : p \in Range(tool.pairs)}
Accs      == {op \in Ops : op.do = "add"}
Maps      == {op.map : op \in Accs}
Arrays    == {op.map : op \in {a \in Accs : a.create = "array"}}
HashCells == {op.map : op \in {a \in Accs : a.key = "cell" /\ a.create = "ANY"}}
StampMaps == {p.stamps : p \in Range(tool.pairs)}
Keys      == Range(KeyOrder) \cup {Cell}
Kept      == {g \in Range(tool.loop) : g.keep}
PairOf(o) == tool.pairs[pairOf[o]]

\* The key of an operation of owner o when the context is c.
KeyFor(kind, o, c) ==
    CASE kind = "cell"    -> Cell
      [] kind = "owner"   -> o
      [] kind = "process" -> ProcessOf[o]
      [] kind = "context" -> c

StampKey(o) == KeyFor(PairOf(o).key, o, ctx[o])
Stamps(o)   == PairOf(o).stamps
Op(o)       == Head(todo[o])
AccKey(o)   == KeyFor(Op(o).key, o, ctx[o])
Idle(o)     == todo[o] = <<>>

\* An element has a generation, from 1; there is none at generation 0.
NoElement == [at |-> 0, sum |-> 0]
Present(m, k) == acc[m][k].at > 0

\* The elements of an array are there from the start, those of a hash map not.
Elements ==
    [m \in Maps |-> [k \in Keys |->
        IF k = Cell /\ m \in Arrays THEN [at |-> 1, sum |-> 0] ELSE NoElement]]

Zero == [m \in Maps |-> [k \in Keys |-> 0]]

\* The probes are attached while an operation may be under way.
Init ==
    /\ tool \in Tools
    /\ pairOf \in Meets(tool)
    /\ stamp = [s \in StampMaps |-> [k \in Keys \cup Contexts |-> NoStamp]]
    /\ acc = Elements
    /\ calls = [o \in Owners |-> 0]
    /\ open \in [Owners -> {0, 1}]
    /\ LET busy == {o \in Owners : open[o] = 1}
       IN  /\ Cardinality(busy) <= 1 /\ busy \subseteq Underway(tool)
           /\ \A o \in busy : PairOf(o).finish # <<>>
    /\ todo = [o \in Owners |-> <<>>]
    /\ stage = [o \in Owners |-> "look"]
    /\ ctx = [o \in Owners |-> Null]
    /\ ptr = [o \in Owners |-> 0]
    /\ from = [o \in Owners |-> NoStamp]
    /\ phase = "sleep" /\ group = 1 /\ key = Null /\ cur = <<>>
    /\ prev = Zero /\ fed = Zero /\ landed = Zero /\ out = Zero /\ lines = Zero
    /\ strays = {} /\ quiet = TRUE

-----------------------------------------------------------------------------
(* Probes *)

\* The contexts that matter to the probes of owner o.
ContextsOf(o) == IF PairOf(o).key = "context" THEN Contexts ELSE {Null}

\* The operations of all owners so far.
Started == FoldFunction(+, 0, calls)

\* Owner o enters a traced function.
Start(o, c) ==
    /\ Idle(o)
    /\ c \in ContextsOf(o)
    /\ calls[o] < MaxCalls(tool, o) /\ Started < MaxStarted(tool)
    /\ open[o] < MaxDepth
    /\ calls' = [calls EXCEPT ![o] = @ + 1]
    /\ open' = [open EXCEPT ![o] = IF PairOf(o).finish = <<>> THEN @ ELSE @ + 1]
    /\ todo' = [todo EXCEPT ![o] = PairOf(o).start]
    /\ ctx' = [ctx EXCEPT ![o] = c]
    /\ quiet' = FALSE
    /\ UNCHANGED <<tool, pairOf, mapVars, stage, ptr, readerVars, from,
                   strays, fed, landed>>

\* Owner o leaves it.
End(o, c) ==
    /\ Idle(o)
    /\ open[o] > 0
    /\ c \in ContextsOf(o)
    /\ open' = [open EXCEPT ![o] = @ - 1]
    /\ todo' = [todo EXCEPT ![o] = PairOf(o).finish]
    /\ ctx' = [ctx EXCEPT ![o] = c]
    /\ quiet' = FALSE
    /\ UNCHANGED <<tool, pairOf, mapVars, calls, stage, ptr, readerVars,
                   from, strays, fed, landed>>

\* The owners whose stamps have a key of their own.
StampOwners == {o \in Owners : PairOf(o).key = "owner"}

\* Owner o leaves it and the probe does not run.
MissEnd(o) ==
    /\ Idle(o)
    /\ open[o] > 0
    /\ open' = [open EXCEPT ![o] = @ - 1]
    /\ strays' = strays \cup ({o} \cap StampOwners)
    /\ UNCHANGED <<tool, pairOf, mapVars, calls, todo, stage, ctx, ptr,
                   readerVars, from, fed, landed, quiet>>

Step(o) == todo' = [todo EXCEPT ![o] = Tail(@)]
Return(o) == todo' = [todo EXCEPT ![o] = <<>>]

\* Faulty variant of PutStamp: BPF_NOEXIST keeps an older stamp.
PutStampOnce(o) ==
    /\ ~Idle(o) /\ Op(o).do = "stamp"
    /\ LET s == Stamps(o)  k == StampKey(o)
       IN  stamp' = IF stamp[s][k] = NoStamp
                    THEN [stamp EXCEPT ![s][k] = <<o, calls[o]>>] ELSE stamp
    /\ Step(o)
    /\ UNCHANGED <<tool, pairOf, acc, calls, open, stage, ctx, ptr,
                   readerVars, from, strays, fed, landed, quiet>>

\* bpf_map_update_elem(now, BPF_ANY): replaces a stamp, fails on a full map.
PutStamp(o) ==
    /\ ~Idle(o) /\ Op(o).do = "stamp"
    /\ LET s == Stamps(o)
           k == StampKey(o)
           full == Cardinality({x \in DOMAIN stamp[s] : stamp[s][x] # NoStamp})
                       >= MaxStamps(tool)
       IN  stamp' = IF stamp[s][k] = NoStamp /\ full THEN stamp
                    ELSE [stamp EXCEPT ![s][k] = <<o, calls[o]>>]
    /\ Step(o)
    /\ UNCHANGED <<tool, pairOf, acc, calls, open, stage, ctx, ptr,
                   readerVars, from, strays, fed, landed, quiet>>

\* bpf_map_lookup_elem of the stamp and the subtraction; without one, return.
Match(o) ==
    /\ ~Idle(o) /\ Op(o).do = "match"
    /\ LET s == stamp[Stamps(o)][StampKey(o)]
       IN  /\ from' = [from EXCEPT ![o] = s]
           /\ \/ /\ s = NoStamp
                 /\ Return(o)
              \/ /\ s # NoStamp
                 /\ Step(o)
    /\ UNCHANGED <<tool, pairOf, mapVars, calls, open, stage, ctx, ptr,
                   readerVars, strays, fed, landed, quiet>>

\* Faulty variant of Sane: a delay above 10 s skips the next operation only.
SaneOnce(o) ==
    /\ ~Idle(o) /\ Op(o).do = "sane"
    /\ \/ Step(o)
       \/ todo' = [todo EXCEPT ![o] = Tail(Tail(@))]
    /\ UNCHANGED <<tool, pairOf, mapVars, calls, open, stage, ctx, ptr,
                   readerVars, from, strays, fed, landed, quiet>>

\* disk_io_sched drops a delay above 10 s, and its stamp.
Sane(o) ==
    /\ ~Idle(o) /\ Op(o).do = "sane"
    /\ \/ Step(o)
       \/ todo' = [todo EXCEPT ![o] = <<@[Len(@)]>>]
    /\ UNCHANGED <<tool, pairOf, mapVars, calls, open, stage, ctx, ptr,
                   readerVars, from, strays, fed, landed, quiet>>

Feed(m, k) == fed' = [fed EXCEPT ![m][k] = @ + 1]
AddTo(m, k) == acc' = [acc EXCEPT ![m][k].sum = @ + 1]

\* __sync_fetch_and_add to the cell of an array, which is always there.
AddCell(o) ==
    /\ ~Idle(o) /\ Op(o).do = "add" /\ Op(o).create = "array"
    /\ AddTo(Op(o).map, Cell)
    /\ Feed(Op(o).map, Cell)
    /\ Step(o)
    /\ UNCHANGED <<tool, pairOf, stamp, calls, open, stage, ctx, ptr, from,
                   readerVars, strays, landed, quiet>>

\* bpf_map_lookup_elem of an accumulator in a hash map.
LookUp(o) ==
    /\ ~Idle(o) /\ Op(o).do = "add" /\ Op(o).create = "ANY" /\ stage[o] = "look"
    /\ LET a == acc[Op(o).map][AccKey(o)]
       IN  \/ /\ a = NoElement
              /\ stage' = [stage EXCEPT ![o] = "insert"]
              /\ UNCHANGED ptr
           \/ /\ a # NoElement
              /\ stage' = [stage EXCEPT ![o] = "add"]
              /\ ptr' = [ptr EXCEPT ![o] = a.at]
    /\ UNCHANGED <<tool, pairOf, mapVars, calls, open, todo, ctx, readerVars,
                   from, strays, fed, landed, quiet>>

\* The cells of a hash map are one map of the kernel's.
Table(m) == IF m \in HashCells THEN HashCells ELSE {m}

\* The places that an element replaced since o looked it up may be used for by now.
Reused(o) ==
    LET m == Op(o).map  k == AccKey(o)
    IN  {x \in Table(m) \X Keys :
            acc[x[1]][x[2]].at > (IF x = <<m, k>> THEN ptr[o] + 1 ELSE 1)}

\* __sync_fetch_and_add through the pointer.  If the element was replaced, it is
\* lost or lands where the element is used now.
Add(o) ==
    /\ ~Idle(o) /\ stage[o] = "add"
    /\ LET m == Op(o).map  k == AccKey(o)
       IN  /\ \/ /\ acc[m][k].at = ptr[o]
                 /\ AddTo(m, k)
                 /\ UNCHANGED landed
              \/ /\ acc[m][k].at # ptr[o]
                 /\ UNCHANGED <<acc, landed>>
              \/ /\ acc[m][k].at # ptr[o]
                 /\ \E x \in Reused(o) :
                       /\ AddTo(x[1], x[2])
                       /\ landed' = IF x = <<m, k>> THEN landed
                                    ELSE [landed EXCEPT ![x[1]][x[2]] = @ + 1]
           /\ Feed(m, k)
    /\ stage' = [stage EXCEPT ![o] = "look"]
    /\ ptr' = [ptr EXCEPT ![o] = 0]
    /\ Step(o)
    /\ UNCHANGED <<tool, pairOf, stamp, calls, open, ctx, readerVars, from,
                   strays, quiet>>

\* bpf_map_update_elem(delta, BPF_ANY): replaces what another handler created, and
\* fails on a full map.
Insert(o) ==
    /\ ~Idle(o) /\ stage[o] = "insert"
    /\ LET m == Op(o).map
           k == AccKey(o)
           full == Cardinality({x \in Keys : Present(m, x)}) >= MaxElements(tool)
       IN  \/ /\ Present(m, k) \/ ~full
              /\ acc' = [acc EXCEPT ![m][k] = [at |-> @.at + 1, sum |-> 1]]
              /\ Feed(m, k)
           \/ /\ ~Present(m, k) /\ full
              /\ UNCHANGED <<acc, fed>>
    /\ stage' = [stage EXCEPT ![o] = "look"]
    /\ Step(o)
    /\ UNCHANGED <<tool, pairOf, stamp, calls, open, ctx, ptr, readerVars,
                   from, strays, landed, quiet>>

\* Faulty variant of Unstamp: the stamp stays.
UnstampNot(o) ==
    /\ ~Idle(o) /\ Op(o).do = "unstamp"
    /\ from' = [from EXCEPT ![o] = NoStamp]
    /\ Step(o)
    /\ UNCHANGED <<tool, pairOf, mapVars, calls, open, stage, ctx, ptr, readerVars,
                   strays, fed, landed, quiet>>

\* bpf_map_delete_elem of the stamp, whichever is there by now.
Unstamp(o) ==
    /\ ~Idle(o) /\ Op(o).do = "unstamp"
    /\ stamp' = [stamp EXCEPT ![Stamps(o)][StampKey(o)] = NoStamp]
    /\ from' = [from EXCEPT ![o] = NoStamp]
    /\ Step(o)
    /\ UNCHANGED <<tool, pairOf, acc, calls, open, stage, ctx, ptr, readerVars,
                   strays, fed, landed, quiet>>

-----------------------------------------------------------------------------
(* The loop *)

Current == tool.loop[group]

\* Faulty variant of NextKey: an `if' where the walk needs a `while'.
NextKeyOnce ==
    LET here == {i \in DOMAIN KeyOrder : Present(Current.maps[1], KeyOrder[i])}
    IN  IF key # Null \/ (~Current.cells /\ here = {}) THEN Null
        ELSE IF Current.cells THEN Cell
        ELSE KeyOrder[CHOOSE i \in here : \A j \in here : i <= j]

\* The next key of the walk, or the one key of a group of cells.
NextKey ==
    LET first == IF key = Null THEN 1
                 ELSE 1 + CHOOSE i \in DOMAIN KeyOrder : KeyOrder[i] = key
        here == {i \in first..Len(KeyOrder) : Present(Current.maps[1], KeyOrder[i])}
    IN  IF Current.cells THEN IF key = Null THEN Cell ELSE Null
        ELSE IF here = {} THEN Null
        ELSE KeyOrder[CHOOSE i \in here : \A j \in here : i <= j]

\* sleep() returns.
WakeUp ==
    /\ phase = "sleep"
    /\ phase' = "walk" /\ group' = 1 /\ key' = Null
    /\ quiet' = \A o \in Owners : Idle(o)
    /\ UNCHANGED <<tool, pairOf, mapVars, handlerVars, cur, prev, out, lines,
                   strays, fed, landed>>

\* bpf_map_get_next_key, or on to the next group of the loop body.
Walk ==
    /\ phase = "walk"
    /\ \/ /\ NextKey # Null
          /\ phase' = "read" /\ key' = NextKey /\ cur' = <<>>
          /\ UNCHANGED group
       \/ /\ NextKey = Null /\ group < Len(tool.loop)
          /\ group' = group + 1 /\ key' = Null
          /\ UNCHANGED <<phase, cur>>
       \/ /\ NextKey = Null /\ group = Len(tool.loop)
          /\ phase' = "sleep" /\ group' = 1 /\ key' = Null
          /\ UNCHANGED cur
    /\ UNCHANGED <<tool, pairOf, mapVars, handlerVars, prev, out, lines,
                   strays, fed, landed, quiet>>

\* Faulty variants of Diff: signed, never guarded, silent on the first pass.
DiffSigned(now, last) == now - last
DiffUnguarded(now, last) == (now - last) % Word
DiffNotFirst(now, last) == IF last = 0 \/ now <= last THEN 0 ELSE now - last

\* The difference the loop prints.
Diff(now, last) ==
    IF Current.guarded /\ now <= last THEN 0 ELSE (now - last) % Word

\* The group remembers what it reads under the key; a PID beyond its array has no
\* snapshot, and may be left out altogether.
Remembers == Current.keep /\ key \notin BigKeys
LeftOut == key \in BigKeys /\ Current.beyond = "skip"

\* The difference that the i-th of the values vals makes.
DiffOf(vals, i) == Diff(vals[i], IF Remembers THEN prev[Current.maps[i]][key] ELSE 0)

\* A group may print nothing unless one of its differences is positive.
Shown(vals) == Current.gate = 0 \/ DiffOf(vals, Current.gate) > 0

\* What was added under key k of map m, the adds that landed there by mistake too.
Added(m, k) == fed[m][k] + landed[m][k]

\* The sum of what is printed for the i-th map, and the lines with a remainder.  (A
\* sum is followed until it exceeds what was added.)
SumOf(vals, i) ==
    LET m == Current.maps[i]
        x == out[m][key] + (IF Shown(vals) THEN DiffOf(vals, i) \div Current.unit ELSE 0)
    IN  IF Current.unit * x > Added(m, key) THEN Added(m, key) + 1 ELSE x
LineOf(vals, i) ==
    lines[Current.maps[i]][key]
        + (IF DiffOf(vals, i) > 0 /\ Current.unit > 1 THEN 1 ELSE 0)

\* f with new values under the key for the maps of the group.
Put(f, new) ==
    [m \in DOMAIN f |-> IF m \in Range(Current.maps)
        THEN [f[m] EXCEPT ![key] =
                new[CHOOSE i \in DOMAIN Current.maps : Current.maps[i] = m]]
        ELSE f[m]]

\* Print the values vals of the maps of the group under the key, and remember them.
PrintGroup(vals) ==
    /\ out' = IF LeftOut THEN out
              ELSE Put(out, [i \in DOMAIN Current.maps |-> SumOf(vals, i)])
    /\ prev' = IF Remembers THEN Put(prev, vals) ELSE prev
    /\ lines' = IF Remembers
                THEN Put(lines, [i \in DOMAIN Current.maps |-> LineOf(vals, i)]) ELSE lines

\* bpf_map__lookup_elem of the next map of the group; 0 when there is no element.
Read ==
    /\ phase = "read"
    /\ LET m    == Current.maps[Len(cur) + 1]
           vals == Append(cur, IF Present(m, key) THEN acc[m][key].sum ELSE 0)
       IN  \/ /\ Len(vals) < Len(Current.maps)
              /\ cur' = vals
              /\ UNCHANGED <<phase, prev, out, lines>>
           \/ /\ Len(vals) = Len(Current.maps)
              /\ PrintGroup(vals)
              /\ phase' = "walk" /\ cur' = <<>>
    /\ UNCHANGED <<tool, pairOf, mapVars, handlerVars, group, key, strays,
                   fed, landed, quiet>>

-----------------------------------------------------------------------------
ProbeStep(o) ==
    \/ PutStamp(o) \/ Match(o) \/ Sane(o) \/ AddCell(o) \/ LookUp(o) \/ Add(o) \/ Insert(o)
    \/ Unstamp(o)

Next ==
    \/ \E o \in Owners :
         \/ \E c \in Contexts \cup {Null} : Start(o, c) \/ End(o, c)
         \/ MissEnd(o)
         \/ ProbeStep(o)
    \/ WakeUp \/ Walk \/ Read

Spec == Init /\ [][Next]_vars

-----------------------------------------------------------------------------
(* Properties *)

Starts == Owners \X Nat

\* The state has its type.
TypeOK ==
    /\ stamp \in [StampMaps -> [Keys \cup Contexts -> Starts \cup {NoStamp}]]
    /\ acc \in [Maps -> [Keys -> [at : Nat, sum : Nat]]]
    /\ calls \in [Owners -> Nat]
    /\ open \in [Owners -> 0..MaxDepth]
    /\ stage \in [Owners -> {"look", "add", "insert"}]
    /\ ctx \in [Owners -> Contexts \cup {Null}]
    /\ phase \in {"sleep", "walk", "read"}
    /\ key \in Keys \cup {Null} /\ (phase = "read" => key \in Keys)
    /\ {prev, fed, landed, out, lines} \subseteq [Maps -> [Keys -> Nat]]
    /\ from \in [Owners -> Starts \cup {NoStamp}]

\* Where the key of the stamp map identifies the owner, every delay is measured
\* from the latest start of the owner that ends an operation: not from another
\* thread's, another request's or an earlier start, whatever ends were missed.
OwnDelay ==
    \A o \in StampOwners : from[o] \in {NoStamp, <<o, calls[o]>>}

\* An owner outside any operation has no stamp left, unless a probe was missed:
\* the stamp maps do not fill up.
StampsReleased ==
    \A o \in StampOwners :
        Idle(o) /\ open[o] = 0 /\ o \notin strays => stamp[Stamps(o)][o] = NoStamp

\* The printed differences never add up to more than what the handlers added, in
\* spite of accumulators that a racing creation sets back, of guarded and of
\* unguarded subtractions.  What landed in the wrong cell is printed with that cell
\* (a delay as a number of delays, even), but not twice.
NoOvercount ==
    \A g \in Kept : \A m \in Range(g.maps), k \in Keys \ BigKeys :
        g.unit * out[m][k] <= Added(m, k)

\* A loop without a gate loses nothing but the remainders of its integer
\* divisions, one for each line.
OnlyRemaindersLost ==
    \A g \in Kept : g.gate = 0 =>
        \A m \in Range(g.maps), k \in Keys :
            prev[m][k] - g.unit * out[m][k] <= (g.unit - 1) * lines[m][k]

\* The keys that a pass over group g meets.
Visited(g, k) == IF g.cells THEN k = Cell ELSE Present(g.maps[1], k)

\* A pass during which no probe ran has read every accumulator of the keys it is
\* meant to meet: those of the map it walks by, which others of the group may lack.
CaughtUp ==
    phase = "sleep" /\ quiet =>
        \A g \in Kept : \A m \in Range(g.maps), k \in Keys \ BigKeys :
            Visited(g, k) => prev[m][k] = acc[m][k].sum

\* With no probe in progress, a total of delays and the number of delays beside it
\* stand for the same operations, where both are array cells.
TotalsMatchCounts ==
    (\A o \in Owners : Idle(o)) =>
        \A x \in tool.averages : acc[x[1]][Cell].sum = acc[x[2]][Cell].sum

\* A delay is measured between the start and the end of one operation, which is
\* what my_tools/README.md says of disk_io_sched (issue to complete).
MeasuresOneOperation ==
    \A o \in Owners : from[o][1] \in {Null, o}

=============================================================================
