----------------------------- MODULE DeltaProofs -----------------------------
(***************************************************************************)
(* Theorems about BpfDelta, for any tools of the shape ToolsAssumption     *)
(* describes, any owners, processes, contexts and keys, any sizes of the   *)
(* stamp maps, and operations that nest and overlap in any way.            *)
(***************************************************************************)
EXTENDS BpfDelta, TLAPS, FiniteSetTheorems, SequenceTheorems, WellFoundedInduction

-----------------------------------------------------------------------------
(* The inductive invariant *)

\* The probe of o that is in progress is about to store a time stamp,
Starting(o) == Len(todo[o]) = 1 /\ todo[o][1].do = "stamp"

\* only adds,
Adding(o) == Len(todo[o]) > 0 /\ \A i \in 1..Len(todo[o]) : todo[o][i].do = "add"

\* or deletes a stamp in the end, which it looks up before anything else.
Ending(o) ==
    /\ Len(todo[o]) > 0
    /\ \A i \in 1..Len(todo[o]) :
          /\ todo[o][i].do # "stamp"
          /\ todo[o][i].do = "unstamp" <=> i = Len(todo[o])
          /\ todo[o][i].do = "match" => i = 1

\* The maps and the probes have their types.
MapType ==
    /\ tool \in Tools
    /\ pairOf \in [Owners -> DOMAIN tool.pairs]
    /\ stamp \in [StampMaps -> [Keys \cup Contexts -> Starts \cup {NoStamp}]]
    /\ acc \in [Maps -> [Keys -> [at : Nat, sum : Nat]]]
    /\ fed \in [Maps -> [Keys -> Nat]]
    /\ landed \in [Maps -> [Keys -> Nat]]

ProbeType ==
    /\ calls \in [Owners -> Nat]
    /\ open \in [Owners -> 0..MaxDepth]
    /\ todo \in [Owners -> Seq(Ops)]
    /\ stage \in [Owners -> {"look", "add", "insert"}]
    /\ ctx \in [Owners -> Contexts \cup {Null}]
    /\ ptr \in [Owners -> Nat]
    /\ from \in [Owners -> Starts \cup {NoStamp}]

\* The loop is at a group, with a key of its kind and the values read so far.
LoopType ==
    /\ phase \in {"sleep", "walk", "read"}
    /\ group \in 1..Len(tool.loop)
    /\ key \in Keys \cup {Null}
    /\ phase = "sleep" => key = Null
    /\ key # Null => (Current.cells <=> key = Cell)
    /\ cur \in Seq(Nat)
    /\ phase = "read" => key # Null /\ Len(cur) < Len(Current.maps)
    /\ phase # "read" => cur = <<>>
    /\ prev \in [Maps -> [Keys -> Nat]]
    /\ out \in [Maps -> [Keys -> Nat]]
    /\ lines \in [Maps -> [Keys -> Nat]]

\* A probe is of the kind its pair has.  Its locals are set only while the
\* operation that uses them is under way.
ProbeOk(o) ==
    /\ ~Idle(o) => IF PairOf(o).finish = <<>> THEN Adding(o)
                   ELSE Starting(o) \/ Ending(o)
    /\ open[o] > 0 => PairOf(o).finish # <<>>
    /\ Starting(o) => open[o] > 0
    /\ ~Idle(o) /\ PairOf(o).key = "context" => ctx[o] \in Contexts
    /\ stage[o] # "look" => ~Idle(o) /\ Op(o).do = "add" /\ Op(o).create = "ANY"
    /\ stage[o] = "add" => ptr[o] > 0
    /\ from[o] # NoStamp => Ending(o) /\ Op(o).do # "match"

ProbeInv == \A o \in Owners : ProbeOk(o)

\* The stamp under an owner's own key is of its latest start, and is left behind
\* only by a missed probe.
StampOk(o, s) ==
    /\ stamp[s][o] \in {NoStamp, <<o, calls[o]>>} \/ Starting(o)
    /\ from[o] \in {NoStamp, <<o, calls[o]>>}
    /\ stamp[s][o] # NoStamp => o \in strays \/ open[o] > 0 \/ Ending(o)
    /\ PairOf(o).finish = <<>> => stamp[s][o] = NoStamp

StampInv ==
    \A o \in StampOwners : \A s \in StampMaps : s = Stamps(o) => StampOk(o, s)

\* There is nothing in an element that is not there, and elements are only under
\* the keys that are added to.
ElementInv ==
    /\ \A m \in Maps, k \in Keys : acc[m][k].at = 0 => acc[m][k].sum = 0
    /\ \A m \in Arrays : acc[m][Cell].at > 0
    /\ \A a \in Accs, k \in Keys : Present(a.map, k) => (a.key = "cell" <=> k = Cell)

\* The value of map m, the n-th of group p, under key k that the loop has read and
\* not yet printed, or the one it remembers.
Reading(p, n, k) == phase = "read" /\ p = group /\ k = key /\ n <= Len(cur)
Seen(p, n, k, m) == IF Reading(p, n, k) THEN cur[n] ELSE prev[m][k]

Excess(a, b) == IF a > b THEN a - b ELSE 0

\* What was printed, what has been read and is not printed, and what is not read
\* yet are together no more than what was added.
Balanced(done, last, seen, sum, total) ==
    done + Excess(seen, last) + Excess(sum, seen) <= total

CountOk(p, n, k, m) ==
    /\ Balanced(tool.loop[p].unit * out[m][k], prev[m][k], Seen(p, n, k, m),
                acc[m][k].sum, Added(m, k))
    /\ ~tool.loop[p].guarded => /\ prev[m][k] <= Seen(p, n, k, m)
                                /\ Seen(p, n, k, m) <= acc[m][k].sum

\* The places of a pass: group p, with a snapshot, and its n-th map m at key k.
Place(p, n, k, m) ==
    /\ p \in DOMAIN tool.loop /\ tool.loop[p].keep
    /\ n \in DOMAIN tool.loop[p].maps /\ m = tool.loop[p].maps[n]
    /\ k \notin BigKeys

CountInv ==
    \A p \in DOMAIN tool.loop : \A n \in DOMAIN tool.loop[p].maps, k \in Keys, m \in Maps :
        Place(p, n, k, m) => CountOk(p, n, k, m)

\* A loop without a gate loses nothing but remainders, as long as the counters do
\* not overflow.
NoOverflow == \A m \in Maps, k \in Keys : acc[m][k].sum < Word

RemainderInv ==
    /\ \A i \in 1..Len(cur) : cur[i] < Word
    /\ \A p \in DOMAIN tool.loop : \A n \in DOMAIN tool.loop[p].maps, k \in Keys, m \in Maps :
          Place(p, n, k, m) /\ tool.loop[p].gate = 0 =>
            prev[m][k] - tool.loop[p].unit * out[m][k] <= (tool.loop[p].unit - 1) * lines[m][k]
    /\ \A m \in Maps, k \in BigKeys : prev[m][k] = 0

\* A total is ahead of its count by the probes that are between the two.
Between(x) == {o \in Owners : ~Idle(o) /\ Adds(Op(o), x[2])}

TotalOrder(o, x) ==
    \A i \in 1..Len(todo[o]) :
        /\ Adds(todo[o][i], x[1]) => i < Len(todo[o]) /\ Adds(todo[o][i + 1], x[2])
        /\ Adds(todo[o][i], x[2]) /\ i > 1 => Adds(todo[o][i - 1], x[1])

TotalInv ==
    \A x \in tool.averages :
        /\ \A o \in Owners : TotalOrder(o, x)
        /\ acc[x[1]][Cell].sum = acc[x[2]][Cell].sum + Cardinality(Between(x))

Pos(k) == CHOOSE i \in DOMAIN KeyOrder : KeyOrder[i] = k

\* The loop is past key k of group p.
Past(p, k) ==
    \/ phase = "sleep" \/ p < group
    \/ /\ p = group /\ key # Null
       /\ \/ key = k /\ phase = "walk"
          \/ key # Cell /\ k # Cell /\ Pos(k) < Pos(key)

\* In a pass without a probe, the loop has seen what it is past.
CaughtOk(p, n, k, m) ==
    Visited(tool.loop[p], k) /\ (Past(p, k) \/ Reading(p, n, k)) =>
        Seen(p, n, k, m) = acc[m][k].sum

CaughtInv == quiet =>
    /\ \A o \in Owners : Idle(o)
    /\ \A p \in DOMAIN tool.loop : \A n \in DOMAIN tool.loop[p].maps, k \in Keys, m \in Maps :
          Place(p, n, k, m) => CaughtOk(p, n, k, m)

CoreInv == MapType /\ ProbeType /\ LoopType /\ ProbeInv /\ StampInv /\ ElementInv

DeltaInv == CoreInv /\ CountInv /\ TotalInv /\ CaughtInv

-----------------------------------------------------------------------------
(* Facts about the constants and the description of a tool *)

\* The programs of a tool are over its operations, of a known shape, and a map is
\* added to in one way.
LEMMA ToolFacts ==
  ASSUME tool \in Tools
  PROVE  /\ \A p \in Range(tool.pairs) :
               /\ p \in PairType /\ p.start \in Seq(Ops) /\ p.finish \in Seq(Ops)
               /\ ProbesFormed(p) /\ InOrder(p.start, tool) /\ InOrder(p.finish, tool)
         /\ \A p, q \in Range(tool.pairs) : p.stamps = q.stamps => p.key = q.key
         /\ \A a \in Accs : /\ a.map \in Maps /\ a.key \in {"cell", "owner", "process"}
                            /\ a.create \in {"array", "ANY"}
                            /\ a.create = "array" => a.key = "cell"
         /\ \A a, b \in Accs : a.map = b.map => a = b
         /\ \A g \in Range(tool.loop) : GroupFormed(g, Accs)
         /\ \A x \in tool.averages : \A n \in {1, 2} : \E a \in Accs :
               a.map = x[n] /\ a.create = "array"
<1> DEFINE programs == {p.start : p \in Range(tool.pairs)} \cup
                       {p.finish : p \in Range(tool.pairs)}
           adds == {op \in UNION {Range(h) : h \in programs} : op.do = "add"}
<1>1. WellFormed(tool)
  BY ToolsAssumption
<1>2. UNION {Range(h) : h \in programs} = Ops
  BY DEF Ops
<1>3. adds = Accs
  BY <1>2 DEF Accs
<1>4. /\ \A p \in Range(tool.pairs) : ProbesFormed(p)
      /\ \A p, q \in Range(tool.pairs) : p.stamps = q.stamps => p.key = q.key
      /\ \A h \in programs : InOrder(h, tool)
      /\ \A a, b \in adds : a.map = b.map => a = b
      /\ \A a \in adds : a.create = "array" => a.key = "cell"
      /\ \A g \in Range(tool.loop) : GroupFormed(g, adds)
      /\ \A x \in tool.averages : \A n \in {1, 2} : \E a \in adds :
            a.map = x[n] /\ a.create = "array"
  BY <1>1 DEF WellFormed
<1>5. tool.pairs \in Seq(PairType)
  BY <1>1 DEF WellFormed
<1>6. ASSUME NEW p \in Range(tool.pairs)
      PROVE  p \in PairType /\ p.start \in Seq(Ops) /\ p.finish \in Seq(Ops)
  <2>1. p \in PairType
    BY <1>5, RangeOfSeq DEF Range
  <2>2. ASSUME NEW h \in {p.start, p.finish} PROVE h \in Seq(Ops)
    <3>1. h \in Seq(OpType)
      BY <2>1 DEF PairType
    <3>2. DOMAIN h = 1..Len(h) /\ Len(h) \in Nat
      BY <3>1, LenProperties
    <3>3. Range(p.start) \cup Range(p.finish) \subseteq Ops
      BY DEF Ops
    <3>4. \A i \in 1..Len(h) : h[i] \in Ops
      <4>1. \A i \in 1..Len(h) : h[i] \in Range(h)
        BY <3>2 DEF Range
      <4>2. QED
        BY <3>3, <4>1
    <3>5. QED
      BY <3>1, <3>2, <3>4
  <2>3. QED
    BY <2>1, <2>2
<1>7. ASSUME NEW a \in Accs
      PROVE  a.map \in Maps /\ a.key \in {"cell", "owner", "process"}
             /\ a.create \in {"array", "ANY"}
  <2>1. PICK p \in Range(tool.pairs) : a \in Range(p.start) \cup Range(p.finish)
    BY DEF Accs, Ops
  <2>2. p.start \in Seq(OpType) /\ p.finish \in Seq(OpType)
    BY <1>6 DEF PairType
  <2>3. a \in OpType
    <3>1. \A h \in Seq(OpType) : Range(h) \subseteq OpType
      BY RangeOfSeq
    <3>2. QED
      BY <2>1, <2>2, <3>1
  <2>4. a.do = "add"
    BY DEF Accs
  <2>5. QED
    BY <2>3, <2>4 DEF OpType, Maps
<1> HIDE DEF adds
<1>8. \A p \in Range(tool.pairs) : InOrder(p.start, tool) /\ InOrder(p.finish, tool)
  BY <1>4
<1> HIDE DEF programs
<1>9. QED
  BY <1>3, <1>4, <1>6, <1>7, <1>8

\* The groups of the loop read maps of their own.
LEMMA LoopFacts ==
  ASSUME tool \in Tools
  PROVE  /\ Len(tool.loop) \in Nat \ {0} /\ DOMAIN tool.loop = 1..Len(tool.loop)
         /\ Range(tool.loop) = {tool.loop[p] : p \in DOMAIN tool.loop}
         /\ \A p \in DOMAIN tool.loop :
               /\ tool.loop[p] \in GroupType
               /\ Len(tool.loop[p].maps) \in Nat \ {0}
               /\ DOMAIN tool.loop[p].maps = 1..Len(tool.loop[p].maps)
               /\ tool.loop[p].gate \in 0..Len(tool.loop[p].maps)
               /\ \A n \in DOMAIN tool.loop[p].maps : \E a \in Accs :
                     /\ a.map = tool.loop[p].maps[n] /\ a.map \in Maps
                     /\ tool.loop[p].cells <=> a.key = "cell"
                     /\ ~tool.loop[p].guarded => a.create = "array"
         /\ \A p, q \in DOMAIN tool.loop :
               \A i \in DOMAIN tool.loop[p].maps, j \in DOMAIN tool.loop[q].maps :
                  tool.loop[p].maps[i] = tool.loop[q].maps[j] => p = q /\ i = j
<1>1. WellFormed(tool)
  BY ToolsAssumption
<1>2. tool.loop \in Seq(GroupType) /\ tool.loop # <<>>
  BY <1>1 DEF WellFormed
<1>3. /\ Len(tool.loop) \in Nat \ {0} /\ DOMAIN tool.loop = 1..Len(tool.loop)
      /\ Range(tool.loop) = {tool.loop[p] : p \in DOMAIN tool.loop}
  BY <1>2, LenProperties, EmptySeq DEF Range
<1>4. ASSUME NEW p \in DOMAIN tool.loop
      PROVE  /\ tool.loop[p] \in GroupType
             /\ Len(tool.loop[p].maps) \in Nat \ {0}
             /\ DOMAIN tool.loop[p].maps = 1..Len(tool.loop[p].maps)
             /\ tool.loop[p].gate \in 0..Len(tool.loop[p].maps)
             /\ \A n \in DOMAIN tool.loop[p].maps : \E a \in Accs :
                   /\ a.map = tool.loop[p].maps[n] /\ a.map \in Maps
                   /\ tool.loop[p].cells <=> a.key = "cell"
                   /\ ~tool.loop[p].guarded => a.create = "array"
  <2>1. tool.loop[p] \in GroupType
    BY <1>2, <1>3, ElementOfSeq
  <2>2. GroupFormed(tool.loop[p], Accs)
    BY <1>3, ToolFacts
  <2>3. tool.loop[p].maps \in Seq(STRING) /\ tool.loop[p].gate \in Nat
        /\ tool.loop[p].maps # <<>>
    BY <2>1, <2>2 DEF GroupType, GroupFormed
  <2>4. /\ Len(tool.loop[p].maps) \in Nat \ {0}
        /\ DOMAIN tool.loop[p].maps = 1..Len(tool.loop[p].maps)
    BY <2>3, LenProperties, EmptySeq
  <2>5. tool.loop[p].gate \in 0..Len(tool.loop[p].maps)
    BY <2>2, <2>3, <2>4 DEF GroupFormed
  <2>6. \A n \in DOMAIN tool.loop[p].maps : \E a \in Accs :
            /\ a.map = tool.loop[p].maps[n] /\ a.map \in Maps
            /\ tool.loop[p].cells <=> a.key = "cell"
            /\ ~tool.loop[p].guarded => a.create = "array"
    BY <2>2, ToolFacts DEF GroupFormed
  <2>7. QED
    BY <2>1, <2>4, <2>5, <2>6
<1>5. \A p, q \in DOMAIN tool.loop :
         \A i \in DOMAIN tool.loop[p].maps, j \in DOMAIN tool.loop[q].maps :
            tool.loop[p].maps[i] = tool.loop[q].maps[j] => p = q /\ i = j
  BY <1>1 DEF WellFormed
<1>6. QED
  BY <1>3, <1>4, <1>5

\* The pair an owner meets.
LEMMA PairFacts ==
  ASSUME tool \in Tools, pairOf \in [Owners -> DOMAIN tool.pairs], NEW o \in Owners
  PROVE  /\ PairOf(o) \in Range(tool.pairs) /\ Stamps(o) \in StampMaps
         /\ PairOf(o).start \in Seq(Ops) /\ PairOf(o).finish \in Seq(Ops)
         /\ PairOf(o).key \in {"owner", "process", "context"}
         /\ ProbesFormed(PairOf(o))
         /\ InOrder(PairOf(o).start, tool) /\ InOrder(PairOf(o).finish, tool)
<1>1. PairOf(o) \in Range(tool.pairs)
  BY DEF PairOf, Range
<1>2. QED
  BY <1>1, ToolFacts DEF StampMaps, Stamps, PairType

\* The constants.
LEMMA KeyFacts ==
  /\ Cell \in Keys /\ Null \notin Keys /\ Cell \notin Range(KeyOrder)
  /\ Owners \subseteq Keys /\ Cell \notin Owners
  /\ \A o \in Owners : ProcessOf[o] \in Range(KeyOrder)
  /\ Range(KeyOrder) \subseteq Keys /\ BigKeys \subseteq Keys /\ Cell \notin BigKeys
  /\ Cell # Null
BY ConstantsAssumption DEF Keys, Cell, Null

-----------------------------------------------------------------------------
(* The steps of a probe *)

\* The description of the tool never changes.
LEMMA ToolKept ==
  ASSUME [Next]_vars
  PROVE  /\ tool' = tool /\ pairOf' = pairOf
         /\ Ops' = Ops /\ Accs' = Accs /\ Maps' = Maps /\ Arrays' = Arrays
         /\ StampMaps' = StampMaps
         /\ \A o : PairOf(o)' = PairOf(o) /\ Stamps(o)' = Stamps(o)
         /\ StampOwners' = StampOwners
<1>1. tool' = tool /\ pairOf' = pairOf
  BY DEF Next, vars, Start, End, MissEnd, ProbeStep, PutStamp, Match, Sane, AddCell,
     LookUp, Add, Insert, Unstamp, WakeUp, Walk, Read
<1>2. Ops' = Ops
  BY <1>1 DEF Ops
<1>3. Accs' = Accs
  BY <1>2 DEF Accs
<1>4. QED
  BY <1>1, <1>2, <1>3 DEF Maps, Arrays, StampMaps, PairOf, Stamps, StampOwners

\* The operation a probe is at.
LEMMA OpFacts ==
  ASSUME MapType, ProbeType, NEW o \in Owners, ~Idle(o)
  PROVE  /\ Op(o) \in Ops /\ Op(o) = todo[o][1] /\ Len(todo[o]) \in Nat \ {0}
         /\ Op(o).do = "add" => /\ Op(o) \in Accs /\ Op(o).map \in Maps
                                /\ AccKey(o) \in Keys
                                /\ Op(o).key = "cell" <=> AccKey(o) = Cell
                                /\ Op(o).create = "array" => Op(o).map \in Arrays
<1>1. todo[o] \in Seq(Ops) /\ todo[o] # <<>>
  BY DEF ProbeType, Idle
<1>2. Op(o) \in Ops /\ Op(o) = todo[o][1] /\ Len(todo[o]) \in Nat \ {0}
  BY <1>1, HeadTailProperties, EmptySeq DEF Op
<1>3. ASSUME Op(o).do = "add"
      PROVE  /\ Op(o) \in Accs /\ Op(o).map \in Maps
             /\ AccKey(o) \in Keys
             /\ Op(o).key = "cell" <=> AccKey(o) = Cell
             /\ Op(o).create = "array" => Op(o).map \in Arrays
  <2>1. Op(o) \in Accs
    BY <1>2, <1>3 DEF Accs
  <2>2. Op(o).map \in Maps /\ Op(o).key \in {"cell", "owner", "process"}
    BY <2>1, ToolFacts DEF MapType
  <2>3. AccKey(o) = CASE Op(o).key = "cell" -> Cell
                      [] Op(o).key = "owner" -> o
                      [] Op(o).key = "process" -> ProcessOf[o]
                      [] Op(o).key = "context" -> ctx[o]
    BY DEF AccKey, KeyFor
  <2>4. \/ Op(o).key = "cell" /\ AccKey(o) = Cell
        \/ Op(o).key = "owner" /\ AccKey(o) = o
        \/ Op(o).key = "process" /\ AccKey(o) = ProcessOf[o]
    BY <2>2, <2>3
  <2>5. /\ AccKey(o) \in Keys
        /\ Op(o).key = "cell" <=> AccKey(o) = Cell
    BY <2>4, KeyFacts
  <2>6. QED
    BY <2>1, <2>2, <2>5 DEF Arrays
<1>4. QED
  BY <1>2, <1>3

\* The key of a stamp.
LEMMA StampKeyFacts ==
  ASSUME MapType, ProbeType, ProbeInv, NEW o \in Owners, ~Idle(o)
  PROVE  /\ StampKey(o) \in Keys \cup Contexts
         /\ PairOf(o).key = "owner" => StampKey(o) = o
<1>1. PairOf(o).key \in {"owner", "process", "context"}
  BY PairFacts DEF MapType
<1>2. StampKey(o) = CASE PairOf(o).key = "cell" -> Cell
                      [] PairOf(o).key = "owner" -> o
                      [] PairOf(o).key = "process" -> ProcessOf[o]
                      [] PairOf(o).key = "context" -> ctx[o]
  BY DEF StampKey, KeyFor
<1>3. \/ PairOf(o).key = "owner" /\ StampKey(o) = o
      \/ PairOf(o).key = "process" /\ StampKey(o) = ProcessOf[o]
      \/ PairOf(o).key = "context" /\ StampKey(o) = ctx[o]
  BY <1>1, <1>2
<1>4. PairOf(o).key = "context" => ctx[o] \in Contexts
  BY DEF ProbeInv, ProbeOk
<1>5. QED
  BY <1>3, <1>4, KeyFacts

\* How the list of operations of an owner goes on: by one, to its end, or to its
\* last one.
Tailed(o) ==
    /\ Len(todo'[o]) = Len(todo[o]) - 1
    /\ \A i \in 1..Len(todo'[o]) : todo'[o][i] = todo[o][i + 1]
Finished(o) == todo'[o] = <<>>
Skipped(o) == Len(todo'[o]) = 1 /\ todo'[o][1] = todo[o][Len(todo[o])]

LEMMA TodoMoves ==
  ASSUME MapType, ProbeType, NEW o \in Owners, ~Idle(o),
         \/ Step(o) \/ Return(o) \/ todo' = [todo EXCEPT ![o] = <<@[Len(@)]>>]
  PROVE  /\ todo' \in [Owners -> Seq(Ops)]
         /\ \A q \in Owners : q # o => todo'[q] = todo[q]
         /\ Step(o) => Tailed(o)
         /\ Return(o) => Finished(o)
         /\ todo' = [todo EXCEPT ![o] = <<@[Len(@)]>>] => Skipped(o)
<1>1. todo \in [Owners -> Seq(Ops)] /\ todo[o] \in Seq(Ops) /\ todo[o] # <<>>
  BY DEF ProbeType, Idle
<1>2. Len(todo[o]) \in Nat \ {0}
  BY <1>1, EmptySeq, LenProperties
<1>3. CASE Step(o)
  <2>1. Tail(todo[o]) \in Seq(Ops) /\ Len(Tail(todo[o])) = Len(todo[o]) - 1
        /\ \A i \in 1..Len(Tail(todo[o])) : Tail(todo[o])[i] = todo[o][i + 1]
    BY <1>1, HeadTailProperties
  <2>2. todo'[o] = Tail(todo[o]) /\ \A q \in Owners : q # o => todo'[q] = todo[q]
    BY <1>1, <1>3 DEF Step
  <2>3. todo' \in [Owners -> Seq(Ops)]
    BY <1>1, <1>3, <2>1 DEF Step
  <2>4. Tailed(o)
    BY <2>1, <2>2 DEF Tailed
  <2>5. Return(o) => Finished(o)
    BY <1>1 DEF Return, Finished
  <2>6. todo' = [todo EXCEPT ![o] = <<@[Len(@)]>>] => Skipped(o)
    BY <1>1 DEF Skipped
  <2>7. QED
    BY <2>2, <2>3, <2>4, <2>5, <2>6
<1>4. CASE ~Step(o) /\ Return(o)
  <2>1. todo'[o] = <<>> /\ \A q \in Owners : q # o => todo'[q] = todo[q]
    BY <1>1, <1>4 DEF Return
  <2>2. todo' \in [Owners -> Seq(Ops)]
    BY <1>1, <1>4, EmptySeq DEF Return
  <2>3. Finished(o)
    BY <2>1 DEF Finished
  <2>4. todo' = [todo EXCEPT ![o] = <<@[Len(@)]>>] => Skipped(o)
    BY <1>1 DEF Skipped
  <2>5. QED
    BY <1>4, <2>1, <2>2, <2>3, <2>4
<1>5. CASE ~Step(o) /\ ~Return(o)
  <2>1. todo' = [todo EXCEPT ![o] = <<todo[o][Len(todo[o])]>>]
    BY <1>5
  <2>2. todo[o][Len(todo[o])] \in Ops
    BY <1>1, <1>2, ElementOfSeq
  <2>3. todo'[o] = <<todo[o][Len(todo[o])]>> /\ \A q \in Owners : q # o => todo'[q] = todo[q]
    BY <1>1, <2>1
  <2>4. todo' \in [Owners -> Seq(Ops)]
    BY <1>1, <2>1, <2>2
  <2>5. Skipped(o)
    BY <2>3 DEF Skipped
  <2>6. QED
    BY <1>5, <2>3, <2>4, <2>5
<1>6. QED
  BY <1>3, <1>4, <1>5

-----------------------------------------------------------------------------
(* What the steps do to the maps *)

\* One more was added to element k of map m, or landed there.
Fed(m, k) ==
    /\ fed'[m][k] = fed[m][k] + 1
    /\ \A n \in Maps, l \in Keys : n # m \/ l # k => fed'[n][l] = fed[n][l]

Landed(m, k) ==
    /\ landed'[m][k] = landed[m][k] + 1
    /\ \A n \in Maps, l \in Keys : n # m \/ l # k => landed'[n][l] = landed[n][l]

\* The element counts it, or starts again with it.
Raised(m, k) ==
    /\ acc'[m][k].at = acc[m][k].at /\ acc'[m][k].sum = acc[m][k].sum + 1
    /\ \A n \in Maps, l \in Keys : n # m \/ l # k => acc'[n][l] = acc[n][l]

Reset(m, k) ==
    /\ acc'[m][k].at = acc[m][k].at + 1 /\ acc'[m][k].sum = 1
    /\ \A n \in Maps, l \in Keys : n # m \/ l # k => acc'[n][l] = acc[n][l]

LEMMA FeedFeeds ==
  ASSUME fed \in [Maps -> [Keys -> Nat]], NEW m \in Maps, NEW k \in Keys, Feed(m, k)
  PROVE  fed' \in [Maps -> [Keys -> Nat]] /\ Fed(m, k)
<1>1. fed' = [fed EXCEPT ![m] = [fed[m] EXCEPT ![k] = fed[m][k] + 1]]
  BY DEF Feed
<1>2. [fed[m] EXCEPT ![k] = fed[m][k] + 1] \in [Keys -> Nat]
  OBVIOUS
<1>3. fed' \in [Maps -> [Keys -> Nat]]
  BY <1>1, <1>2
<1>4. Fed(m, k)
  BY <1>1 DEF Fed
<1>5. QED
  BY <1>3, <1>4

LEMMA LandLands ==
  ASSUME landed \in [Maps -> [Keys -> Nat]], NEW m \in Maps, NEW k \in Keys,
         landed' = [landed EXCEPT ![m][k] = @ + 1]
  PROVE  landed' \in [Maps -> [Keys -> Nat]] /\ Landed(m, k)
<1>1. landed' = [landed EXCEPT ![m] = [landed[m] EXCEPT ![k] = landed[m][k] + 1]]
  OBVIOUS
<1>2. [landed[m] EXCEPT ![k] = landed[m][k] + 1] \in [Keys -> Nat]
  OBVIOUS
<1>3. landed' \in [Maps -> [Keys -> Nat]]
  BY <1>1, <1>2
<1>4. Landed(m, k)
  BY <1>1 DEF Landed
<1>5. QED
  BY <1>3, <1>4

LEMMA RaiseRaises ==
  ASSUME acc \in [Maps -> [Keys -> [at : Nat, sum : Nat]]], NEW m \in Maps, NEW k \in Keys,
         AddTo(m, k)
  PROVE  acc' \in [Maps -> [Keys -> [at : Nat, sum : Nat]]] /\ Raised(m, k)
<1> DEFINE e == [acc[m][k] EXCEPT !.sum = acc[m][k].sum + 1]
<1>1. acc' = [acc EXCEPT ![m] = [acc[m] EXCEPT ![k] = e]]
  BY DEF AddTo
<1>2. e \in [at : Nat, sum : Nat] /\ e.at = acc[m][k].at /\ e.sum = acc[m][k].sum + 1
  OBVIOUS
<1> HIDE DEF e
<1>3. [acc[m] EXCEPT ![k] = e] \in [Keys -> [at : Nat, sum : Nat]]
  BY <1>2
<1>4. acc' \in [Maps -> [Keys -> [at : Nat, sum : Nat]]]
  BY <1>1, <1>3
<1>5. Raised(m, k)
  BY <1>1, <1>2 DEF Raised
<1>6. QED
  BY <1>4, <1>5

LEMMA ResetResets ==
  ASSUME acc \in [Maps -> [Keys -> [at : Nat, sum : Nat]]], NEW m \in Maps, NEW k \in Keys,
         acc' = [acc EXCEPT ![m][k] = [at |-> @.at + 1, sum |-> 1]]
  PROVE  acc' \in [Maps -> [Keys -> [at : Nat, sum : Nat]]] /\ Reset(m, k)
<1> DEFINE e == [at |-> acc[m][k].at + 1, sum |-> 1]
<1>1. acc' = [acc EXCEPT ![m] = [acc[m] EXCEPT ![k] = e]]
  OBVIOUS
<1>2. e \in [at : Nat, sum : Nat] /\ e.at = acc[m][k].at + 1 /\ e.sum = 1
  OBVIOUS
<1> HIDE DEF e
<1>3. [acc[m] EXCEPT ![k] = e] \in [Keys -> [at : Nat, sum : Nat]]
  BY <1>2
<1>4. acc' \in [Maps -> [Keys -> [at : Nat, sum : Nat]]]
  BY <1>1, <1>3
<1>5. Reset(m, k)
  BY <1>1, <1>2 DEF Reset
<1>6. QED
  BY <1>4, <1>5

\* An add lands at element k of map m, which is there, in a hash map.
Strays(m, k) ==
    /\ Landed(m, k) /\ Raised(m, k) /\ Present(m, k)
    /\ \A a \in Accs : a.map = m => a.create = "ANY"

\* A probe that adds to element k of map m, as operation op.
Effect(op, m, k) ==
    \/ Fed(m, k) /\ landed' = landed /\ Raised(m, k) /\ Present(m, k)
    \/ Fed(m, k) /\ landed' = landed /\ acc' = acc /\ op.create = "ANY"
    \/ Fed(m, k) /\ landed' = landed /\ Reset(m, k) /\ op.create = "ANY"
    \/ Fed(m, k) /\ op.create = "ANY" /\ \E n \in Maps, l \in Keys : Strays(n, l)
    \/ fed' = fed /\ landed' = landed /\ acc' = acc /\ op.create = "ANY"

AddStep(o, m, k) ==
    /\ ~Idle(o) /\ Op(o) \in Accs /\ Op(o).map = m /\ AccKey(o) = k /\ Op(o).do = "add"
    /\ m \in Maps /\ k \in Keys
    /\ Step(o)
    /\ stage'[o] = "look"
    /\ \A q \in Owners : q # o => stage'[q] = stage[q] /\ ptr'[q] = ptr[q]
    /\ stage' \in [Owners -> {"look", "add", "insert"}] /\ ptr' \in [Owners -> Nat]
    /\ UNCHANGED <<stamp, calls, open, ctx, from, readerVars, strays, quiet>>
    /\ Effect(Op(o), m, k)

\* Where an add through a pointer to a replaced element lands.
LEMMA ReusedFacts ==
  ASSUME MapType, ProbeType, NEW o \in Owners, ~Idle(o), Op(o).do = "add",
         Op(o).create = "ANY", NEW x \in Reused(o)
  PROVE  /\ x = <<x[1], x[2]>> /\ x[1] \in Maps /\ x[2] \in Keys /\ Present(x[1], x[2])
         /\ \A a \in Accs : a.map = x[1] => a.create = "ANY"
<1>1. Op(o) \in Accs /\ Op(o).map \in Maps /\ AccKey(o) \in Keys /\ tool \in Tools
  BY OpFacts DEF MapType
<1>2. x \in Table(Op(o).map) \X Keys
  BY DEF Reused
<1>3. x = <<x[1], x[2]>> /\ x[1] \in Table(Op(o).map) /\ x[2] \in Keys
  BY <1>2
<1>4. PICK b \in Accs : b.map = x[1] /\ b.create = "ANY"
  <2>1. CASE Op(o).map \in HashCells
    BY <1>3, <2>1 DEF Table, HashCells
  <2>2. CASE Op(o).map \notin HashCells
    BY <1>1, <1>3, <2>2 DEF Table
  <2>3. QED
    BY <2>1, <2>2
<1>5. x[1] \in Maps /\ \A a \in Accs : a.map = x[1] => a.create = "ANY"
  BY <1>1, <1>4, ToolFacts
<1>6. Present(x[1], x[2])
  <2>1. /\ ptr[o] \in Nat /\ acc[x[1]][x[2]].at \in Nat
    BY <1>3, <1>5 DEF ProbeType, MapType
  <2>2. acc[x[1]][x[2]].at > (IF x = <<Op(o).map, AccKey(o)>> THEN ptr[o] + 1 ELSE 1)
    BY DEF Reused
  <2>3. acc[x[1]][x[2]].at > 0
    <3>1. CASE x = <<Op(o).map, AccKey(o)>>
      BY <2>1, <2>2, <3>1
    <3>2. CASE x # <<Op(o).map, AccKey(o)>>
      BY <2>1, <2>2, <3>2
    <3>3. QED
      BY <3>1, <3>2
  <2>4. QED
    BY <2>3 DEF Present
<1>7. QED
  BY <1>3, <1>5, <1>6

AccsType(f) == f \in [Maps -> [Keys -> [at : Nat, sum : Nat]]]
CountsType(f) == f \in [Maps -> [Keys -> Nat]]

\* What an add through a pointer does.
LEMMA AddEffect ==
  ASSUME MapType, ProbeType, ProbeInv, NEW o \in Owners, Add(o),
         NEW m \in Maps, NEW k \in Keys, m = Op(o).map, k = AccKey(o)
  PROVE  AccsType(acc') /\ CountsType(fed') /\ CountsType(landed') /\ Effect(Op(o), m, k)
<1>1. ~Idle(o) /\ stage[o] = "add" /\ Op(o).do = "add" /\ Op(o).create = "ANY" /\ ptr[o] > 0
  BY DEF Add, ProbeInv, ProbeOk
<1>2. AccsType(acc) /\ CountsType(fed) /\ CountsType(landed)
  BY DEF MapType, AccsType, CountsType
<1>3. Feed(m, k)
  BY DEF Add
<1>4. CountsType(fed') /\ Fed(m, k)
  BY <1>2, <1>3, FeedFeeds DEF CountsType
<1>5. \/ acc[m][k].at = ptr[o] /\ AddTo(m, k) /\ landed' = landed
      \/ acc' = acc /\ landed' = landed
      \/ \E x \in Reused(o) :
            /\ AddTo(x[1], x[2])
            /\ landed' = IF x = <<m, k>> THEN landed
                         ELSE [landed EXCEPT ![x[1]][x[2]] = @ + 1]
  BY DEF Add
<1>6. CASE acc[m][k].at = ptr[o] /\ AddTo(m, k) /\ landed' = landed
  <2>1. AccsType(acc') /\ Raised(m, k)
    BY <1>2, <1>6, RaiseRaises DEF AccsType
  <2>2. Present(m, k)
    BY <1>1, <1>6 DEF Present
  <2>3. QED
    BY <1>2, <1>4, <1>6, <2>1, <2>2 DEF Effect
<1>7. CASE acc' = acc /\ landed' = landed
  BY <1>1, <1>2, <1>4, <1>7 DEF Effect
<1>8. ASSUME NEW x \in Reused(o), AddTo(x[1], x[2]),
             landed' = IF x = <<m, k>> THEN landed
                       ELSE [landed EXCEPT ![x[1]][x[2]] = @ + 1]
      PROVE  AccsType(acc') /\ CountsType(landed') /\ Effect(Op(o), m, k)
  <2>1. /\ x[1] \in Maps /\ x[2] \in Keys /\ Present(x[1], x[2])
        /\ \A a \in Accs : a.map = x[1] => a.create = "ANY"
    BY <1>1, ReusedFacts
  <2>2. AccsType(acc') /\ Raised(x[1], x[2])
    BY <1>2, <1>8, <2>1, RaiseRaises DEF AccsType
  <2>3. CASE x = <<m, k>>
    <3>1. x[1] = m /\ x[2] = k /\ landed' = landed
      BY <1>8, <2>3
    <3>2. QED
      BY <1>2, <1>4, <2>1, <2>2, <3>1 DEF Effect
  <2>4. CASE x # <<m, k>>
    <3>1. landed' = [landed EXCEPT ![x[1]][x[2]] = @ + 1]
      BY <1>8, <2>4
    <3>2. CountsType(landed') /\ Landed(x[1], x[2])
      BY <1>2, <2>1, <3>1, LandLands DEF CountsType
    <3>3. Strays(x[1], x[2])
      BY <2>1, <2>2, <3>2 DEF Strays
    <3>4. QED
      BY <1>1, <1>4, <2>1, <2>2, <3>2, <3>3 DEF Effect
  <2>5. QED
    BY <2>3, <2>4
<1>9. QED
  BY <1>4, <1>5, <1>6, <1>7, <1>8

LEMMA AddSteps ==
  ASSUME MapType, ProbeType, ProbeInv, ElementInv, NEW o \in Owners,
         AddCell(o) \/ Add(o) \/ Insert(o)
  PROVE  /\ AddStep(o, Op(o).map, AccKey(o))
         /\ AccsType(acc') /\ CountsType(fed') /\ CountsType(landed')
<1> DEFINE m == Op(o).map
           k == AccKey(o)
<1>1. /\ ~Idle(o) /\ Op(o).do = "add" /\ Step(o)
      /\ UNCHANGED <<stamp, calls, open, ctx, from, readerVars, strays, quiet>>
  <2>1. CASE AddCell(o)
    BY <2>1 DEF AddCell
  <2>2. CASE Add(o)
    BY <2>2 DEF Add, ProbeInv, ProbeOk
  <2>3. CASE Insert(o)
    BY <2>3 DEF Insert, ProbeInv, ProbeOk
  <2>4. QED
    BY <2>1, <2>2, <2>3
<1>2. /\ Op(o) \in Accs /\ m \in Maps /\ k \in Keys
      /\ Op(o).create = "array" => k = Cell /\ m \in Arrays
  BY <1>1, OpFacts, ToolFacts DEF MapType
<1>3. /\ AccsType(acc) /\ CountsType(fed) /\ CountsType(landed)
      /\ stage \in [Owners -> {"look", "add", "insert"}] /\ ptr \in [Owners -> Nat]
  BY DEF MapType, ProbeType, AccsType, CountsType
<1>4. /\ stage'[o] = "look"
      /\ \A q \in Owners : q # o => stage'[q] = stage[q] /\ ptr'[q] = ptr[q]
      /\ stage' \in [Owners -> {"look", "add", "insert"}] /\ ptr' \in [Owners -> Nat]
  <2>1. CASE AddCell(o)
    <3>1. stage[o] = "look"
      BY <2>1 DEF AddCell, ProbeInv, ProbeOk, ProbeType
    <3>2. stage' = stage /\ ptr' = ptr
      BY <2>1 DEF AddCell
    <3>3. QED
      BY <1>3, <3>1, <3>2
  <2>2. CASE Add(o)
    BY <1>3, <2>2 DEF Add
  <2>3. CASE Insert(o)
    BY <1>3, <2>3 DEF Insert
  <2>4. QED
    BY <2>1, <2>2, <2>3
<1>5. Op(o).map = m /\ AccKey(o) = k
  OBVIOUS
<1> HIDE DEF m, k
<1>6. AccsType(acc') /\ CountsType(fed') /\ CountsType(landed') /\ Effect(Op(o), m, k)
  <2>1. CASE AddCell(o)
    <3>1. /\ AddTo(m, k) /\ Feed(m, k) /\ landed' = landed /\ k = Cell /\ m \in Arrays
      BY <1>2, <2>1 DEF AddCell, m
    <3>2. Present(m, k)
      BY <3>1 DEF ElementInv, Present
    <3>3. AccsType(acc') /\ Raised(m, k)
      BY <1>2, <1>3, <3>1, RaiseRaises DEF AccsType
    <3>4. CountsType(fed') /\ Fed(m, k)
      BY <1>2, <1>3, <3>1, FeedFeeds DEF CountsType
    <3>5. QED
      BY <1>3, <3>1, <3>2, <3>3, <3>4 DEF Effect
  <2>2. CASE Add(o)
    BY <1>2, <1>5, <2>2, AddEffect
  <2>3. CASE Insert(o)
    <3>1. /\ Op(o).create = "ANY" /\ landed' = landed
          /\ \/ /\ acc' = [acc EXCEPT ![m][k] = [at |-> @.at + 1, sum |-> 1]]
                /\ Feed(m, k)
             \/ acc' = acc /\ fed' = fed
      BY <2>3 DEF Insert, ProbeInv, ProbeOk, m, k
    <3>2. CASE acc' = acc /\ fed' = fed
      BY <1>3, <3>1, <3>2 DEF Effect
    <3>3. CASE acc' = [acc EXCEPT ![m][k] = [at |-> @.at + 1, sum |-> 1]] /\ Feed(m, k)
      <4>1. AccsType(acc') /\ Reset(m, k)
        BY <1>2, <1>3, <3>3, ResetResets DEF AccsType
      <4>2. CountsType(fed') /\ Fed(m, k)
        BY <1>2, <1>3, <3>3, FeedFeeds DEF CountsType
      <4>3. QED
        BY <1>3, <3>1, <4>1, <4>2 DEF Effect
    <3>4. QED
      BY <3>1, <3>2, <3>3
  <2>4. QED
    BY <2>1, <2>2, <2>3
<1>7. AddStep(o, m, k)
  BY <1>1, <1>2, <1>4, <1>5, <1>6 DEF AddStep
<1>8. QED
  BY <1>6, <1>7 DEF m, k

\* What that means for one element: it stays as it is, it counts one more, or it
\* starts again with one, and what was added grows accordingly.
StaysAt(n, l) == acc'[n][l] = acc[n][l] /\ Added(n, l)' >= Added(n, l)
CountsAt(n, l) ==
    /\ acc'[n][l].at = acc[n][l].at /\ acc'[n][l].sum = acc[n][l].sum + 1
    /\ Present(n, l) /\ Added(n, l)' >= Added(n, l) + 1
RestartsAt(n, l) ==
    /\ acc'[n][l].at = acc[n][l].at + 1 /\ acc'[n][l].sum = 1
    /\ Added(n, l)' >= Added(n, l) + 1
    /\ \A a \in Accs : a.map = n => a.create = "ANY"

LEMMA EffectAt ==
  ASSUME MapType, NEW o \in Owners, NEW m \in Maps, NEW k \in Keys, AddStep(o, m, k),
         CountsType(fed'), CountsType(landed'), NEW n \in Maps, NEW l \in Keys
  PROVE  /\ StaysAt(n, l) \/ CountsAt(n, l) \/ RestartsAt(n, l)
         /\ RestartsAt(n, l) /\ ~StaysAt(n, l) /\ ~CountsAt(n, l) => n = m /\ l = k
<1>1. /\ fed[n][l] \in Nat /\ fed'[n][l] \in Nat
      /\ landed[n][l] \in Nat /\ landed'[n][l] \in Nat
  BY DEF MapType, CountsType
<1>2. Added(n, l) = fed[n][l] + landed[n][l] /\ Added(n, l)' = fed'[n][l] + landed'[n][l]
  BY DEF Added
<1>3. Fed(m, k) => fed'[n][l] = fed[n][l] + (IF n = m /\ l = k THEN 1 ELSE 0)
  BY <1>1 DEF Fed
<1>4. \A a \in Accs : a.map = m => a = Op(o)
  BY ToolFacts DEF AddStep, MapType
<1>5. Effect(Op(o), m, k)
  BY DEF AddStep
<1>6. CASE Fed(m, k) /\ landed' = landed /\ Raised(m, k) /\ Present(m, k)
  <2>1. CASE n = m /\ l = k
    BY <1>1, <1>2, <1>3, <1>6, <2>1 DEF Raised, CountsAt
  <2>2. CASE ~(n = m /\ l = k)
    BY <1>1, <1>2, <1>3, <1>6, <2>2 DEF Raised, StaysAt
  <2>3. QED
    BY <2>1, <2>2
<1>7. CASE Fed(m, k) /\ landed' = landed /\ acc' = acc
  BY <1>1, <1>2, <1>3, <1>7 DEF StaysAt
<1>8. CASE Fed(m, k) /\ landed' = landed /\ Reset(m, k) /\ Op(o).create = "ANY"
  <2>1. CASE n = m /\ l = k
    BY <1>1, <1>2, <1>3, <1>4, <1>8, <2>1 DEF Reset, RestartsAt
  <2>2. CASE ~(n = m /\ l = k)
    BY <1>1, <1>2, <1>3, <1>8, <2>2 DEF Reset, StaysAt
  <2>3. QED
    BY <2>1, <2>2
<1>9. CASE Fed(m, k) /\ \E nn \in Maps, ll \in Keys : Strays(nn, ll)
  <2>1. PICK nn \in Maps, ll \in Keys : Strays(nn, ll)
    BY <1>9
  <2>2. CASE n = nn /\ l = ll
    BY <1>1, <1>2, <1>3, <1>9, <2>1, <2>2 DEF Strays, Landed, Raised, CountsAt
  <2>3. CASE ~(n = nn /\ l = ll)
    BY <1>1, <1>2, <1>3, <1>9, <2>1, <2>3 DEF Strays, Landed, Raised, StaysAt
  <2>4. QED
    BY <2>2, <2>3
<1>10. CASE fed' = fed /\ landed' = landed /\ acc' = acc
  BY <1>1, <1>2, <1>10 DEF StaysAt
<1>11. QED
  BY <1>5, <1>6, <1>7, <1>8, <1>9, <1>10 DEF Effect

\* An array is added to by its own adds only.
LEMMA ArrayStays ==
  ASSUME MapType, NEW o \in Owners, NEW m \in Maps, NEW k \in Keys, AddStep(o, m, k),
         NEW n \in Maps, NEW l \in Keys, n # m,
         \A a \in Accs : a.map = n => a.create = "array"
  PROVE  acc'[n][l] = acc[n][l]
<1>1. ~ \E ll \in Keys : Strays(n, ll)
  <2>1. PICK a \in Accs : a.map = n
    BY DEF Maps
  <2>2. QED
    BY <2>1 DEF Strays
<1>2. CASE \E nn \in Maps, ll \in Keys : Strays(nn, ll)
  <2>1. PICK nn \in Maps, ll \in Keys : Strays(nn, ll)
    BY <1>2
  <2>2. nn # n
    BY <1>1, <2>1
  <2>3. QED
    BY <2>1, <2>2 DEF Strays, Raised
<1>3. CASE ~ \E nn \in Maps, ll \in Keys : Strays(nn, ll)
  BY <1>3 DEF AddStep, Effect, Raised, Reset
<1>4. QED
  BY <1>2, <1>3

\* Value v is stored under key k of stamp map s.
Stamped(s, k, v) ==
    /\ stamp'[s][k] = v
    /\ \A t \in StampMaps, l \in Keys \cup Contexts :
          t # s \/ l # k => stamp'[t][l] = stamp[t][l]

LEMMA StampStores ==
  ASSUME stamp \in [StampMaps -> [Keys \cup Contexts -> Starts \cup {NoStamp}]],
         NEW s \in StampMaps, NEW k \in Keys \cup Contexts,
         NEW v \in Starts \cup {NoStamp}, stamp' = [stamp EXCEPT ![s][k] = v]
  PROVE  /\ stamp' \in [StampMaps -> [Keys \cup Contexts -> Starts \cup {NoStamp}]]
         /\ Stamped(s, k, v)
<1>1. stamp' = [stamp EXCEPT ![s] = [stamp[s] EXCEPT ![k] = v]]
  OBVIOUS
<1>2. [stamp[s] EXCEPT ![k] = v] \in [Keys \cup Contexts -> Starts \cup {NoStamp}]
  OBVIOUS
<1>3. stamp' \in [StampMaps -> [Keys \cup Contexts -> Starts \cup {NoStamp}]]
  BY <1>1, <1>2
<1>4. Stamped(s, k, v)
  BY <1>1 DEF Stamped
<1>5. QED
  BY <1>3, <1>4

\* A start that finds the map full leaves no stamp.
LEMMA StampSteps ==
  ASSUME MapType, ProbeType, ProbeInv, NEW o \in Owners, PutStamp(o) \/ Unstamp(o)
  PROVE  /\ stamp' \in [StampMaps -> [Keys \cup Contexts -> Starts \cup {NoStamp}]]
         /\ PutStamp(o) => \/ stamp' = stamp /\ stamp[Stamps(o)][StampKey(o)] = NoStamp
                           \/ Stamped(Stamps(o), StampKey(o), <<o, calls[o]>>)
         /\ Unstamp(o) => Stamped(Stamps(o), StampKey(o), NoStamp)
<1>1. /\ Stamps(o) \in StampMaps /\ StampKey(o) \in Keys \cup Contexts
      /\ stamp \in [StampMaps -> [Keys \cup Contexts -> Starts \cup {NoStamp}]]
  BY PairFacts, StampKeyFacts DEF PutStamp, Unstamp, MapType
<1>2. <<o, calls[o]>> \in Starts
  BY DEF Starts, ProbeType
<1>3. ASSUME PutStamp(o)
      PROVE  \/ stamp' = stamp /\ stamp[Stamps(o)][StampKey(o)] = NoStamp
             \/ stamp' = [stamp EXCEPT ![Stamps(o)][StampKey(o)] = <<o, calls[o]>>]
  BY <1>3 DEF PutStamp
<1>4. ASSUME Unstamp(o)
      PROVE  stamp' = [stamp EXCEPT ![Stamps(o)][StampKey(o)] = NoStamp]
  BY <1>4 DEF Unstamp
<1>5. PutStamp(o) /\ Unstamp(o) => FALSE
  BY DEF PutStamp, Unstamp
<1>6. CASE stamp' = [stamp EXCEPT ![Stamps(o)][StampKey(o)] = <<o, calls[o]>>] /\ PutStamp(o)
  BY <1>1, <1>2, <1>5, <1>6, StampStores
<1>7. CASE Unstamp(o)
  BY <1>1, <1>4, <1>5, <1>7, StampStores
<1>8. QED
  BY <1>1, <1>3, <1>5, <1>6, <1>7

-----------------------------------------------------------------------------
(* Types *)

ProbeMove(o) ==
    \/ \E c \in Contexts \cup {Null} : Start(o, c) \/ End(o, c)
    \/ MissEnd(o) \/ ProbeStep(o)

\* The loop leaves the probes and their maps alone, and the probes the loop.
LEMMA LoopFrame ==
  ASSUME WakeUp \/ Walk \/ Read
  PROVE  UNCHANGED <<stamp, acc, calls, open, todo, stage, ctx, ptr, from, strays, fed,
                     landed>>
BY DEF WakeUp, Walk, Read, mapVars, handlerVars

LEMMA ProbeFrame ==
  ASSUME NEW o \in Owners, ProbeMove(o)
  PROVE  UNCHANGED <<phase, group, key, cur, prev, out, lines>>
BY DEF ProbeMove, Start, End, MissEnd, ProbeStep, PutStamp, Match, Sane, AddCell,
   LookUp, Add, Insert, Unstamp, readerVars

\* The kinds of steps there are.
LEMMA Moves ==
  ASSUME [Next]_vars
  PROVE  \/ \E o \in Owners : ProbeMove(o)
         \/ WakeUp \/ Walk \/ Read \/ UNCHANGED vars
BY DEF Next, ProbeMove

\* Probes that are not the one that moves stay as they are.
LEMMA Others ==
  ASSUME MapType, ProbeType, ProbeInv, ElementInv, NEW o \in Owners, ProbeMove(o)
  PROVE  \A q \in Owners : q # o =>
            /\ todo'[q] = todo[q] /\ stage'[q] = stage[q] /\ ctx'[q] = ctx[q]
            /\ ptr'[q] = ptr[q] /\ from'[q] = from[q]
            /\ calls'[q] = calls[q] /\ open'[q] = open[q]
<1> USE DEF ProbeType
<1>1. CASE \E c \in Contexts \cup {Null} : Start(o, c) \/ End(o, c)
  BY <1>1 DEF Start, End
<1>2. CASE MissEnd(o)
  BY <1>2 DEF MissEnd
<1>3. CASE PutStamp(o) \/ Match(o) \/ Sane(o) \/ Unstamp(o)
  BY <1>3 DEF PutStamp, Match, Sane, Unstamp, Step, Return
<1>4. CASE LookUp(o)
  BY <1>4 DEF LookUp
<1>5. CASE AddCell(o) \/ Add(o) \/ Insert(o)
  BY <1>5 DEF AddCell, Add, Insert, Step
<1>6. QED
  BY <1>1, <1>2, <1>3, <1>4, <1>5 DEF ProbeMove, ProbeStep

\* The maps keep their types.
LEMMA MapTypeStep ==
  ASSUME MapType, ProbeType, ProbeInv, ElementInv, [Next]_vars
  PROVE  MapType'
<1>0. tool' = tool /\ pairOf' = pairOf /\ Maps' = Maps /\ StampMaps' = StampMaps
  BY ToolKept
<1>1. CASE UNCHANGED <<stamp, acc, fed, landed>>
  BY <1>0, <1>1 DEF MapType, Starts
<1>2. ASSUME NEW o \in Owners, AddCell(o) \/ Add(o) \/ Insert(o) PROVE MapType'
  <2>1. stamp' = stamp
    BY <1>2, AddSteps DEF AddStep
  <2>2. AccsType(acc') /\ CountsType(fed') /\ CountsType(landed')
    BY <1>2, AddSteps
  <2>3. QED
    BY <1>0, <2>1, <2>2 DEF MapType, Starts, AccsType, CountsType
<1>3. ASSUME NEW o \in Owners, PutStamp(o) \/ Unstamp(o) PROVE MapType'
  <2>1. /\ Stamps(o) \in StampMaps /\ StampKey(o) \in Keys \cup Contexts
        /\ acc' = acc /\ fed' = fed /\ landed' = landed
    BY <1>3, PairFacts, StampKeyFacts DEF PutStamp, Unstamp, MapType
  <2>3. stamp' \in [StampMaps -> [Keys \cup Contexts -> Starts \cup {NoStamp}]]
    BY <1>3, StampSteps
  <2>4. QED
    BY <1>0, <2>1, <2>3 DEF MapType, Starts
<1>4. ASSUME NEW o \in Owners, ProbeMove(o) PROVE MapType'
  BY <1>1, <1>2, <1>3, <1>4 DEF ProbeMove, ProbeStep, Start, End, MissEnd, Match, Sane,
     LookUp, mapVars
<1>5. QED
  BY <1>1, <1>4, Moves, LoopFrame DEF vars

\* So do the probes.
LEMMA ProbeTypeStep ==
  ASSUME MapType, ProbeType, ProbeInv, ElementInv, [Next]_vars
  PROVE  ProbeType'
<1>0. Ops' = Ops
  BY ToolKept
<1>1. CASE UNCHANGED <<calls, open, todo, stage, ctx, ptr, from>>
  BY <1>0, <1>1 DEF ProbeType, Starts
<1>2. ASSUME NEW o \in Owners, NEW c \in Contexts \cup {Null}, Start(o, c) \/ End(o, c)
      PROVE  ProbeType'
  <2>1. PairOf(o).start \in Seq(Ops) /\ PairOf(o).finish \in Seq(Ops)
    BY PairFacts DEF MapType
  <2>2. todo' \in [Owners -> Seq(Ops)]
    BY <1>2, <2>1 DEF Start, End, ProbeType
  <2>3. open' \in [Owners -> 0..MaxDepth]
    <3>1. MaxDepth \in Nat
      BY ConstantsAssumption
    <3>2. open \in [Owners -> 0..MaxDepth]
      BY DEF ProbeType
    <3>3. CASE Start(o, c)
      BY <3>1, <3>2, <3>3 DEF Start
    <3>4. CASE End(o, c)
      BY <3>1, <3>2, <3>4 DEF End
    <3>5. QED
      BY <1>2, <3>3, <3>4
  <2>4. calls' \in [Owners -> Nat]
    <3>1. CASE Start(o, c)
      BY <3>1 DEF Start, ProbeType
    <3>2. CASE End(o, c)
      BY <3>2 DEF End, handlerVars, ProbeType
    <3>3. QED
      BY <1>2, <3>1, <3>2
  <2>5. ctx' \in [Owners -> Contexts \cup {Null}]
    BY <1>2 DEF Start, End, ProbeType
  <2>6. stage' = stage /\ ptr' = ptr /\ from' = from
    BY <1>2 DEF Start, End
  <2>7. QED
    BY <1>0, <2>2, <2>3, <2>4, <2>5, <2>6 DEF ProbeType, Starts
<1>3. ASSUME NEW o \in Owners, MissEnd(o) PROVE ProbeType'
  <2>1. open' \in [Owners -> 0..MaxDepth]
    <3>1. MaxDepth \in Nat
      BY ConstantsAssumption
    <3>2. QED
      BY <1>3, <3>1 DEF MissEnd, ProbeType
  <2>2. UNCHANGED <<calls, todo, stage, ctx, ptr, from>>
    BY <1>3 DEF MissEnd
  <2>3. QED
    BY <1>0, <2>1, <2>2 DEF ProbeType, Starts
<1>4. ASSUME NEW o \in Owners, PutStamp(o) \/ Match(o) \/ Sane(o) \/ Unstamp(o)
      PROVE  ProbeType'
  <2>1. todo' \in [Owners -> Seq(Ops)]
    BY <1>4, TodoMoves DEF PutStamp, Match, Sane, Unstamp
  <2>2. UNCHANGED <<calls, open, stage, ctx, ptr>>
    BY <1>4 DEF PutStamp, Match, Sane, Unstamp
  <2>3. from' \in [Owners -> Starts \cup {NoStamp}]
    <3>1. CASE PutStamp(o) \/ Sane(o)
      BY <3>1 DEF PutStamp, Sane, ProbeType
    <3>2. CASE Unstamp(o)
      BY <3>2 DEF Unstamp, ProbeType
    <3>3. CASE Match(o)
      <4>1. stamp[Stamps(o)][StampKey(o)] \in Starts \cup {NoStamp}
        BY <3>3, PairFacts, StampKeyFacts DEF Match, MapType
      <4>2. QED
        BY <3>3, <4>1 DEF Match, ProbeType
    <3>4. QED
      BY <1>4, <3>1, <3>2, <3>3
  <2>4. QED
    BY <1>0, <2>1, <2>2, <2>3 DEF ProbeType, Starts
<1>5. ASSUME NEW o \in Owners, LookUp(o) PROVE ProbeType'
  <2>1. ~Idle(o) /\ Op(o).do = "add" /\ UNCHANGED <<calls, open, todo, ctx, from>>
    BY <1>5 DEF LookUp
  <2>2. acc[Op(o).map][AccKey(o)] \in [at : Nat, sum : Nat]
    BY <2>1, OpFacts DEF MapType
  <2>3. acc[Op(o).map][AccKey(o)].at \in Nat
    BY <2>2
  <2>4. stage' \in [Owners -> {"look", "add", "insert"}] /\ ptr' \in [Owners -> Nat]
    BY <1>5, <2>3 DEF LookUp, ProbeType
  <2>5. QED
    BY <1>0, <2>1, <2>4 DEF ProbeType, Starts
<1>6. ASSUME NEW o \in Owners, AddCell(o) \/ Add(o) \/ Insert(o) PROVE ProbeType'
  <2>1. AddStep(o, Op(o).map, AccKey(o))
    BY <1>6, AddSteps
  <2>2. todo' \in [Owners -> Seq(Ops)]
    BY <2>1, TodoMoves DEF AddStep
  <2>3. QED
    BY <1>0, <2>1, <2>2 DEF AddStep, ProbeType, Starts
<1>7. ASSUME NEW o \in Owners, ProbeMove(o) PROVE ProbeType'
  BY <1>2, <1>3, <1>4, <1>5, <1>6, <1>7 DEF ProbeMove, ProbeStep
<1>8. QED
  BY <1>1, <1>7, Moves, LoopFrame DEF vars

-----------------------------------------------------------------------------
(* The course of a probe *)

\* What is left of a program after its first operation.
LEMMA TailKinds ==
  ASSUME NEW o \in Owners, todo[o] \in Seq(Ops), Ops' = Ops, todo'[o] \in Seq(Ops),
         ~Idle(o), Tailed(o)
  PROVE  /\ Adding(o) => Adding(o)' \/ Idle(o)'
         /\ Ending(o) /\ Op(o).do # "unstamp" => Ending(o)' /\ Op(o)'.do # "match" /\ ~Idle(o)'
         /\ Starting(o) => Idle(o)'
         /\ Ending(o) /\ Op(o).do = "unstamp" => Idle(o)'
<1>1. /\ Len(todo[o]) \in Nat \ {0} /\ Op(o) = todo[o][1]
      /\ Len(todo'[o]) = Len(todo[o]) - 1
      /\ \A i \in 1..Len(todo'[o]) : todo'[o][i] = todo[o][i + 1]
  BY HeadTailProperties, EmptySeq DEF Tailed, Idle, Op
<1>2. /\ Idle(o)' <=> Len(todo'[o]) = 0
      /\ Len(todo'[o]) > 0 => Op(o)' = todo'[o][1]
  BY EmptySeq, HeadTailProperties DEF Idle, Op
<1>3. Adding(o) => Adding(o)' \/ Idle(o)'
  <2>1. SUFFICES ASSUME Adding(o), Len(todo'[o]) > 0
                 PROVE  Adding(o)'
    <3>1. Len(todo'[o]) > 0 \/ Len(todo'[o]) = 0
      <4>1. \A n \in Nat \ {0} : n - 1 > 0 \/ n - 1 = 0
        OBVIOUS
      <4>2. QED
        BY <1>1, <4>1, Zenon
    <3>2. QED
      BY <1>2, <3>1
  <2>2. \A i \in 1..Len(todo'[o]) : i + 1 \in 1..Len(todo[o])
    BY <1>1
  <2>3. QED
    BY <1>1, <2>1, <2>2 DEF Adding
<1>4. Starting(o) => Idle(o)'
  BY <1>1, <1>2 DEF Starting
<1>5. Ending(o) /\ Op(o).do = "unstamp" => Idle(o)'
  <2>0. 1 \in 1..Len(todo[o])
    BY <1>1
  <2>1. Ending(o) /\ Op(o).do = "unstamp" => Len(todo[o]) = 1
    BY <1>1, <2>0 DEF Ending
  <2>2. QED
    BY <1>1, <1>2, <2>1
<1>6. ASSUME Ending(o), Op(o).do # "unstamp"
      PROVE  Ending(o)' /\ Op(o)'.do # "match" /\ ~Idle(o)'
  <2>1. Len(todo'[o]) > 0
    BY <1>1, <1>6 DEF Ending
  <2>2. \A i \in 1..Len(todo'[o]) :
          /\ i + 1 \in 1..Len(todo[o]) /\ i + 1 # 1
          /\ i = Len(todo'[o]) <=> i + 1 = Len(todo[o])
    BY <1>1
  <2>3. \A i \in 1..Len(todo'[o]) :
          /\ todo'[o][i].do # "stamp" /\ todo'[o][i].do # "match"
          /\ todo'[o][i].do = "unstamp" <=> i = Len(todo'[o])
    BY <1>1, <1>6, <2>2 DEF Ending
  <2>4. QED
    BY <1>2, <2>1, <2>3 DEF Ending
<1>7. QED
  BY <1>3, <1>4, <1>5, <1>6

\* The kind of a probe, told from the operation it is at.
LEMMA ProbeKinds ==
  ASSUME MapType, ProbeType, ProbeInv, NEW o \in Owners
  PROVE  /\ Idle(o) => /\ from[o] = NoStamp /\ stage[o] = "look"
                       /\ ~Adding(o) /\ ~Starting(o) /\ ~Ending(o)
         /\ Starting(o) => /\ ~Idle(o) /\ Op(o).do = "stamp" /\ open[o] > 0
                           /\ ~Ending(o) /\ from[o] = NoStamp
         /\ ~Idle(o) /\ Op(o).do = "stamp" => Starting(o)
         /\ ~Idle(o) /\ Op(o).do \in {"match", "sane", "unstamp"} => Ending(o)
         /\ ~Idle(o) /\ Op(o).do = "add" => Adding(o) \/ Ending(o)
         /\ from[o] # NoStamp => Ending(o) /\ Op(o).do # "match"
<1>1. todo[o] \in Seq(Ops)
  BY DEF ProbeType
<1>2. /\ Idle(o) => Len(todo[o]) = 0
      /\ ~Idle(o) => Len(todo[o]) \in Nat \ {0} /\ Op(o) = todo[o][1]
  BY <1>1, EmptySeq, HeadTailProperties DEF Idle, Op
<1>3. Idle(o) => ~Adding(o) /\ ~Starting(o) /\ ~Ending(o)
  BY <1>2 DEF Adding, Starting, Ending
<1>4. Starting(o) => ~Idle(o) /\ Op(o).do = "stamp" /\ ~Ending(o)
  BY <1>2, <1>3 DEF Starting, Ending
<1>5. ~Idle(o) => Adding(o) \/ Starting(o) \/ Ending(o)
  BY DEF ProbeInv, ProbeOk
<1>6. /\ ~Idle(o) /\ Adding(o) => Op(o).do = "add"
      /\ ~Idle(o) /\ Ending(o) => Op(o).do # "stamp"
  BY <1>2 DEF Adding, Ending
<1>7. QED
  BY <1>3, <1>4, <1>5, <1>6 DEF ProbeInv, ProbeOk, ProbeType

\* A probe begins as its pair has it.
LEMMA BeginKinds ==
  ASSUME MapType, ProbeType, ProbeInv, NEW o \in Owners, NEW c, Start(o, c) \/ End(o, c),
         todo'[o] \in Seq(Ops), PairOf(o)' = PairOf(o)
  PROVE  ProbeOk(o)'
<1>1. /\ PairOf(o).start \in Seq(Ops) /\ PairOf(o).finish \in Seq(Ops)
      /\ ProbesFormed(PairOf(o))
  BY PairFacts DEF MapType
<1>2. /\ Len(PairOf(o).start) \in Nat /\ Len(PairOf(o).finish) \in Nat
      /\ DOMAIN PairOf(o).start = 1..Len(PairOf(o).start)
      /\ DOMAIN PairOf(o).finish = 1..Len(PairOf(o).finish)
      /\ PairOf(o).finish = <<>> <=> Len(PairOf(o).finish) = 0
      /\ PairOf(o).start = <<>> <=> Len(PairOf(o).start) = 0
  BY <1>1, LenProperties, EmptySeq
<1>3. Idle(o) /\ from[o] = NoStamp /\ stage[o] = "look"
  BY ProbeKinds DEF Start, End
<1>4. /\ from' = from /\ stage' = stage
      /\ PairOf(o).key = "context" => ctx'[o] \in Contexts
  BY DEF Start, End, ContextsOf, ProbeType
<1>5. CASE Start(o, c)
  <2>1. /\ todo'[o] = PairOf(o).start
        /\ open'[o] = IF PairOf(o).finish = <<>> THEN open[o] ELSE open[o] + 1
        /\ open[o] \in Nat
    BY <1>5, ConstantsAssumption DEF Start, ProbeType
  <2>2. CASE PairOf(o).finish = <<>>
    <3>1. /\ \A i \in 1..Len(todo'[o]) : todo'[o][i].do = "add"
          /\ ~(Len(todo'[o]) = 1 /\ todo'[o][1].do = "stamp")
          /\ open'[o] = open[o] /\ ~(open[o] > 0)
      BY <1>1, <1>2, <2>1, <2>2 DEF ProbesFormed, ProbeInv, ProbeOk
    <3>2. QED
      BY <1>2, <1>3, <1>4, <2>1, <2>2, <3>1 DEF ProbeOk, Idle, Adding, Starting
  <2>3. CASE PairOf(o).finish # <<>>
    <3>1. Starting(o)' /\ open'[o] > 0
      BY <1>1, <1>2, <2>1, <2>3 DEF ProbesFormed, Starting
    <3>2. QED
      BY <1>3, <1>4, <2>3, <3>1 DEF ProbeOk
  <2>4. QED
    BY <2>2, <2>3
<1>6. CASE End(o, c)
  <2>1. todo'[o] = PairOf(o).finish /\ open[o] > 0
    BY <1>6 DEF End, ProbeType
  <2>2. PairOf(o).finish # <<>>
    BY <2>1 DEF ProbeInv, ProbeOk
  <2>3. Len(todo'[o]) >= 2 /\ Ending(o)'
    <3>1. /\ Len(todo'[o]) >= 2 /\ Len(todo'[o]) \in Nat
          /\ \A i \in 1..Len(todo'[o]) : todo'[o][i].do \in
                (IF i = 1 THEN {"match"}
                 ELSE IF i = Len(todo'[o]) THEN {"unstamp"} ELSE {"sane", "add"})
      BY <1>1, <1>2, <2>1, <2>2 DEF ProbesFormed
    <3>2. \A i \in 1..Len(todo'[o]) :
            /\ i = 1 => todo'[o][i].do = "match"
            /\ i # 1 /\ i = Len(todo'[o]) => todo'[o][i].do = "unstamp"
            /\ i # 1 /\ i # Len(todo'[o]) => todo'[o][i].do \in {"sane", "add"}
      BY <3>1
    <3>3. \A i \in 1..Len(todo'[o]) :
            /\ todo'[o][i].do # "stamp"
            /\ todo'[o][i].do = "unstamp" <=> i = Len(todo'[o])
            /\ todo'[o][i].do = "match" => i = 1
      BY <3>1, <3>2
    <3>4. QED
      BY <3>1, <3>3 DEF Ending
  <2>4. ~Starting(o)'
    <3>1. ~(1 >= 2)
      OBVIOUS
    <3>2. Len(todo'[o]) # 1
      BY <2>3, <3>1, Zenon
    <3>3. QED
      BY <3>2 DEF Starting
  <2>5. QED
    BY <1>3, <1>4, <2>2, <2>3, <2>4 DEF ProbeOk
<1>7. QED
  BY <1>5, <1>6

\* A step takes a probe on as it should.
LEMMA ProbeOkStep ==
  ASSUME MapType, ProbeType, ProbeInv, ElementInv, [Next]_vars, ProbeType',
         NEW o \in Owners, ProbeMove(o)
  PROVE  ProbeOk(o)'
<1>0. Ops' = Ops /\ PairOf(o)' = PairOf(o)
  BY ToolKept
<1>1. todo[o] \in Seq(Ops) /\ todo'[o] \in Seq(Ops)
  BY <1>0 DEF ProbeType
<1>2. CASE \E c \in Contexts \cup {Null} : Start(o, c) \/ End(o, c)
  BY <1>0, <1>1, <1>2, BeginKinds
<1>3. CASE MissEnd(o)
  <2>1. /\ open'[o] = open[o] - 1 /\ open[o] > 0 /\ open[o] \in Nat
        /\ UNCHANGED <<todo, stage, ctx, ptr, from>> /\ Idle(o)
    <3>1. MaxDepth \in Nat
      BY ConstantsAssumption
    <3>2. QED
      BY <1>3, <3>1 DEF MissEnd, ProbeType
  <2>2. ~Starting(o)' /\ Idle(o)' /\ stage[o] = "look" /\ from[o] = NoStamp
    BY <2>1, ProbeKinds DEF Starting, Idle
  <2>3. QED
    BY <1>0, <2>1, <2>2 DEF ProbeOk, ProbeInv
<1>4. ASSUME ~Idle(o), Step(o), open' = open, ctx' = ctx,
             stage'[o] = "look",
             Op(o).do \in {"unstamp", "stamp"} => from'[o] = NoStamp,
             Op(o).do = "add" => from'[o] = from[o]
      PROVE  ProbeOk(o)'
  <2>1. Tailed(o)
    BY <1>4, TodoMoves
  <2>2. /\ Adding(o) => Adding(o)' \/ Idle(o)'
        /\ Ending(o) /\ Op(o).do # "unstamp" => Ending(o)' /\ Op(o)'.do # "match" /\ ~Idle(o)'
        /\ Starting(o) => Idle(o)'
        /\ Ending(o) /\ Op(o).do = "unstamp" => Idle(o)'
    BY <1>0, <1>1, <1>4, <2>1, TailKinds
  <2>3. Starting(o)' => ~Idle(o)' /\ ~Adding(o)' /\ ~Ending(o)'
    BY <1>1, EmptySeq DEF Starting, Idle, Adding, Ending
  <2>4. CASE Adding(o)
    <3>0. Len(todo[o]) \in Nat \ {0} /\ Op(o) = todo[o][1]
      BY <1>4, OpFacts
    <3>1. Op(o).do = "add" /\ ~Ending(o) /\ ~Starting(o)
      <4>1. 1 \in 1..Len(todo[o]) /\ Len(todo[o]) \in 1..Len(todo[o])
        BY <3>0
      <4>2. Op(o).do = "add" /\ todo[o][Len(todo[o])].do = "add"
        BY <2>4, <3>0, <4>1 DEF Adding
      <4>3. QED
        BY <3>0, <4>1, <4>2 DEF Ending, Starting
    <3>2. from'[o] = NoStamp /\ PairOf(o).finish = <<>>
      BY <1>4, <2>4, <3>1, ProbeKinds DEF ProbeInv, ProbeOk
    <3>3. QED
      BY <1>0, <1>4, <2>2, <2>3, <2>4, <3>2 DEF ProbeInv, ProbeOk
  <2>5. CASE Starting(o)
    <3>1. Op(o).do = "stamp" /\ open[o] > 0
      BY <2>5, ProbeKinds
    <3>2. Idle(o)' /\ from'[o] = NoStamp
      BY <1>4, <2>2, <2>5, <3>1
    <3>3. QED
      BY <1>0, <1>4, <2>3, <3>2 DEF ProbeInv, ProbeOk
  <2>6. CASE Ending(o) /\ ~Adding(o) /\ ~Starting(o)
    <3>1. PairOf(o).finish # <<>>
      BY <1>4, <2>6 DEF ProbeInv, ProbeOk
    <3>2. CASE Op(o).do = "unstamp"
      BY <1>0, <1>4, <2>2, <2>3, <2>6, <3>1, <3>2 DEF ProbeInv, ProbeOk
    <3>3. CASE Op(o).do # "unstamp"
      BY <1>0, <1>4, <2>2, <2>3, <2>6, <3>1, <3>3 DEF ProbeInv, ProbeOk
    <3>4. QED
      BY <3>2, <3>3
  <2>7. QED
    BY <1>4, <2>4, <2>5, <2>6 DEF ProbeInv, ProbeOk
<1>5. ASSUME ~Idle(o), Op(o).do # "add" PROVE stage[o] = "look"
  BY <1>5 DEF ProbeInv, ProbeOk
<1>6. CASE PutStamp(o) \/ Unstamp(o)
  <2>1. /\ ~Idle(o) /\ Step(o) /\ open' = open /\ ctx' = ctx /\ stage' = stage
        /\ Op(o).do \in {"unstamp", "stamp"}
    BY <1>6 DEF PutStamp, Unstamp
  <2>2. from'[o] = NoStamp
    <3>1. CASE PutStamp(o)
      BY <3>1, ProbeKinds DEF PutStamp
    <3>2. CASE Unstamp(o)
      BY <3>2 DEF Unstamp, ProbeType
    <3>3. QED
      BY <1>6, <3>1, <3>2
  <2>3. QED
    BY <1>4, <1>5, <2>1, <2>2
<1>7. CASE Match(o)
  <2>1. ~Idle(o) /\ open' = open /\ ctx' = ctx /\ stage' = stage /\ Op(o).do = "match"
    BY <1>7 DEF Match
  <2>2. CASE Step(o)
    BY <1>4, <1>5, <2>1, <2>2
  <2>3. CASE Return(o) /\ from'[o] = NoStamp
    <3>1. Idle(o)' /\ ~Starting(o)'
      BY <1>1, <2>1, <2>3, TodoMoves, EmptySeq DEF Finished, Idle, Starting
    <3>2. QED
      BY <1>0, <1>5, <2>1, <2>3, <3>1 DEF ProbeInv, ProbeOk
  <2>4. QED
    BY <1>7, <2>2, <2>3 DEF Match, ProbeType
<1>8. CASE Sane(o)
  <2>1. /\ ~Idle(o) /\ open' = open /\ ctx' = ctx /\ stage' = stage /\ Op(o).do = "sane"
        /\ from' = from
    BY <1>8 DEF Sane
  <2>2. CASE Step(o)
    BY <1>4, <1>5, <2>1, <2>2
  <2>3. CASE todo' = [todo EXCEPT ![o] = <<@[Len(@)]>>]
    <3>1. Skipped(o) /\ Ending(o)
      BY <2>1, <2>3, TodoMoves, ProbeKinds
    <3>2. Len(todo'[o]) = 1 /\ todo'[o][1].do = "unstamp"
      BY <1>1, <2>1, <3>1, OpFacts DEF Skipped, Ending
    <3>3. Ending(o)' /\ ~Starting(o)' /\ ~Idle(o)' /\ Op(o)'.do = "unstamp"
      BY <1>1, <3>2, EmptySeq, HeadTailProperties DEF Ending, Starting, Idle, Op
    <3>4. PairOf(o).finish # <<>>
      <4>1. ~Adding(o)
        BY <2>1, OpFacts DEF Adding
      <4>2. QED
        BY <2>1, <4>1 DEF ProbeInv, ProbeOk
    <3>5. QED
      BY <1>0, <1>5, <2>1, <3>3, <3>4 DEF ProbeInv, ProbeOk
  <2>4. QED
    BY <1>8, <2>2, <2>3 DEF Sane
<1>9. CASE LookUp(o)
  <2>1. /\ ~Idle(o) /\ Op(o).do = "add" /\ Op(o).create = "ANY"
        /\ UNCHANGED <<open, todo, ctx, from>>
    BY <1>9 DEF LookUp
  <2>2. /\ acc[Op(o).map][AccKey(o)] \in [at : Nat, sum : Nat]
        /\ acc[Op(o).map][AccKey(o)].at = 0 => acc[Op(o).map][AccKey(o)].sum = 0
    BY <2>1, OpFacts DEF MapType, ElementInv
  <2>3. acc[Op(o).map][AccKey(o)] # NoElement => acc[Op(o).map][AccKey(o)].at > 0
    BY <2>2 DEF NoElement
  <2>4. stage'[o] = "add" => ptr'[o] > 0
    BY <1>9, <2>3 DEF LookUp, ProbeType
  <2>5. /\ Adding(o)' <=> Adding(o)
        /\ Starting(o)' <=> Starting(o)
        /\ Ending(o)' <=> Ending(o)
        /\ Idle(o)' <=> Idle(o)
        /\ Op(o)' = Op(o)
    BY <2>1 DEF Adding, Starting, Ending, Idle, Op
  <2>6. QED
    BY <1>0, <2>1, <2>4, <2>5 DEF ProbeInv, ProbeOk
<1>10. CASE AddCell(o) \/ Add(o) \/ Insert(o)
  BY <1>4, <1>10, AddSteps DEF AddStep
<1>11. QED
  BY <1>2, <1>3, <1>6, <1>7, <1>8, <1>9, <1>10 DEF ProbeMove, ProbeStep

\* A probe whose locals stay as they are.
Rests(o) ==
    /\ todo'[o] = todo[o] /\ stage'[o] = stage[o] /\ ctx'[o] = ctx[o]
    /\ ptr'[o] = ptr[o] /\ from'[o] = from[o]
    /\ calls'[o] = calls[o] /\ open'[o] = open[o]

LEMMA RestFacts ==
  ASSUME NEW o \in Owners, Rests(o), PairOf(o)' = PairOf(o)
  PROVE  /\ Idle(o)' <=> Idle(o)
         /\ Starting(o)' <=> Starting(o)
         /\ Adding(o)' <=> Adding(o)
         /\ Ending(o)' <=> Ending(o)
         /\ Op(o)' = Op(o) /\ AccKey(o)' = AccKey(o)
         /\ ProbeOk(o) => ProbeOk(o)'
<1>1. /\ Idle(o)' <=> Idle(o)
      /\ Starting(o)' <=> Starting(o)
      /\ Adding(o)' <=> Adding(o)
      /\ Ending(o)' <=> Ending(o)
      /\ Op(o)' = Op(o)
  BY DEF Rests, Idle, Starting, Adding, Ending, Op
<1>2. AccKey(o)' = AccKey(o)
  BY <1>1 DEF Rests, AccKey, KeyFor
<1>3. ProbeOk(o) => ProbeOk(o)'
  BY <1>1 DEF Rests, ProbeOk
<1>4. QED
  BY <1>1, <1>2, <1>3

\* In every step at most one probe moves.
LEMMA OneMoves ==
  ASSUME MapType, ProbeType, ProbeInv, ElementInv, [Next]_vars
  PROVE  \/ \A o \in Owners : Rests(o)
         \/ \E o \in Owners : ProbeMove(o) /\ \A q \in Owners : q # o => Rests(q)
<1>1. ASSUME NEW o \in Owners, ProbeMove(o) PROVE \A q \in Owners : q # o => Rests(q)
  BY <1>1, Others DEF Rests
<1>2. CASE WakeUp \/ Walk \/ Read
  BY <1>2, LoopFrame DEF Rests
<1>3. CASE UNCHANGED vars
  BY <1>3 DEF vars, Rests
<1>4. QED
  BY <1>1, <1>2, <1>3, Moves

LEMMA ProbeInvStep ==
  ASSUME MapType, ProbeType, ProbeInv, ElementInv, [Next]_vars, ProbeType'
  PROVE  ProbeInv'
<1>1. ASSUME NEW o \in Owners, Rests(o) PROVE ProbeOk(o)'
  BY <1>1, RestFacts, ToolKept DEF ProbeInv
<1>2. \A o \in Owners : ProbeOk(o)'
  <2>1. CASE \A o \in Owners : Rests(o)
    BY <1>1, <2>1
  <2>2. ASSUME NEW o \in Owners, ProbeMove(o), \A q \in Owners : q # o => Rests(q)
        PROVE  \A q \in Owners : ProbeOk(q)'
    <3>1. ProbeOk(o)'
      BY <2>2, ProbeOkStep
    <3>2. QED
      BY <1>1, <2>2, <3>1
  <2>3. QED
    BY <2>1, <2>2, OneMoves
<1>3. QED
  BY <1>2 DEF ProbeInv

-----------------------------------------------------------------------------
(* Stamps *)

\* The stamp under an owner's own key is touched by its own probes only.
LEMMA OwnStamp ==
  ASSUME MapType, ProbeType, ProbeInv, NEW o \in StampOwners, NEW q \in Owners, q # o,
         ProbeMove(q)
  PROVE  stamp'[Stamps(o)][o] = stamp[Stamps(o)][o]
<1>1. CASE PutStamp(q) \/ Unstamp(q)
  <2>1. o \in Owners /\ Stamps(o) \in StampMaps /\ o \in Keys /\ PairOf(o).key = "owner"
    BY PairFacts, KeyFacts DEF StampOwners, MapType
  <2>2. Stamps(q) = Stamps(o) => PairOf(q).key = "owner"
    BY <2>1, ToolFacts, PairFacts DEF Stamps, MapType
  <2>3. Stamps(q) = Stamps(o) => StampKey(q) = q
    BY <1>1, <2>2, StampKeyFacts DEF PutStamp, Unstamp
  <2>4. QED
    BY <1>1, <2>1, <2>3, StampSteps DEF Stamped
<1>2. CASE ~(PutStamp(q) \/ Unstamp(q))
  BY <1>2 DEF ProbeMove, ProbeStep, Start, End, MissEnd, Match, Sane, AddCell,
     LookUp, Add, Insert, mapVars
<1>3. QED
  BY <1>1, <1>2

LEMMA StampOkStep ==
  ASSUME MapType, ProbeType, ProbeInv, ElementInv, [Next]_vars, ProbeType', ProbeInv',
         NEW o \in StampOwners, NEW s \in StampMaps, s = Stamps(o), StampOk(o, s),
         ProbeMove(o)
  PROVE  StampOk(o, s)'
<1>0. /\ o \in Owners /\ PairOf(o)' = PairOf(o) /\ PairOf(o).key = "owner"
      /\ o \in Keys \cup Contexts /\ calls[o] \in Nat /\ open[o] \in Nat
      /\ stamp \in [StampMaps -> [Keys \cup Contexts -> Starts \cup {NoStamp}]]
  <2>1. o \in Owners /\ PairOf(o).key = "owner"
    BY DEF StampOwners
  <2>2. calls[o] \in Nat /\ open[o] \in Nat
    BY <2>1, ConstantsAssumption DEF ProbeType
  <2>3. PairOf(o)' = PairOf(o)
    BY ToolKept
  <2>4. o \in Keys \cup Contexts
    BY <2>1, KeyFacts
  <2>5. QED
    BY <2>1, <2>2, <2>3, <2>4 DEF MapType
<1>1. ASSUME NEW c, Start(o, c) PROVE StampOk(o, s)'
  <2>1. /\ stamp' = stamp /\ from' = from /\ strays' = strays
        /\ todo'[o] = PairOf(o).start
        /\ open'[o] = IF PairOf(o).finish = <<>> THEN open[o] ELSE open[o] + 1
    BY <1>0, <1>1 DEF Start, mapVars, ProbeType
  <2>2. from'[o] = NoStamp
    BY <1>0, <1>1, <2>1, ProbeKinds DEF Start
  <2>3. CASE PairOf(o).finish = <<>>
    BY <1>0, <2>1, <2>2, <2>3 DEF StampOk
  <2>4. CASE PairOf(o).finish # <<>>
    <3>1. Len(todo'[o]) = 1 /\ todo'[o][1].do = "stamp"
      BY <1>0, <2>1, <2>4, PairFacts DEF MapType, ProbesFormed
    <3>2. Starting(o)' /\ open'[o] > 0
      BY <1>0, <2>1, <2>4, <3>1 DEF Starting
    <3>3. QED
      BY <1>0, <2>2, <2>4, <3>2 DEF StampOk
  <2>5. QED
    BY <2>3, <2>4
<1>2. ASSUME NEW c, End(o, c) PROVE StampOk(o, s)'
  <2>1. /\ stamp' = stamp /\ from' = from /\ calls' = calls
        /\ todo'[o] = PairOf(o).finish /\ Idle(o) /\ open[o] > 0
    BY <1>0, <1>2 DEF End, mapVars, ProbeType
  <2>2. PairOf(o).finish # <<>> /\ ~Starting(o)
    BY <1>0, <2>1, ProbeKinds DEF ProbeInv, ProbeOk
  <2>3. ~Idle(o)' /\ (Starting(o)' \/ Ending(o)')
    BY <1>0, <2>1, <2>2 DEF ProbeInv, ProbeOk, Idle
  <2>4. ~Starting(o)'
    <3>1. Len(todo'[o]) >= 2
      BY <1>0, <2>1, <2>2, PairFacts DEF MapType, ProbesFormed
    <3>2. ~(1 >= 2)
      OBVIOUS
    <3>3. Len(todo'[o]) # 1
      BY <3>1, <3>2, Zenon
    <3>4. QED
      BY <3>3 DEF Starting
  <2>5. QED
    BY <1>0, <2>1, <2>2, <2>3, <2>4 DEF StampOk
<1>3. CASE MissEnd(o)
  <2>1. /\ UNCHANGED <<stamp, from, calls, todo>> /\ o \in strays'
    BY <1>3 DEF MissEnd, mapVars
  <2>2. Starting(o)' <=> Starting(o)
    BY <2>1 DEF Starting
  <2>3. QED
    BY <1>0, <2>1, <2>2 DEF StampOk
<1>4. CASE PutStamp(o)
  <2>1. /\ UNCHANGED <<from, calls, open>> /\ ~Idle(o) /\ Op(o).do = "stamp" /\ Step(o)
    BY <1>4 DEF PutStamp
  <2>2. Starting(o) /\ StampKey(o) = o /\ open[o] > 0 /\ PairOf(o).finish # <<>>
    BY <1>0, <2>1, ProbeKinds, StampKeyFacts DEF ProbeInv, ProbeOk
  <2>3. stamp'[s][o] \in {NoStamp, <<o, calls[o]>>}
    BY <1>0, <1>4, <2>2, StampSteps DEF Stamped
  <2>4. QED
    BY <1>0, <2>1, <2>2, <2>3 DEF StampOk
<1>5. CASE Match(o)
  <2>1. /\ UNCHANGED <<stamp, calls, open>> /\ ~Idle(o) /\ Op(o).do = "match"
        /\ from'[o] = stamp[Stamps(o)][StampKey(o)]
        /\ stamp[Stamps(o)][StampKey(o)] = NoStamp \/ Step(o)
    BY <1>0, <1>5 DEF Match, mapVars, ProbeType
  <2>2. StampKey(o) = o /\ ~Starting(o) /\ Ending(o)
    BY <1>0, <2>1, ProbeKinds, StampKeyFacts
  <2>3. from'[o] = stamp[s][o] /\ stamp[s][o] \in {NoStamp, <<o, calls[o]>>}
    BY <2>1, <2>2 DEF StampOk
  <2>4. ASSUME Step(o) PROVE Ending(o)'
    <3>1. Tailed(o)
      BY <1>0, <2>1, <2>4, TodoMoves
    <3>2. todo[o] \in Seq(Ops) /\ todo'[o] \in Seq(Ops) /\ Ops' = Ops
      BY <1>0, ToolKept DEF ProbeType
    <3>3. QED
      BY <1>0, <2>1, <2>2, <3>1, <3>2, TailKinds
  <2>5. stamp'[s][o] # NoStamp => Ending(o)'
    BY <2>1, <2>2, <2>4
  <2>6. QED
    BY <1>0, <2>1, <2>3, <2>5 DEF StampOk
<1>6. CASE Unstamp(o)
  <2>1. /\ UNCHANGED calls /\ ~Idle(o) /\ from'[o] = NoStamp
    BY <1>0, <1>6 DEF Unstamp, ProbeType
  <2>2. StampKey(o) = o
    BY <1>0, <2>1, StampKeyFacts
  <2>3. stamp'[s][o] = NoStamp
    BY <1>0, <1>6, <2>2, StampSteps DEF Stamped
  <2>4. QED
    BY <1>0, <2>1, <2>3 DEF StampOk
<1>7. CASE Sane(o) \/ LookUp(o) \/ AddCell(o) \/ Add(o) \/ Insert(o)
  <2>1. /\ UNCHANGED <<stamp, calls, open, from, strays>> /\ ~Idle(o)
    BY <1>7 DEF Sane, LookUp, AddCell, Add, Insert, mapVars
  <2>2. Op(o).do \in {"sane", "add"}
    BY <1>0, <1>7 DEF Sane, LookUp, AddCell, Add, Insert, ProbeInv, ProbeOk
  <2>3. ~Starting(o)
    BY <1>0, <2>2, ProbeKinds
  <2>4. ASSUME PairOf(o).finish # <<>> PROVE Ending(o)'
    <3>1. Ending(o)
      BY <1>0, <2>1, <2>3, <2>4 DEF ProbeInv, ProbeOk
    <3>2. todo[o] \in Seq(Ops) /\ todo'[o] \in Seq(Ops) /\ Ops' = Ops
      BY <1>0, ToolKept DEF ProbeType
    <3>3. ASSUME Step(o) PROVE Ending(o)'
      <4>1. Tailed(o)
        BY <1>0, <2>1, <3>3, TodoMoves
      <4>2. QED
        BY <1>0, <2>1, <2>2, <3>1, <3>2, <4>1, TailKinds
    <3>4. CASE todo' = todo
      BY <3>1, <3>4 DEF Ending
    <3>5. CASE todo' = [todo EXCEPT ![o] = <<@[Len(@)]>>]
      <4>1. Skipped(o)
        BY <1>0, <2>1, <3>5, TodoMoves
      <4>2. Len(todo'[o]) = 1 /\ todo'[o][1].do = "unstamp"
        BY <1>0, <2>1, <3>1, <4>1, OpFacts DEF Skipped, Ending
      <4>3. QED
        BY <4>2 DEF Ending
    <3>6. QED
      BY <1>7, <3>3, <3>4, <3>5 DEF Sane, LookUp, AddCell, Add, Insert
  <2>5. QED
    BY <1>0, <2>1, <2>3, <2>4 DEF StampOk
<1>8. QED
  BY <1>1, <1>2, <1>3, <1>4, <1>5, <1>6, <1>7 DEF ProbeMove, ProbeStep

LEMMA StampInvStep ==
  ASSUME MapType, ProbeType, ProbeInv, ElementInv, StampInv, [Next]_vars, ProbeType', ProbeInv'
  PROVE  StampInv'
<1>0. StampOwners' = StampOwners /\ StampMaps' = StampMaps /\ StampOwners \subseteq Owners
      /\ \A o : Stamps(o)' = Stamps(o) /\ PairOf(o)' = PairOf(o)
  BY ToolKept DEF StampOwners
<1> SUFFICES ASSUME NEW o \in StampOwners, NEW s \in StampMaps, s = Stamps(o)
             PROVE  StampOk(o, s)'
  BY <1>0 DEF StampInv
<1>1. StampOk(o, s)
  BY DEF StampInv
<1>2. CASE ProbeMove(o)
  BY <1>1, <1>2, StampOkStep
<1>3. ASSUME Rests(o), stamp'[s][o] = stamp[s][o], strays \subseteq strays'
      PROVE  StampOk(o, s)'
  <2>1. (Starting(o)' <=> Starting(o)) /\ (Ending(o)' <=> Ending(o))
    BY <1>0, <1>3, RestFacts
  <2>2. QED
    BY <1>0, <1>1, <1>3, <2>1 DEF StampOk, Rests
<1>4. strays \subseteq strays'
  <2>1. ASSUME NEW q \in Owners, MissEnd(q) PROVE strays \subseteq strays'
    BY <2>1 DEF MissEnd
  <2>2. ASSUME NEW q \in Owners, ProbeMove(q), ~MissEnd(q) PROVE strays' = strays
    BY <2>2 DEF ProbeMove, Start, End, ProbeStep, PutStamp, Match, Sane, AddCell,
       LookUp, Add, Insert, Unstamp
  <2>3. QED
    BY <2>1, <2>2, Moves, LoopFrame DEF vars
<1>5. ASSUME NEW q \in Owners, q # o, ProbeMove(q) PROVE StampOk(o, s)'
  <2>1. Rests(o)
    BY <1>0, <1>5, Others DEF Rests
  <2>2. stamp'[s][o] = stamp[s][o]
    BY <1>5, OwnStamp
  <2>3. QED
    BY <1>3, <1>4, <2>1, <2>2
<1>6. CASE WakeUp \/ Walk \/ Read \/ UNCHANGED vars
  <2>1. UNCHANGED <<stamp, calls, open, todo, stage, ctx, ptr, from>>
    BY <1>6, LoopFrame DEF vars
  <2>2. Rests(o)
    BY <2>1 DEF Rests
  <2>3. QED
    BY <1>3, <1>4, <2>1, <2>2
<1>7. QED
  BY <1>2, <1>5, <1>6, Moves

-----------------------------------------------------------------------------
(* Elements *)

\* Accumulators change only when a probe adds.
LEMMA AccMoves ==
  ASSUME MapType, ProbeType, ProbeInv, ElementInv, [Next]_vars
  PROVE  \/ acc' = acc /\ fed' = fed /\ landed' = landed
         \/ /\ \E o \in Owners, m \in Maps, k \in Keys : ProbeMove(o) /\ AddStep(o, m, k)
            /\ CountsType(fed') /\ CountsType(landed')
<1>1. ASSUME NEW o \in Owners, AddCell(o) \/ Add(o) \/ Insert(o)
      PROVE  /\ \E m \in Maps, k \in Keys : ProbeMove(o) /\ AddStep(o, m, k)
             /\ CountsType(fed') /\ CountsType(landed')
  <2>1. /\ AddStep(o, Op(o).map, AccKey(o)) /\ ProbeMove(o)
        /\ CountsType(fed') /\ CountsType(landed')
    BY <1>1, AddSteps DEF ProbeMove, ProbeStep
  <2>2. Op(o).map \in Maps /\ AccKey(o) \in Keys
    BY <2>1 DEF AddStep
  <2>3. QED
    BY <2>1, <2>2
<1>2. ASSUME NEW o \in Owners, ProbeMove(o), ~(AddCell(o) \/ Add(o) \/ Insert(o))
      PROVE  acc' = acc /\ fed' = fed /\ landed' = landed
  BY <1>2 DEF ProbeMove, ProbeStep, Start, End, MissEnd, PutStamp, Match, Sane, LookUp,
     Unstamp, mapVars
<1>3. CASE WakeUp \/ Walk \/ Read \/ UNCHANGED vars
  BY <1>3, LoopFrame DEF vars
<1>4. QED
  BY <1>1, <1>2, <1>3, Moves

\* Elements stay.
LEMMA AtGrows ==
  ASSUME MapType, NEW o \in Owners, NEW m \in Maps, NEW k \in Keys, AddStep(o, m, k),
         CountsType(fed'), CountsType(landed'), NEW n \in Maps, NEW l \in Keys
  PROVE  /\ Present(n, l) => Present(n, l)'
         /\ Present(n, l)' => Present(n, l) \/ (n = m /\ l = k)
<1>1. acc[n][l].at \in Nat
  BY DEF MapType
<1>2. CASE StaysAt(n, l) \/ CountsAt(n, l)
  BY <1>1, <1>2 DEF StaysAt, CountsAt, Present
<1>3. CASE ~StaysAt(n, l) /\ ~CountsAt(n, l)
  <2>1. RestartsAt(n, l) /\ n = m /\ l = k
    BY <1>3, EffectAt
  <2>2. QED
    BY <1>1, <2>1 DEF RestartsAt, Present
<1>4. QED
  BY <1>2, <1>3

LEMMA ElementInvStep ==
  ASSUME MapType, ProbeType, ProbeInv, ElementInv, [Next]_vars
  PROVE  ElementInv'
<1>0. Maps' = Maps /\ Arrays' = Arrays /\ Accs' = Accs
  BY ToolKept
<1>1. CASE acc' = acc
  BY <1>0, <1>1 DEF ElementInv, Present
<1>2. ASSUME NEW o \in Owners, NEW m \in Maps, NEW k \in Keys, AddStep(o, m, k),
             CountsType(fed'), CountsType(landed')
      PROVE  ElementInv'
  <2>1. ASSUME NEW n \in Maps, NEW l \in Keys, acc'[n][l].at = 0 PROVE acc'[n][l].sum = 0
    <3>1. acc[n][l].at \in Nat /\ ~(0 > 0)
      BY DEF MapType
    <3>2. CASE StaysAt(n, l)
      BY <2>1, <3>2 DEF StaysAt, ElementInv
    <3>3. CASE CountsAt(n, l)
      BY <2>1, <3>1, <3>3 DEF CountsAt, Present
    <3>4. CASE RestartsAt(n, l)
      BY <2>1, <3>1, <3>4 DEF RestartsAt
    <3>5. QED
      BY <1>2, <3>2, <3>3, <3>4, EffectAt
  <2>2. ASSUME NEW n \in Arrays PROVE acc'[n][Cell].at > 0
    <3>1. n \in Maps /\ Cell \in Keys
      BY KeyFacts DEF Arrays, Maps
    <3>2. Present(n, Cell)
      BY DEF ElementInv, Present
    <3>3. QED
      BY <1>2, <3>1, <3>2, AtGrows DEF Present
  <2>3. ASSUME NEW a \in Accs, NEW l \in Keys, Present(a.map, l)'
        PROVE  a.key = "cell" <=> l = Cell
    <3>1. a.map \in Maps
      BY DEF Maps
    <3>2. CASE Present(a.map, l)
      BY <3>2 DEF ElementInv
    <3>3. CASE a.map = m /\ l = k
      <4>1. /\ ~Idle(o) /\ Op(o) \in Accs /\ Op(o).map = m /\ AccKey(o) = k /\ Op(o).do = "add"
        BY <1>2 DEF AddStep
      <4>2. Op(o).key = "cell" <=> k = Cell
        BY <4>1, OpFacts
      <4>3. Op(o) = a
        BY <3>3, <4>1, ToolFacts DEF MapType
      <4>4. QED
        BY <3>3, <4>2, <4>3
    <3>4. Present(a.map, l) \/ (a.map = m /\ l = k)
      <4>1. ASSUME NEW n, n = a.map PROVE Present(n, l)'
        BY <2>3, <4>1 DEF Present
      <4>2. QED
        BY <1>2, <3>1, <4>1, AtGrows
    <3>5. QED
      BY <3>2, <3>3, <3>4
  <2>4. \A n \in Maps, l \in Keys : acc'[n][l].at = 0 => acc'[n][l].sum = 0
    BY <2>1
  <2>5. \A n \in Arrays : acc'[n][Cell].at > 0
    BY <2>2
  <2>6. \A a \in Accs, l \in Keys : Present(a.map, l)' => (a.key = "cell" <=> l = Cell)
    BY <2>3
  <2>7. QED
    BY <1>0, <2>4, <2>5, <2>6 DEF ElementInv
<1>3. QED
  BY <1>1, <1>2, AccMoves

-----------------------------------------------------------------------------
(* What a pass prints *)

\* The group the loop is at.
LEMMA CurrentFacts ==
  ASSUME MapType, LoopType
  PROVE  /\ group \in DOMAIN tool.loop /\ Current \in GroupType
         /\ Len(Current.maps) \in Nat \ {0} /\ DOMAIN Current.maps = 1..Len(Current.maps)
         /\ Current.unit \in Nat \ {0} /\ Current.gate \in 0..Len(Current.maps)
         /\ Range(Current.maps) = {Current.maps[n] : n \in DOMAIN Current.maps}
         /\ Range(Current.maps) \subseteq Maps
         /\ \A n \in DOMAIN Current.maps : Current.maps[n] \in Maps
         /\ \A i, j \in DOMAIN Current.maps : Current.maps[i] = Current.maps[j] => i = j
<1>1. tool \in Tools /\ group \in DOMAIN tool.loop
  BY LoopFacts DEF MapType, LoopType
<1>2. /\ Current \in GroupType
      /\ Len(Current.maps) \in Nat \ {0} /\ DOMAIN Current.maps = 1..Len(Current.maps)
      /\ Current.gate \in 0..Len(Current.maps)
  BY <1>1, LoopFacts DEF Current
<1>3. \A n \in DOMAIN Current.maps : Current.maps[n] \in Maps
  BY <1>1, LoopFacts DEF Current
<1>4. \A i, j \in DOMAIN Current.maps : Current.maps[i] = Current.maps[j] => i = j
  BY <1>1, LoopFacts DEF Current
<1>5. Current.unit \in Nat \ {0}
  BY <1>2 DEF GroupType
<1>6. Range(Current.maps) = {Current.maps[n] : n \in DOMAIN Current.maps}
  BY DEF Range
<1>7. QED
  BY <1>1, <1>2, <1>3, <1>4, <1>5, <1>6

\* Put changes f under the key for the maps of the group, and nowhere else.
Puts(f, new) ==
    /\ Put(f, new) \in [Maps -> [Keys -> Nat]]
    /\ \A n \in DOMAIN Current.maps : Put(f, new)[Current.maps[n]][key] = new[n]
    /\ \A m \in Maps, k \in Keys : m \notin Range(Current.maps) \/ k # key =>
          Put(f, new)[m][k] = f[m][k]

LEMMA PutFacts ==
  ASSUME MapType, LoopType, key \in Keys, NEW f \in [Maps -> [Keys -> Nat]], NEW new,
         \A n \in DOMAIN Current.maps : new[n] \in Nat
  PROVE  Puts(f, new)
<1> DEFINE at(m) == CHOOSE i \in DOMAIN Current.maps : Current.maps[i] = m
           g(m) == IF m \in Range(Current.maps) THEN [f[m] EXCEPT ![key] = new[at(m)]]
                   ELSE f[m]
<1>1. Put(f, new) = [m \in Maps |-> g(m)]
  BY DEF Put
<1>2. ASSUME NEW m \in Range(Current.maps)
      PROVE  at(m) \in DOMAIN Current.maps /\ Current.maps[at(m)] = m
  BY CurrentFacts
<1>3. ASSUME NEW n \in DOMAIN Current.maps PROVE at(Current.maps[n]) = n
  BY <1>2, CurrentFacts
<1> HIDE DEF at
<1>4. ASSUME NEW m \in Maps PROVE g(m) \in [Keys -> Nat]
  <2>1. CASE m \in Range(Current.maps)
    BY <1>2, <2>1
  <2>2. CASE m \notin Range(Current.maps)
    BY <2>2
  <2>3. QED
    BY <2>1, <2>2
<1>5. ASSUME NEW n \in DOMAIN Current.maps PROVE g(Current.maps[n])[key] = new[n]
  <2>1. Current.maps[n] \in Maps /\ Current.maps[n] \in Range(Current.maps)
    BY CurrentFacts
  <2>2. QED
    BY <1>3, <2>1
<1>6. ASSUME NEW m \in Maps, NEW k \in Keys, m \notin Range(Current.maps) \/ k # key
      PROVE  g(m)[k] = f[m][k]
  BY <1>6
<1> HIDE DEF g
<1>7. Put(f, new) \in [Maps -> [Keys -> Nat]]
  BY <1>1, <1>4
<1>8. \A n \in DOMAIN Current.maps : Put(f, new)[Current.maps[n]][key] = new[n]
  BY <1>1, <1>5, CurrentFacts
<1>9. \A m \in Maps, k \in Keys : m \notin Range(Current.maps) \/ k # key =>
         Put(f, new)[m][k] = f[m][k]
  BY <1>1, <1>6
<1>10. QED
  BY <1>7, <1>8, <1>9 DEF Puts

\* The loop reads the last value of a group and prints.
Prints(vals) ==
    /\ phase = "read" /\ key \in Keys
    /\ vals \in Seq(Nat) /\ Len(vals) = Len(Current.maps) /\ Len(cur) = Len(vals) - 1
    /\ \A n \in 1..Len(cur) : vals[n] = cur[n]
    /\ vals[Len(vals)] = acc[Current.maps[Len(vals)]][key].sum
    /\ prev' \in [Maps -> [Keys -> Nat]] /\ out' \in [Maps -> [Keys -> Nat]]
    /\ lines' \in [Maps -> [Keys -> Nat]]
    /\ \A m \in Maps, k \in Keys : m \notin Range(Current.maps) \/ k # key =>
          prev'[m][k] = prev[m][k] /\ out'[m][k] = out[m][k] /\ lines'[m][k] = lines[m][k]
    /\ \A n \in DOMAIN Current.maps : \A m \in Maps : m = Current.maps[n] =>
          /\ DiffOf(vals, n) \in Nat
          /\ prev'[m][key] = IF Remembers THEN vals[n] ELSE prev[m][key]
          /\ lines'[m][key] = IF Remembers THEN LineOf(vals, n) ELSE lines[m][key]
          /\ out'[m][key] = IF LeftOut THEN out[m][key] ELSE SumOf(vals, n)
    /\ phase' = "walk" /\ cur' = <<>> /\ group' = group /\ key' = key

\* Or it reads one value more.
Reads ==
    /\ phase = "read" /\ key \in Keys
    /\ Len(cur) + 1 < Len(Current.maps)
    /\ cur' \in Seq(Nat) /\ Len(cur') = Len(cur) + 1
    /\ \A n \in 1..Len(cur) : cur'[n] = cur[n]
    /\ cur'[Len(cur')] = acc[Current.maps[Len(cur')]][key].sum
    /\ UNCHANGED <<phase, group, key, prev, out, lines>>

LEMMA DiffNat ==
  ASSUME NEW x \in Nat, NEW y \in Nat PROVE Diff(x, y) \in Nat
<1>1. Word \in Nat \ {0}
  BY ConstantsAssumption
<1>2. x - y \in Int
  OBVIOUS
<1>3. (x - y) % Word \in Nat
  BY <1>1, <1>2
<1>4. QED
  BY <1>3 DEF Diff

LEMMA ReadMoves ==
  ASSUME MapType, LoopType, ElementInv, Read
  PROVE  Reads \/ \E vals \in Seq(Nat) : Prints(vals)
<1> DEFINE m == Current.maps[Len(cur) + 1]
           v == IF Present(m, key) THEN acc[m][key].sum ELSE 0
           vals == Append(cur, v)
<1>1. /\ phase = "read" /\ key \in Keys /\ cur \in Seq(Nat) /\ Len(cur) \in Nat
      /\ Len(cur) < Len(Current.maps) /\ group' = group /\ key' = key
  BY LenProperties DEF Read, LoopType
<1>2. Len(cur) + 1 \in DOMAIN Current.maps /\ m \in Maps
  <2>1. Len(cur) + 1 \in DOMAIN Current.maps
    BY <1>1, CurrentFacts
  <2>2. QED
    BY <2>1, CurrentFacts
<1>3. v = acc[m][key].sum /\ v \in Nat
  <2>1. acc[m][key].sum \in Nat /\ acc[m][key].at \in Nat
    BY <1>1, <1>2 DEF MapType
  <2>2. acc[m][key].at = 0 => acc[m][key].sum = 0
    BY <1>1, <1>2 DEF ElementInv
  <2>3. QED
    BY <2>1, <2>2 DEF Present
<1>4. \/ Len(vals) < Len(Current.maps) /\ cur' = vals /\ UNCHANGED <<phase, prev, out, lines>>
      \/ /\ Len(vals) = Len(Current.maps) /\ PrintGroup(vals)
         /\ phase' = "walk" /\ cur' = <<>>
  BY DEF Read
<1> HIDE DEF v
<1>5. /\ vals \in Seq(Nat) /\ Len(vals) = Len(cur) + 1
      /\ \A n \in 1..Len(cur) : vals[n] = cur[n]
      /\ vals[Len(vals)] = v
  BY <1>1, <1>3, AppendProperties
<1> HIDE DEF vals
<1>6. vals[Len(vals)] = acc[Current.maps[Len(vals)]][key].sum
  BY <1>3, <1>5
<1>7. CASE Len(vals) < Len(Current.maps) /\ cur' = vals /\ UNCHANGED <<phase, prev, out, lines>>
  <2>1. Len(cur) + 1 < Len(Current.maps) /\ cur' \in Seq(Nat) /\ Len(cur') = Len(cur) + 1
        /\ \A n \in 1..Len(cur) : cur'[n] = cur[n]
    BY <1>5, <1>7
  <2>2. cur'[Len(cur')] = acc[Current.maps[Len(cur')]][key].sum
    BY <1>6, <1>7
  <2>3. QED
    BY <1>1, <1>7, <2>1, <2>2 DEF Reads
<1>8. CASE /\ Len(vals) = Len(Current.maps) /\ PrintGroup(vals)
           /\ phase' = "walk" /\ cur' = <<>>
  <2>1. ASSUME NEW n \in DOMAIN Current.maps
        PROVE  /\ Current.maps[n] \in Maps /\ vals[n] \in Nat
               /\ DiffOf(vals, n) \in Nat
    <3>1. Current.maps[n] \in Maps /\ vals[n] \in Nat
      BY <1>5, <1>8, CurrentFacts, ElementOfSeq
    <3>2. prev[Current.maps[n]][key] \in Nat
      BY <1>1, <3>1 DEF LoopType
    <3>3. QED
      BY <3>1, <3>2, DiffNat DEF DiffOf
  <2>2. ASSUME NEW n \in DOMAIN Current.maps
        PROVE  SumOf(vals, n) \in Nat /\ LineOf(vals, n) \in Nat
    <3> DEFINE c == Current.maps[n]
               d == DiffOf(vals, n)
               u == Current.unit
    <3>0. c \in Maps /\ d \in Nat /\ u \in Nat \ {0}
      BY <2>1, CurrentFacts
    <3> HIDE DEF c, d, u
    <3>1. /\ c \in Maps /\ d \in Nat /\ u \in Nat \ {0}
          /\ out[c][key] \in Nat /\ Added(c, key) \in Nat /\ lines[c][key] \in Nat
      BY <1>1, <3>0 DEF LoopType, MapType, Added
    <3>2. d \div u \in Nat
      BY <3>1
    <3>3. out[c][key] + (IF Shown(vals) THEN d \div u ELSE 0) \in Nat
      <4>1. CASE Shown(vals)
        BY <3>1, <3>2, <4>1
      <4>2. CASE ~Shown(vals)
        BY <3>1, <4>2
      <4>3. QED
        BY <4>1, <4>2
    <3>4. SumOf(vals, n) \in Nat
      <4> DEFINE x == out[c][key] + (IF Shown(vals) THEN d \div u ELSE 0)
      <4>1. SumOf(vals, n) = IF u * x > Added(c, key) THEN Added(c, key) + 1 ELSE x
        BY DEF SumOf, c, d, u
      <4>2. x \in Nat
        BY <3>3
      <4> HIDE DEF x
      <4>3. QED
        BY <3>1, <4>1, <4>2
    <3>5. LineOf(vals, n) \in Nat
      <4>1. lines[c][key] + 1 \in Nat /\ lines[c][key] + 0 \in Nat
        BY <3>1
      <4>2. QED
        BY <4>1 DEF LineOf, c
    <3>6. QED
      BY <3>4, <3>5
  <2>3. /\ prev \in [Maps -> [Keys -> Nat]] /\ out \in [Maps -> [Keys -> Nat]]
        /\ lines \in [Maps -> [Keys -> Nat]]
    BY DEF LoopType
  <2> DEFINE sums == [i \in DOMAIN Current.maps |-> SumOf(vals, i)]
             more == [i \in DOMAIN Current.maps |-> LineOf(vals, i)]
  <2>4. /\ out' = IF LeftOut THEN out ELSE Put(out, sums)
        /\ prev' = IF Remembers THEN Put(prev, vals) ELSE prev
        /\ lines' = IF Remembers THEN Put(lines, more) ELSE lines
    BY <1>8 DEF PrintGroup
  <2>5. \A n \in DOMAIN Current.maps :
          /\ sums[n] \in Nat /\ more[n] \in Nat /\ vals[n] \in Nat
          /\ sums[n] = SumOf(vals, n) /\ more[n] = LineOf(vals, n)
    BY <2>1, <2>2
  <2> HIDE DEF sums, more
  <2>6. Puts(out, sums)
    <3>1. \A n \in DOMAIN Current.maps : sums[n] \in Nat
      BY <2>5
    <3>2. key \in Keys /\ out \in [Maps -> [Keys -> Nat]]
      BY <1>1, <2>3
    <3>3. QED
      BY <3>1, <3>2, PutFacts
  <2>7. Puts(prev, vals)
    <3>1. \A n \in DOMAIN Current.maps : vals[n] \in Nat
      BY <2>5
    <3>2. key \in Keys /\ prev \in [Maps -> [Keys -> Nat]]
      BY <1>1, <2>3
    <3>3. QED
      BY <3>1, <3>2, PutFacts
  <2>8. Puts(lines, more)
    <3>1. \A n \in DOMAIN Current.maps : more[n] \in Nat
      BY <2>5
    <3>2. key \in Keys /\ lines \in [Maps -> [Keys -> Nat]]
      BY <1>1, <2>3
    <3>3. QED
      BY <3>1, <3>2, PutFacts
  <2>9. /\ prev' \in [Maps -> [Keys -> Nat]] /\ out' \in [Maps -> [Keys -> Nat]]
        /\ lines' \in [Maps -> [Keys -> Nat]]
    BY <2>3, <2>4, <2>6, <2>7, <2>8 DEF Puts
  <2>10. ASSUME NEW c \in Maps, NEW k \in Keys, c \notin Range(Current.maps) \/ k # key
         PROVE  prev'[c][k] = prev[c][k] /\ out'[c][k] = out[c][k] /\ lines'[c][k] = lines[c][k]
    BY <2>4, <2>6, <2>7, <2>8, <2>10 DEF Puts
  <2>11. ASSUME NEW n \in DOMAIN Current.maps, NEW c \in Maps, c = Current.maps[n]
         PROVE  /\ DiffOf(vals, n) \in Nat
                /\ prev'[c][key] = IF Remembers THEN vals[n] ELSE prev[c][key]
                /\ lines'[c][key] = IF Remembers THEN LineOf(vals, n) ELSE lines[c][key]
                /\ out'[c][key] = IF LeftOut THEN out[c][key] ELSE SumOf(vals, n)
    BY <2>1, <2>4, <2>5, <2>6, <2>7, <2>8, <2>11 DEF Puts
  <2>12. Len(cur) = Len(vals) - 1
    BY <1>1, <1>5
  <2>13. Prints(vals)
    BY <1>1, <1>5, <1>6, <1>8, <2>9, <2>10, <2>11, <2>12 DEF Prints
  <2>14. QED
    BY <1>5, <2>13
<1>9. QED
  BY <1>4, <1>7, <1>8

-----------------------------------------------------------------------------
(* The walk *)

LEMMA PosFacts ==
  ASSUME NEW k \in Range(KeyOrder)
  PROVE  /\ Pos(k) \in DOMAIN KeyOrder /\ KeyOrder[Pos(k)] = k
         /\ Pos(k) \in Nat
         /\ \A i \in DOMAIN KeyOrder : KeyOrder[i] = k => i = Pos(k)
<1>1. \E i \in DOMAIN KeyOrder : KeyOrder[i] = k
  BY DEF Range
<1>2. Pos(k) \in DOMAIN KeyOrder /\ KeyOrder[Pos(k)] = k
  BY <1>1 DEF Pos
<1>3. DOMAIN KeyOrder \subseteq Nat
  BY ConstantsAssumption, LenProperties
<1>4. QED
  BY <1>2, <1>3, ConstantsAssumption

\* The walk goes to the next key that is there, and ends when there is none.
LEMMA NextKeyFacts ==
  ASSUME MapType, LoopType
  PROVE  /\ Current.cells => NextKey = IF key = Null THEN Cell ELSE Null
         /\ ~Current.cells /\ NextKey # Null =>
              /\ NextKey \in Range(KeyOrder) /\ Present(Current.maps[1], NextKey)
              /\ key # Null => Pos(NextKey) > Pos(key)
         /\ ~Current.cells => \A k \in Range(KeyOrder) :
              Present(Current.maps[1], k) /\ (key = Null \/ Pos(k) > Pos(key)) =>
                NextKey # Null /\ Pos(k) >= Pos(NextKey)
<1> DEFINE m == Current.maps[1]
           first == IF key = Null THEN 1 ELSE 1 + Pos(key)
           here == {i \in first..Len(KeyOrder) : Present(m, KeyOrder[i])}
           Less == {ss \in Nat \X Nat : ss[1] < ss[2]}
           Least(i) == i \in here /\ \A j \in here : i <= j
<1>1. DOMAIN KeyOrder = 1..Len(KeyOrder) /\ Len(KeyOrder) \in Nat
  BY ConstantsAssumption, LenProperties
<1>2. NextKey = IF Current.cells THEN IF key = Null THEN Cell ELSE Null
                ELSE IF here = {} THEN Null
                ELSE KeyOrder[CHOOSE i \in here : \A j \in here : i <= j]
  BY DEF NextKey, Pos
<1>3. CASE Current.cells
  BY <1>2, <1>3
<1>4. CASE ~Current.cells
  <2>1. key # Null => key \in Range(KeyOrder)
    BY <1>4 DEF LoopType, Keys
  <2>2. first \in Nat \ {0} /\ (key # Null => first = Pos(key) + 1 /\ Pos(key) \in Nat)
    BY <2>1, PosFacts
  <2>3. ASSUME NEW k \in Range(KeyOrder), Present(m, k), key = Null \/ Pos(k) > Pos(key)
        PROVE  Pos(k) \in here
    <3>1. Pos(k) \in 1..Len(KeyOrder) /\ KeyOrder[Pos(k)] = k
      BY <1>1, PosFacts
    <3>2. Pos(k) >= first
      <4>1. CASE key = Null
        BY <3>1, <4>1
      <4>2. CASE key # Null
        BY <2>2, <2>3, <3>1, <4>2
      <4>3. QED
        BY <4>1, <4>2
    <3> HIDE DEF first
    <3>3. QED
      BY <1>1, <2>2, <2>3, <3>1, <3>2
  <2>4. ASSUME NEW i \in here
        PROVE  /\ i \in DOMAIN KeyOrder /\ i \in Nat /\ i >= first
               /\ KeyOrder[i] \in Range(KeyOrder) /\ Present(m, KeyOrder[i])
               /\ i = Pos(KeyOrder[i])
    <3> HIDE DEF first
    <3>1. i \in DOMAIN KeyOrder /\ i \in Nat /\ i >= first /\ Present(m, KeyOrder[i])
      BY <1>1, <2>2
    <3>2. KeyOrder[i] \in Range(KeyOrder)
      BY <3>1 DEF Range
    <3>3. QED
      BY <3>1, <3>2, PosFacts
  <2> HIDE DEF first
  <2>5. CASE here = {}
    BY <1>2, <1>4, <2>3, <2>5
  <2>6. CASE here # {}
    <3>1. here \subseteq Nat
      BY <2>4
    <3>2. PICK x \in here : \A y \in here : ~(<<y, x>> \in Less)
      <4>1. IsWellFoundedOn(Less, Nat)
        BY NatLessThanWellFounded DEF OpToRel
      <4>2. QED
        BY <2>6, <3>1, <4>1, WFMin
    <3>3. ASSUME NEW y \in here PROVE x <= y
      <4>1. x \in Nat /\ y \in Nat /\ ~(<<y, x>> \in Less)
        BY <3>1, <3>2
      <4> HIDE DEF here
      <4>2. QED
        BY <4>1
    <3> HIDE DEF here
    <3>4. PICK i \in here : (\A j \in here : i <= j) /\ NextKey = KeyOrder[i]
      BY <1>2, <1>4, <2>6, <3>3
    <3>5. /\ NextKey \in Range(KeyOrder) /\ Present(m, NextKey) /\ Pos(NextKey) = i
          /\ NextKey # Null /\ i >= first /\ i \in Nat
      BY <2>4, <3>4, KeyFacts
    <3>6. key # Null => Pos(NextKey) > Pos(key)
      BY <2>2, <3>5
    <3>7. \A k \in Range(KeyOrder) :
            Present(m, k) /\ (key = Null \/ Pos(k) > Pos(key)) => Pos(k) >= Pos(NextKey)
      <4> SUFFICES ASSUME NEW k \in Range(KeyOrder), Present(m, k),
                          key = Null \/ Pos(k) > Pos(key)
                   PROVE  Pos(k) >= Pos(NextKey)
        OBVIOUS
      <4>1. Pos(k) \in here /\ Pos(k) \in Nat
        BY <2>3, PosFacts
      <4>2. i <= Pos(k)
        BY <3>4, <4>1
      <4>3. QED
        BY <3>5, <4>1, <4>2
    <3>8. QED
      BY <1>4, <3>5, <3>6, <3>7
  <2>7. QED
    BY <2>5, <2>6
<1>5. QED
  BY <1>3, <1>4

LEMMA LoopTypeStep ==
  ASSUME MapType, LoopType, ElementInv, [Next]_vars
  PROVE  LoopType'
<1>0. tool' = tool /\ Maps' = Maps
  BY ToolKept
<1>1. CASE UNCHANGED <<phase, group, key, cur, prev, out, lines>>
  BY <1>0, <1>1 DEF LoopType, Current
<1>2. CASE WakeUp
  <2>1. /\ phase' = "walk" /\ group' = 1 /\ key' = Null
        /\ UNCHANGED <<cur, prev, out, lines>> /\ phase = "sleep"
    BY <1>2 DEF WakeUp
  <2>2. 1 \in 1..Len(tool.loop)
    BY LoopFacts DEF MapType
  <2>3. QED
    BY <1>0, <2>1, <2>2 DEF LoopType
<1>3. CASE Walk
  <2>0. /\ UNCHANGED <<prev, out, lines>> /\ phase = "walk"
        /\ cur = <<>> /\ cur' = <<>> /\ cur' \in Seq(Nat)
        /\ group \in 1..Len(tool.loop) /\ Len(tool.loop) \in Nat \ {0}
    <3>1. UNCHANGED <<prev, out, lines>> /\ phase = "walk" /\ (cur' = <<>> \/ cur' = cur)
      BY <1>3 DEF Walk
    <3>2. cur = <<>> /\ cur \in Seq(Nat) /\ group \in 1..Len(tool.loop)
      BY <3>1 DEF LoopType
    <3>3. Len(tool.loop) \in Nat \ {0}
      BY LoopFacts DEF MapType
    <3>4. QED
      BY <3>1, <3>2, <3>3
  <2>1. CASE NextKey # Null /\ phase' = "read" /\ key' = NextKey /\ group' = group
    <3>1. NextKey \in Keys /\ (Current.cells <=> NextKey = Cell)
      BY <2>1, NextKeyFacts, KeyFacts
    <3>2. Current' = Current
      BY <1>0, <2>1 DEF Current
    <3>3. Len(cur') < Len(Current.maps)
      BY <2>0, CurrentFacts
    <3>4. QED
      BY <1>0, <2>0, <2>1, <3>1, <3>2, <3>3 DEF LoopType
  <2>2. CASE group < Len(tool.loop) /\ group' = group + 1 /\ key' = Null /\ phase' = phase
    <3>1. group' \in 1..Len(tool.loop)
      BY <2>0, <2>2
    <3>2. QED
      BY <1>0, <2>0, <2>2, <3>1 DEF LoopType
  <2>3. CASE phase' = "sleep" /\ group' = 1 /\ key' = Null
    <3>1. group' \in 1..Len(tool.loop)
      BY <2>0, <2>3
    <3>2. QED
      BY <1>0, <2>0, <2>3, <3>1 DEF LoopType
  <2>4. QED
    BY <1>3, <2>1, <2>2, <2>3 DEF Walk
<1>4. CASE Read
  <2>1. CASE Reads
    <3>1. Current' = Current
      BY <1>0, <2>1 DEF Reads, Current
    <3>2. Len(cur') < Len(Current.maps)
      BY <2>1 DEF Reads
    <3>3. QED
      BY <1>0, <2>1, <3>1, <3>2 DEF LoopType, Reads
  <2>2. ASSUME NEW vals \in Seq(Nat), Prints(vals) PROVE LoopType'
    <3>1. Current' = Current
      BY <1>0, <2>2 DEF Prints, Current
    <3>2. cur' \in Seq(Nat)
      BY <2>2 DEF Prints
    <3>3. QED
      BY <1>0, <2>2, <3>1, <3>2 DEF LoopType, Prints
  <2>3. QED
    BY <1>4, <2>1, <2>2, ReadMoves
<1>5. QED
  BY <1>1, <1>2, <1>3, <1>4, Moves, ProbeFrame DEF vars

-----------------------------------------------------------------------------
(* Counts *)

LEMMA DivFacts ==
  ASSUME NEW u \in Nat \ {0}, NEW x \in Nat, NEW d \in Nat
  PROVE  /\ d \div u \in Nat /\ u * x \in Nat
         /\ u * (x + d \div u) \in Nat
         /\ u * (x + d \div u) <= u * x + d
         /\ u * x + d - (u - 1) <= u * (x + d \div u)
<1> DEFINE q == d \div u
           r == d % u
<1>1. q \in Int /\ r \in 0..(u - 1) /\ d = u * q + r
  OBVIOUS
<1> HIDE DEF q, r
<1>2. q \in Nat
  BY <1>1
<1>3. u * (x + q) = u * x + u * q /\ u * x \in Nat /\ u * q \in Nat
  BY <1>2
<1>4. QED
  BY <1>1, <1>2, <1>3 DEF q

LEMMA TimesNat ==
  ASSUME NEW a \in Nat, NEW b \in Nat PROVE a * b \in Nat
OBVIOUS

LEMMA ModFacts ==
  ASSUME NEW w \in Nat \ {0}, NEW d \in Nat
  PROVE  d % w \in Nat /\ d % w <= d /\ (d < w => d % w = d)
<1>1. d % w \in Nat
  OBVIOUS
<1>2. d % w <= d
  OBVIOUS
<1>3. d < w => d % w = d
  OBVIOUS
<1>4. QED
  BY <1>1, <1>2, <1>3

\* Facts about a place.
LEMMA PlaceFacts ==
  ASSUME MapType, LoopType, NEW p, NEW n, NEW k \in Keys, NEW m \in Maps, Place(p, n, k, m)
  PROVE  /\ n \in Nat \ {0} /\ p \in Nat /\ tool.loop[p].unit \in Nat \ {0}
         /\ out[m][k] \in Nat /\ prev[m][k] \in Nat /\ lines[m][k] \in Nat
         /\ acc[m][k].sum \in Nat /\ acc[m][k].at \in Nat /\ Added(m, k) \in Nat
         /\ Seen(p, n, k, m) \in Nat /\ Len(cur) \in Nat
         /\ p = group => m \in Range(Current.maps) /\ n \in 1..Len(Current.maps)
         /\ m \in Range(Current.maps) => p = group
         /\ \A a \in Accs : a.map = m => /\ tool.loop[p].cells <=> a.key = "cell"
                                         /\ ~tool.loop[p].guarded => a.create = "array"
<1>1. /\ p \in DOMAIN tool.loop /\ n \in DOMAIN tool.loop[p].maps /\ m = tool.loop[p].maps[n]
      /\ tool \in Tools
  BY DEF Place, MapType
<1>2. /\ DOMAIN tool.loop = 1..Len(tool.loop) /\ Len(tool.loop) \in Nat
      /\ tool.loop[p] \in GroupType
      /\ DOMAIN tool.loop[p].maps = 1..Len(tool.loop[p].maps)
      /\ Len(tool.loop[p].maps) \in Nat
  BY <1>1, LoopFacts
<1>3. n \in Nat \ {0} /\ p \in Nat /\ tool.loop[p].unit \in Nat \ {0}
  BY <1>1, <1>2 DEF GroupType
<1>4. /\ out[m][k] \in Nat /\ prev[m][k] \in Nat /\ lines[m][k] \in Nat
      /\ acc[m][k].sum \in Nat /\ acc[m][k].at \in Nat /\ Added(m, k) \in Nat
  <2>1. /\ prev \in [Maps -> [Keys -> Nat]]
        /\ out \in [Maps -> [Keys -> Nat]]
        /\ lines \in [Maps -> [Keys -> Nat]]
    BY DEF LoopType
  <2>2. /\ acc \in [Maps -> [Keys -> [at : Nat, sum : Nat]]]
        /\ fed \in [Maps -> [Keys -> Nat]]
        /\ landed \in [Maps -> [Keys -> Nat]]
    BY DEF MapType
  <2>3. fed[m][k] \in Nat /\ landed[m][k] \in Nat
    BY <2>2
  <2>4. acc[m][k] \in [at : Nat, sum : Nat]
    BY <2>2
  <2>5. out[m][k] \in Nat /\ prev[m][k] \in Nat /\ lines[m][k] \in Nat
    BY <2>1
  <2>6. QED
    BY <2>3, <2>4, <2>5 DEF Added
<1>5. Len(cur) \in Nat /\ cur \in Seq(Nat)
  BY LenProperties DEF LoopType
<1>6. Seen(p, n, k, m) \in Nat
  <2>1. CASE Reading(p, n, k)
    <3>1. n \in 1..Len(cur)
      BY <1>3, <1>5, <2>1 DEF Reading
    <3>2. cur[n] \in Nat
      BY <1>5, <3>1, ElementOfSeq
    <3>3. QED
      BY <2>1, <3>2 DEF Seen
  <2>2. CASE ~Reading(p, n, k)
    BY <1>4, <2>2 DEF Seen
  <2>3. QED
    BY <2>1, <2>2
<1>7. p = group => m \in Range(Current.maps) /\ n \in 1..Len(Current.maps)
  BY <1>1, <1>2 DEF Current, Range
<1>8. m \in Range(Current.maps) => p = group
  <2>1. ASSUME m \in Range(Current.maps) PROVE p = group
    <3>1. PICK j \in DOMAIN Current.maps : m = Current.maps[j]
      BY <2>1 DEF Range
    <3>2. group \in DOMAIN tool.loop
      BY CurrentFacts
    <3>3. j \in DOMAIN tool.loop[group].maps /\ tool.loop[group].maps[j] = m
      BY <3>1 DEF Current
    <3>4. \A q, r \in DOMAIN tool.loop :
             \A i \in DOMAIN tool.loop[q].maps, l \in DOMAIN tool.loop[r].maps :
                tool.loop[q].maps[i] = tool.loop[r].maps[l] => q = r
      BY <1>1, LoopFacts
    <3>5. QED
      BY <1>1, <3>2, <3>3, <3>4
  <2>2. QED
    BY <2>1
<1>9. ASSUME NEW a \in Accs, a.map = m
      PROVE  /\ tool.loop[p].cells <=> a.key = "cell"
             /\ ~tool.loop[p].guarded => a.create = "array"
  <2>1. PICK b \in Accs : /\ b.map = tool.loop[p].maps[n]
                          /\ tool.loop[p].cells <=> b.key = "cell"
                          /\ ~tool.loop[p].guarded => b.create = "array"
    BY <1>1, LoopFacts
  <2>2. a = b
    BY <1>1, <1>9, <2>1, ToolFacts
  <2>3. QED
    BY <2>1, <2>2
<1>10. QED
  BY <1>3, <1>4, <1>5, <1>6, <1>7, <1>8, <1>9

\* What a step means to a place: nothing is read or printed there,
Still(p, n, k, m) ==
    /\ Seen(p, n, k, m)' = Seen(p, n, k, m)
    /\ prev'[m][k] = prev[m][k] /\ out'[m][k] = out[m][k] /\ lines'[m][k] = lines[m][k]

\* it is read,
ReadsAt(p, n, k, m) ==
    /\ acc' = acc /\ fed' = fed /\ landed' = landed
    /\ Seen(p, n, k, m) = prev[m][k] /\ Seen(p, n, k, m)' = acc[m][k].sum
    /\ prev'[m][k] = prev[m][k] /\ out'[m][k] = out[m][k] /\ lines'[m][k] = lines[m][k]

\* or it is printed.
PrintsAt(p, n, k, m, vals) ==
    /\ acc' = acc /\ fed' = fed /\ landed' = landed /\ p = group /\ k = key /\ Remembers /\ phase = "read"
    /\ \/ vals[n] = Seen(p, n, k, m)
       \/ vals[n] = acc[m][k].sum /\ Seen(p, n, k, m) = prev[m][k]
    /\ vals[n] \in Nat /\ n \in DOMAIN Current.maps /\ m = Current.maps[n]
    /\ prev'[m][k] = vals[n] /\ Seen(p, n, k, m)' = vals[n]
    /\ out'[m][k] = SumOf(vals, n) /\ lines'[m][k] = LineOf(vals, n)

LEMMA PlaceMoves ==
  ASSUME MapType, LoopType, ElementInv, [Next]_vars,
         NEW p, NEW n, NEW k \in Keys, NEW m \in Maps, Place(p, n, k, m)
  PROVE  \/ Still(p, n, k, m)
         \/ Reads /\ ReadsAt(p, n, k, m)
         \/ \E vals \in Seq(Nat) : Prints(vals) /\ PrintsAt(p, n, k, m, vals)
<1>0. /\ n \in Nat \ {0} /\ p \in Nat /\ Len(cur) \in Nat /\ cur \in Seq(Nat)
      /\ p = group => m \in Range(Current.maps) /\ n \in 1..Len(Current.maps)
      /\ m \in Range(Current.maps) => p = group
  BY PlaceFacts DEF LoopType
<1>1. CASE UNCHANGED <<phase, group, key, cur, prev, out, lines>>
  BY <1>1 DEF Still, Seen, Reading
<1>2. CASE WakeUp \/ Walk
  <2>1. phase # "read" /\ UNCHANGED <<prev, out, lines>> /\ (cur' = cur \/ cur' = <<>>)
    BY <1>2 DEF WakeUp, Walk
  <2>2. cur' = <<>> /\ Len(cur') = 0
    BY <2>1 DEF LoopType
  <2>3. ~Reading(p, n, k)' /\ ~Reading(p, n, k)
    BY <1>0, <2>1, <2>2 DEF Reading
  <2>4. QED
    BY <2>1, <2>3 DEF Still, Seen
<1>3. CASE Read
  <2>0. acc' = acc /\ fed' = fed /\ landed' = landed /\ phase = "read"
    BY <1>3, LoopFrame DEF Read
  <2>1. CASE Reads
    <3>1. UNCHANGED <<phase, group, key, prev, out, lines>> /\ Len(cur') = Len(cur) + 1
      BY <2>1 DEF Reads
    <3>2. CASE p = group /\ k = key /\ n = Len(cur) + 1
      <4>1. ~Reading(p, n, k) /\ Reading(p, n, k)'
        BY <1>0, <2>0, <3>1, <3>2 DEF Reading
      <4>2. cur'[n] = acc[m][k].sum
        <5>1. cur'[Len(cur')] = acc[Current.maps[Len(cur')]][key].sum
          BY <2>1 DEF Reads
        <5>2. Current.maps[n] = m
          BY <3>2 DEF Place, Current
        <5>3. QED
          BY <3>1, <3>2, <5>1, <5>2
      <4>3. ReadsAt(p, n, k, m)
        BY <2>0, <3>1, <4>1, <4>2 DEF ReadsAt, Seen
      <4>4. QED
        BY <2>1, <4>3
    <3>3. CASE ~(p = group /\ k = key /\ n = Len(cur) + 1)
      <4>1. Reading(p, n, k)' <=> Reading(p, n, k)
        BY <1>0, <2>0, <3>1, <3>3 DEF Reading
      <4>2. Reading(p, n, k) => cur'[n] = cur[n]
        <5>1. Reading(p, n, k) => n \in 1..Len(cur)
          BY <1>0 DEF Reading
        <5>2. QED
          BY <2>1, <5>1 DEF Reads
      <4>3. QED
        BY <3>1, <4>1, <4>2 DEF Still, Seen
    <3>4. QED
      BY <3>2, <3>3
  <2>2. ASSUME NEW vals \in Seq(Nat), Prints(vals)
        PROVE  Still(p, n, k, m) \/ PrintsAt(p, n, k, m, vals)
    <3>0. phase' = "walk" /\ ~Reading(p, n, k)'
      BY <2>2 DEF Prints, Reading
    <3>1. CASE p = group /\ k = key
      <4>1. n \in DOMAIN Current.maps /\ m = Current.maps[n] /\ Remembers /\ ~LeftOut
        BY <3>1 DEF Place, Current, Remembers, LeftOut
      <4>2. n \in 1..Len(vals) /\ Len(cur) = Len(vals) - 1 /\ Len(vals) \in Nat
        BY <1>0, <2>2, <3>1, LenProperties DEF Prints
      <4>3. vals[n] \in Nat
        BY <4>2, ElementOfSeq
      <4>4. \/ vals[n] = Seen(p, n, k, m)
            \/ vals[n] = acc[m][k].sum /\ Seen(p, n, k, m) = prev[m][k]
        <5>1. CASE n <= Len(cur)
          <6>1. Reading(p, n, k) /\ n \in 1..Len(cur)
            BY <1>0, <2>0, <3>1, <5>1 DEF Reading
          <6>2. QED
            BY <2>2, <6>1 DEF Prints, Seen
        <5>2. CASE ~(n <= Len(cur))
          <6>1. ~Reading(p, n, k) /\ n = Len(vals)
            BY <1>0, <4>2, <5>2 DEF Reading
          <6>2. vals[n] = acc[m][k].sum
            BY <2>2, <3>1, <4>1, <6>1 DEF Prints
          <6>3. QED
            BY <6>1, <6>2 DEF Seen
        <5>3. QED
          BY <5>1, <5>2
      <4>5. /\ prev'[m][key] = IF Remembers THEN vals[n] ELSE prev[m][key]
            /\ lines'[m][key] = IF Remembers THEN LineOf(vals, n) ELSE lines[m][key]
            /\ out'[m][key] = IF LeftOut THEN out[m][key] ELSE SumOf(vals, n)
        BY <2>2, <4>1 DEF Prints
      <4>6. prev'[m][k] = vals[n] /\ lines'[m][k] = LineOf(vals, n) /\ out'[m][k] = SumOf(vals, n)
        BY <3>1, <4>1, <4>5
      <4>7. Seen(p, n, k, m)' = vals[n]
        BY <3>0, <4>6 DEF Seen
      <4>8. QED
        BY <2>0, <3>1, <4>1, <4>3, <4>4, <4>6, <4>7 DEF PrintsAt
    <3>2. CASE ~(p = group /\ k = key)
      <4>1. m \notin Range(Current.maps) \/ k # key
        BY <1>0, <3>2
      <4>2. prev'[m][k] = prev[m][k] /\ out'[m][k] = out[m][k] /\ lines'[m][k] = lines[m][k]
        BY <2>2, <4>1 DEF Prints
      <4>3. ~Reading(p, n, k)
        BY <3>2 DEF Reading
      <4>4. QED
        BY <3>0, <4>2, <4>3 DEF Still, Seen
    <3>3. QED
      BY <3>1, <3>2
  <2>3. QED
    BY <1>3, <2>1, <2>2, ReadMoves
<1>4. QED
  BY <1>1, <1>2, <1>3, Moves, ProbeFrame DEF vars

\* The difference that is printed is no more than what was read beyond the last.
LEMMA DiffBound ==
  ASSUME NEW now \in Nat, NEW last \in Nat, ~Current.guarded => last <= now
  PROVE  Diff(now, last) \in Nat /\ Diff(now, last) <= Excess(now, last)
<1>1. CASE now > last
  <2>1. now - last \in Nat /\ Word \in Nat \ {0}
    BY <1>1, ConstantsAssumption
  <2>2. (now - last) % Word \in Nat /\ (now - last) % Word <= now - last
    BY <2>1, ModFacts
  <2>3. Diff(now, last) = (now - last) % Word
    BY <1>1 DEF Diff
  <2>4. Excess(now, last) = now - last
    BY <1>1 DEF Excess
  <2>5. QED
    BY <2>2, <2>3, <2>4
<1>2. CASE ~(now > last)
  <2>1. Diff(now, last) = 0
    <3>1. CASE Current.guarded
      BY <1>2, <3>1 DEF Diff
    <3>2. CASE ~Current.guarded
      <4>1. now - last = 0
        BY <1>2, <3>2
      <4>2. 0 % Word = 0
        BY ConstantsAssumption
      <4>3. QED
        BY <3>2, <4>1, <4>2 DEF Diff
    <3>3. QED
      BY <3>1, <3>2
  <2>2. QED
    BY <1>2, <2>1 DEF Excess
<1>3. QED
  BY <1>1, <1>2

LEMMA ExcessFacts ==
  ASSUME NEW a \in Nat, NEW b \in Nat, NEW c \in Nat
  PROVE  /\ Excess(a, b) \in Nat /\ Excess(a, a) = 0
         /\ Excess(a + 1, b) <= Excess(a, b) + 1
         /\ Excess(1, b) <= Excess(a, b) + 1
<1>1. Excess(a, b) \in Nat /\ Excess(a, a) = 0
  BY DEF Excess
<1>2. Excess(a + 1, b) <= Excess(a, b) + 1
  BY DEF Excess
<1>3. Excess(1, b) <= Excess(a, b) + 1
  BY DEF Excess
<1>4. QED
  BY <1>1, <1>2, <1>3

\* What is printed for a place, when the loop has read the value v.
LEMMA PrintedSum ==
  ASSUME MapType, LoopType, ElementInv, NEW p, NEW n, NEW k \in Keys, NEW m \in Maps,
         Place(p, n, k, m), CountOk(p, n, k, m),
         NEW vals \in Seq(Nat), Prints(vals), PrintsAt(p, n, k, m, vals)
  PROVE  /\ tool.loop[p].unit * SumOf(vals, n) + Excess(acc[m][k].sum, vals[n]) <= Added(m, k)
         /\ ~tool.loop[p].guarded => prev[m][k] <= vals[n] /\ vals[n] <= acc[m][k].sum
         /\ DiffOf(vals, n) = Diff(vals[n], prev[m][k]) /\ DiffOf(vals, n) \in Nat
         /\ SumOf(vals, n) = out[m][k] +
               (IF Shown(vals) THEN DiffOf(vals, n) \div tool.loop[p].unit ELSE 0)
         /\ SumOf(vals, n) \in Nat
<1> DEFINE u == tool.loop[p].unit
           v == vals[n]
           sum == acc[m][k].sum
           last == prev[m][k]
           d == DiffOf(vals, n)
           done == out[m][k]
           x == done + (IF Shown(vals) THEN d \div u ELSE 0)
<1>1. /\ u \in Nat \ {0} /\ done \in Nat /\ last \in Nat /\ sum \in Nat /\ Added(m, k) \in Nat
      /\ v \in Nat /\ Seen(p, n, k, m) \in Nat
  <2>1. v \in Nat
    BY DEF PrintsAt
  <2>2. QED
    BY <2>1, PlaceFacts
<1>2. /\ p = group /\ k = key /\ Remembers /\ m = Current.maps[n] /\ Current = tool.loop[p]
  BY DEF PrintsAt, Current
<1>3. d = Diff(v, last)
  BY <1>2 DEF DiffOf
<1>4. Balanced(u * done, last, v, sum, Added(m, k))
  <2>1. Balanced(u * done, last, Seen(p, n, k, m), sum, Added(m, k))
    BY DEF CountOk
  <2>2. CASE v = Seen(p, n, k, m)
    BY <2>1, <2>2
  <2>3. CASE v = sum /\ Seen(p, n, k, m) = last
    <3>1. u * done \in Nat
      BY <1>1, TimesNat
    <3>2. /\ Excess(sum, last) \in Nat /\ Excess(last, last) = 0 /\ Excess(sum, sum) = 0
      BY <1>1, ExcessFacts
    <3>3. u * done + Excess(last, last) + Excess(sum, last) <= Added(m, k)
      BY <2>1, <2>3 DEF Balanced
    <3> HIDE DEF u, sum, last, done
    <3>4. u * done + Excess(sum, last) + Excess(sum, sum) <= Added(m, k)
      BY <1>1, <3>1, <3>2, <3>3
    <3>5. QED
      BY <2>3, <3>4 DEF Balanced
  <2>4. QED
    BY <2>2, <2>3 DEF PrintsAt
<1>5. ~tool.loop[p].guarded => last <= v /\ v <= sum
  BY <1>1 DEF CountOk, PrintsAt
<1>6. d \in Nat /\ d <= Excess(v, last)
  <2>1. ~Current.guarded => last <= v
    BY <1>2, <1>5
  <2> HIDE DEF v, last, d
  <2>2. Diff(v, last) \in Nat /\ Diff(v, last) <= Excess(v, last)
    BY <1>1, <2>1, DiffBound
  <2>3. QED
    BY <1>3, <2>2
<1>7. SumOf(vals, n) = IF u * x > Added(m, k) THEN Added(m, k) + 1 ELSE x
  BY <1>2 DEF SumOf
<1> HIDE DEF u, v, sum, last, d, done
<1>8. x \in Nat /\ u * x \in Nat /\ u * x <= u * done + d /\ u * done \in Nat
  <2>1. /\ d \div u \in Nat /\ u * done \in Nat /\ u * (done + d \div u) \in Nat
        /\ u * (done + d \div u) <= u * done + d
    BY <1>1, <1>6, DivFacts
  <2>2. CASE Shown(vals)
    <3>1. x = done + d \div u
      BY <2>2
    <3>2. \A q \in Nat : done + q \in Nat
      BY <1>1
    <3>3. done + d \div u \in Nat
      BY <2>1, <3>2, Zenon
    <3> HIDE DEF x
    <3>4. QED
      BY <2>1, <3>1, <3>3, Zenon
  <2>3. CASE ~Shown(vals)
    <3>1. x = done
      BY <1>1, <2>3
    <3>2. QED
      BY <1>1, <1>6, <2>1, <3>1
  <2>4. QED
    BY <2>2, <2>3
<1> HIDE DEF x
<1>9. Excess(v, last) \in Nat /\ Excess(sum, v) \in Nat
  BY <1>1, ExcessFacts
<1>10. u * x + Excess(sum, v) <= Added(m, k)
  <2>1. u * done + Excess(v, last) + Excess(sum, v) <= Added(m, k)
    BY <1>4 DEF Balanced
  <2>2. \A a, b, e, s, f \in Nat : a <= b + d /\ d <= e /\ b + e + s <= f => a + s <= f
    BY <1>6
  <2>3. QED
    BY <1>1, <1>6, <1>8, <1>9, <2>1, <2>2, Zenon
<1>11. SumOf(vals, n) = x
  <2>0. \A a, s, f \in Nat : a + s <= f => ~(a > f)
    OBVIOUS
  <2>1. ~(u * x > Added(m, k))
    BY <1>1, <1>8, <1>9, <1>10, <2>0, Zenon
  <2>2. QED
    BY <1>7, <2>1
<1>12. QED
  BY <1>3, <1>5, <1>6, <1>8, <1>10, <1>11 DEF u, v, sum, last, d, done, x

LEMMA CountInvStep ==
  ASSUME CoreInv, CountInv, [Next]_vars
  PROVE  CountInv'
<1>0. tool' = tool /\ Maps' = Maps
  BY ToolKept
<1>a. MapType /\ ProbeType /\ LoopType /\ ProbeInv /\ ElementInv
  BY DEF CoreInv
<1> SUFFICES ASSUME NEW p, NEW n, NEW k \in Keys, NEW m \in Maps, Place(p, n, k, m)
             PROVE  CountOk(p, n, k, m)'
  BY <1>0 DEF CountInv, Place
<1>1. CountOk(p, n, k, m)
  BY DEF CountInv, Place
<1> DEFINE u == tool.loop[p].unit
           sum == acc[m][k].sum
           seen == Seen(p, n, k, m)
<1>2. /\ u \in Nat \ {0} /\ out[m][k] \in Nat /\ prev[m][k] \in Nat /\ sum \in Nat
      /\ Added(m, k) \in Nat /\ seen \in Nat /\ u * out[m][k] \in Nat
  <2>1. /\ u \in Nat \ {0} /\ out[m][k] \in Nat /\ prev[m][k] \in Nat /\ sum \in Nat
        /\ Added(m, k) \in Nat /\ seen \in Nat
    BY <1>a, PlaceFacts
  <2>2. u * out[m][k] \in Nat
    BY <2>1, TimesNat
  <2>3. QED
    BY <2>1, <2>2
<1>3. CASE Still(p, n, k, m) /\ acc' = acc /\ fed' = fed /\ landed' = landed
  BY <1>0, <1>1, <1>3 DEF CountOk, Still, Added
<1>4. ASSUME NEW o \in Owners, NEW mm \in Maps, NEW kk \in Keys, AddStep(o, mm, kk),
             CountsType(fed'), CountsType(landed'), Still(p, n, k, m)
      PROVE  CountOk(p, n, k, m)'
  <2>0. Added(m, k)' \in Nat
    BY <1>4 DEF Added, CountsType
  <2>1. /\ u * out[m][k] + Excess(seen, prev[m][k]) + Excess(sum, seen) <= Added(m, k)
        /\ ~tool.loop[p].guarded => prev[m][k] <= seen /\ seen <= sum
    BY <1>1 DEF CountOk, Balanced
  <2>2. Excess(seen, prev[m][k]) \in Nat /\ Excess(sum, seen) \in Nat
    BY <1>2, ExcessFacts
  <2>3. ASSUME Excess(acc'[m][k].sum, seen) \in Nat,
               \/ /\ Excess(acc'[m][k].sum, seen) <= Excess(sum, seen) + 1
                  /\ Added(m, k)' >= Added(m, k) + 1
               \/ /\ acc'[m][k].sum = sum
                  /\ Added(m, k)' >= Added(m, k),
               ~tool.loop[p].guarded => seen <= acc'[m][k].sum
        PROVE  CountOk(p, n, k, m)'
    <3>1. u * out[m][k] + Excess(seen, prev[m][k]) + Excess(acc'[m][k].sum, seen)
            <= Added(m, k)'
      <4> HIDE DEF sum, seen, u
      <4>1. QED
        BY <1>2, <2>0, <2>1, <2>2, <2>3
    <3>2. Balanced(u * out'[m][k], prev'[m][k], Seen(p, n, k, m)', acc'[m][k].sum, Added(m, k)')
      BY <1>4, <3>1 DEF Balanced, Still
    <3>3. ~tool.loop[p].guarded =>
             prev'[m][k] <= Seen(p, n, k, m)' /\ Seen(p, n, k, m)' <= acc'[m][k].sum
      BY <1>4, <2>1, <2>3 DEF Still
    <3>4. QED
      BY <1>0, <3>2, <3>3 DEF CountOk
  <2>4. CASE StaysAt(m, k)
    <3>1. acc'[m][k].sum = sum /\ Added(m, k)' >= Added(m, k)
      BY <2>4 DEF StaysAt
    <3>2. QED
      BY <2>1, <2>2, <2>3, <3>1
  <2>5. CASE CountsAt(m, k)
    <3>1. acc'[m][k].sum = sum + 1 /\ Added(m, k)' >= Added(m, k) + 1
      BY <2>5 DEF CountsAt
    <3>2. /\ Excess(sum + 1, seen) \in Nat
          /\ Excess(sum + 1, seen) <= Excess(sum, seen) + 1
      <4> HIDE DEF sum, seen
      <4>1. sum + 1 \in Nat
        BY <1>2
      <4>2. QED
        BY <1>2, <4>1, ExcessFacts
    <3>3. ~tool.loop[p].guarded => seen <= sum + 1
      <4> HIDE DEF sum, seen
      <4>1. QED
        BY <1>2, <2>1
    <3>4. QED
      BY <2>3, <3>1, <3>2, <3>3
  <2>6. CASE RestartsAt(m, k)
    <3>1. acc'[m][k].sum = 1 /\ Added(m, k)' >= Added(m, k) + 1
      BY <2>6 DEF RestartsAt
    <3>2. Excess(1, seen) \in Nat /\ Excess(1, seen) <= Excess(sum, seen) + 1
      <4> HIDE DEF sum, seen
      <4>1. QED
        BY <1>2, ExcessFacts
    <3>3. tool.loop[p].guarded
      <4>1. PICK a \in Accs : a.map = m
        BY DEF Maps
      <4>2. a.create = "ANY" /\ (~tool.loop[p].guarded => a.create = "array")
        BY <1>a, <2>6, <4>1, PlaceFacts DEF RestartsAt
      <4>3. QED
        BY <4>2
    <3>4. QED
      BY <2>3, <3>1, <3>2, <3>3
  <2>7. QED
    BY <1>a, <1>4, <2>4, <2>5, <2>6, EffectAt
<1>5. CASE ReadsAt(p, n, k, m)
  <2>1. Balanced(u * out[m][k], prev[m][k], sum, sum, Added(m, k))
    <3>1. u * out[m][k] + Excess(prev[m][k], prev[m][k]) + Excess(sum, prev[m][k]) <= Added(m, k)
      BY <1>1, <1>5 DEF CountOk, Balanced, ReadsAt
    <3>2. /\ Excess(prev[m][k], prev[m][k]) = 0 /\ Excess(sum, sum) = 0
          /\ Excess(sum, prev[m][k]) \in Nat
      BY <1>2, ExcessFacts
    <3> HIDE DEF sum, u
    <3>3. u * out[m][k] + Excess(sum, prev[m][k]) + Excess(sum, sum) <= Added(m, k)
      BY <1>2, <3>1, <3>2
    <3>4. QED
      BY <3>3 DEF Balanced
  <2>2. ~tool.loop[p].guarded => prev[m][k] <= sum /\ sum <= sum
    BY <1>1, <1>2, <1>5 DEF CountOk, ReadsAt
  <2>3. QED
    BY <1>0, <1>5, <2>1, <2>2 DEF CountOk, ReadsAt, Added
<1>6. ASSUME NEW vals \in Seq(Nat), Prints(vals), PrintsAt(p, n, k, m, vals)
      PROVE  CountOk(p, n, k, m)'
  <2>1. /\ u * SumOf(vals, n) + Excess(sum, vals[n]) <= Added(m, k)
        /\ ~tool.loop[p].guarded => prev[m][k] <= vals[n] /\ vals[n] <= sum
        /\ SumOf(vals, n) \in Nat
    BY <1>a, <1>1, <1>6, PrintedSum
  <2>2. vals[n] \in Nat
    BY <1>6 DEF PrintsAt
  <2>3. Excess(vals[n], vals[n]) = 0 /\ Excess(sum, vals[n]) \in Nat
    BY <1>2, <2>2, ExcessFacts
  <2>4. u * SumOf(vals, n) + Excess(vals[n], vals[n]) + Excess(sum, vals[n]) <= Added(m, k)
    <3>1. u * SumOf(vals, n) \in Nat
      BY <1>2, <2>1, TimesNat
    <3> HIDE DEF sum, u
    <3>2. QED
      BY <1>2, <2>1, <2>3, <3>1
  <2>5. Balanced(u * SumOf(vals, n), vals[n], vals[n], sum, Added(m, k))
    BY <2>4 DEF Balanced
  <2>6. vals[n] <= vals[n]
    BY <2>2
  <2>7. QED
    BY <1>0, <1>6, <2>1, <2>5, <2>6 DEF CountOk, PrintsAt, Added
<1>7. Still(p, n, k, m) => CountOk(p, n, k, m)'
  BY <1>a, <1>3, <1>4, AccMoves
<1>8. QED
  BY <1>a, <1>5, <1>6, <1>7, PlaceMoves

-----------------------------------------------------------------------------
(* Remainders *)

\* What is read and not printed is the remainder of one division.
LEMMA RemainderStep ==
  ASSUME NEW u \in Nat \ {0}, NEW done \in Nat, NEW last \in Nat, NEW line \in Nat,
         NEW v \in Nat, NEW d \in Nat, v - d <= last,
         last - u * done <= (u - 1) * line
  PROVE  v - u * (done + d \div u) <= (u - 1) * (line + IF d > 0 /\ u > 1 THEN 1 ELSE 0)
<1> DEFINE a == u * done
           b == u * (done + d \div u)
           c == (u - 1) * line
<1>1. a \in Nat /\ b \in Nat /\ a + d - (u - 1) <= b
  BY DivFacts
<1>2. c \in Nat /\ last - a <= c
  BY TimesNat
<1>3. CASE d > 0 /\ u > 1
  <2>1. (u - 1) * (line + 1) = c + (u - 1)
    OBVIOUS
  <2> HIDE DEF a, b, c
  <2>2. v - b <= c + (u - 1)
    BY <1>1, <1>2
  <2>3. QED
    BY <1>3, <2>1, <2>2 DEF b
<1>4. CASE ~(d > 0 /\ u > 1)
  <2>1. a + d <= b
    <3>1. CASE u = 1
      <4> HIDE DEF a, b
      <4>1. QED
        BY <1>1, <3>1
    <3>2. CASE d = 0
      <4>1. d \div u \in Nat
        BY DivFacts
      <4> DEFINE q == d \div u
      <4>2. q \in Nat
        BY <4>1
      <4> HIDE DEF q
      <4>3. u * (done + q) = u * done + u * q /\ u * q \in Nat /\ u * done \in Nat
        BY <4>2
      <4>4. QED
        BY <3>2, <4>3 DEF q
    <3>3. QED
      BY <1>4, <3>1, <3>2
  <2>2. (u - 1) * (line + 0) = c
    OBVIOUS
  <2> HIDE DEF a, b, c
  <2>3. v - b <= c
    BY <1>1, <1>2, <2>1
  <2>4. QED
    BY <1>4, <2>2, <2>3 DEF b
<1>5. QED
  BY <1>3, <1>4

LEMMA RemainderInvStep ==
  ASSUME CoreInv, CountInv, RemainderInv, NoOverflow, [Next]_vars
  PROVE  RemainderInv'
<1>0. tool' = tool /\ Maps' = Maps
  BY ToolKept
<1>a. MapType /\ ProbeType /\ LoopType /\ ProbeInv /\ ElementInv /\ cur \in Seq(Nat)
  BY DEF CoreInv, LoopType
<1>1. \A i \in 1..Len(cur') : cur'[i] < Word
  <2>1. CASE cur' = cur
    BY <2>1 DEF RemainderInv
  <2>2. CASE cur' = <<>>
    BY <2>2
  <2>3. CASE Reads
    <3>1. /\ Len(cur') = Len(cur) + 1 /\ Len(cur) \in Nat
          /\ \A n \in 1..Len(cur) : cur'[n] = cur[n]
          /\ cur'[Len(cur')] = acc[Current.maps[Len(cur')]][key].sum
          /\ key \in Keys /\ Len(cur) + 1 < Len(Current.maps)
      BY <1>a, <2>3, LenProperties DEF Reads
    <3>2. Len(cur') \in DOMAIN Current.maps
      BY <1>a, <3>1, CurrentFacts
    <3>3. cur'[Len(cur')] < Word
      BY <1>a, <3>1, <3>2, CurrentFacts DEF NoOverflow
    <3>4. \A n \in 1..Len(cur) : cur'[n] < Word
      BY <3>1 DEF RemainderInv
    <3>5. \A i \in 1..Len(cur') : i \in 1..Len(cur) \/ i = Len(cur')
      BY <3>1
    <3>6. QED
      BY <3>3, <3>4, <3>5
  <2>4. Read => Reads \/ cur' = <<>>
    BY <1>a, ReadMoves DEF Prints
  <2>5. QED
    BY <2>1, <2>2, <2>3, <2>4, Moves, ProbeFrame DEF WakeUp, Walk, vars
<1>2. ASSUME NEW p, NEW n, NEW k \in Keys, NEW m \in Maps, Place(p, n, k, m),
             tool.loop[p].gate = 0
      PROVE  prev'[m][k] - tool.loop[p].unit * out'[m][k] <= (tool.loop[p].unit - 1) * lines'[m][k]
  <2>1. /\ prev[m][k] - tool.loop[p].unit * out[m][k] <= (tool.loop[p].unit - 1) * lines[m][k]
        /\ CountOk(p, n, k, m)
    BY <1>2 DEF RemainderInv, CountInv, Place
  <2>2. CASE Still(p, n, k, m) \/ ReadsAt(p, n, k, m)
    BY <2>1, <2>2 DEF Still, ReadsAt
  <2>3. ASSUME NEW vals \in Seq(Nat), Prints(vals), PrintsAt(p, n, k, m, vals)
        PROVE  prev'[m][k] - tool.loop[p].unit * out'[m][k]
                  <= (tool.loop[p].unit - 1) * lines'[m][k]
    <3> DEFINE u == tool.loop[p].unit
               v == vals[n]
               last == prev[m][k]
               d == DiffOf(vals, n)
    <3>1. /\ d = Diff(v, last) /\ d \in Nat
          /\ ~tool.loop[p].guarded => last <= v
          /\ SumOf(vals, n) = out[m][k] + (IF Shown(vals) THEN d \div u ELSE 0)
      BY <1>a, <1>2, <2>1, <2>3, PrintedSum
    <3>2. Current = tool.loop[p] /\ m = Current.maps[n] /\ k = key
      BY <2>3 DEF PrintsAt, Current
    <3>3. Shown(vals)
      BY <1>2, <3>2 DEF Shown
    <3>4. /\ u \in Nat \ {0} /\ out[m][k] \in Nat /\ last \in Nat /\ lines[m][k] \in Nat
          /\ acc[m][k].sum \in Nat
      BY <1>a, <1>2, PlaceFacts
    <3>5. v \in Nat
      BY <2>3 DEF PrintsAt
    <3>6. v < Word \/ v = last
      <4>1. CASE v = acc[m][k].sum
        BY <4>1 DEF NoOverflow
      <4>2. CASE v = Seen(p, n, k, m) /\ Reading(p, n, k)
        <5>0. n \in Nat \ {0} /\ Len(cur) \in Nat
          BY <1>a, <1>2, PlaceFacts
        <5>1. n \in 1..Len(cur)
          BY <4>2, <5>0 DEF Reading
        <5>2. QED
          BY <4>2, <5>1 DEF Seen, RemainderInv
      <4>3. CASE v = Seen(p, n, k, m) /\ ~Reading(p, n, k)
        BY <4>3 DEF Seen
      <4>4. QED
        BY <2>3, <4>1, <4>2, <4>3 DEF PrintsAt
    <3> HIDE DEF u, v, last, d
    <3>7. v - d <= last
      <4>1. CASE Current.guarded /\ v <= last
        <5>1. d = 0
          BY <3>1, <4>1 DEF Diff
        <5>2. QED
          BY <3>4, <3>5, <4>1, <5>1
      <4>2. CASE ~(Current.guarded /\ v <= last)
        <5>1. last <= v
          BY <3>1, <3>2, <3>4, <3>5, <4>2
        <5>0. Word \in Nat \ {0}
          BY ConstantsAssumption
        <5>2. v - last \in Nat /\ v - last < Word /\ Word \in Nat \ {0}
          BY <3>4, <3>5, <3>6, <5>0, <5>1
        <5>3. (v - last) % Word = v - last
          BY <5>2, ModFacts
        <5>4. d = v - last
          BY <3>1, <4>2, <5>3 DEF Diff
        <5>5. QED
          BY <3>4, <3>5, <5>4
      <4>3. QED
        BY <4>1, <4>2
    <3>8. last - u * out[m][k] <= (u - 1) * lines[m][k]
      BY <2>1 DEF u, last
    <3>9. v - u * (out[m][k] + d \div u)
            <= (u - 1) * (lines[m][k] + IF d > 0 /\ u > 1 THEN 1 ELSE 0)
      BY <3>1, <3>4, <3>5, <3>7, <3>8, RemainderStep
    <3>10. /\ prev'[m][k] = v /\ out'[m][k] = out[m][k] + d \div u
           /\ lines'[m][k] = lines[m][k] + IF d > 0 /\ u > 1 THEN 1 ELSE 0
      <4>1. lines'[m][k] = LineOf(vals, n) /\ prev'[m][k] = v /\ out'[m][k] = SumOf(vals, n)
        BY <2>3 DEF PrintsAt, v
      <4>2. LineOf(vals, n) = lines[m][k] + IF d > 0 /\ u > 1 THEN 1 ELSE 0
        BY <3>2 DEF LineOf, d, u
      <4>3. SumOf(vals, n) = out[m][k] + d \div u
        BY <3>1, <3>3
      <4>4. QED
        BY <4>1, <4>2, <4>3
    <3>11. QED
      BY <3>9, <3>10 DEF u
  <2>4. QED
    BY <1>a, <1>2, <2>2, <2>3, PlaceMoves
<1>3. ASSUME NEW m \in Maps, NEW k \in BigKeys PROVE prev'[m][k] = 0
  <2>1. prev[m][k] = 0 /\ k \in Keys
    BY KeyFacts DEF RemainderInv
  <2>2. ASSUME NEW vals \in Seq(Nat), Prints(vals) PROVE prev'[m][k] = prev[m][k]
    <3>1. CASE m \notin Range(Current.maps) \/ k # key
      BY <2>1, <2>2, <3>1 DEF Prints
    <3>2. CASE m \in Range(Current.maps) /\ k = key
      <4>1. PICK n \in DOMAIN Current.maps : m = Current.maps[n]
        BY <3>2 DEF Range
      <4>2. ~Remembers
        BY <3>2 DEF Remembers
      <4>3. QED
        BY <2>2, <3>2, <4>1, <4>2 DEF Prints
    <3>3. QED
      BY <3>1, <3>2
  <2>3. Read => prev'[m][k] = prev[m][k]
    BY <1>a, <2>2, ReadMoves DEF Reads
  <2>4. prev'[m][k] = prev[m][k]
    BY <2>3, Moves, ProbeFrame DEF WakeUp, Walk, vars
  <2>5. QED
    BY <2>1, <2>4
<1>4. \A p \in DOMAIN tool.loop : \A n \in DOMAIN tool.loop[p].maps, k \in Keys, m \in Maps :
         Place(p, n, k, m) /\ tool.loop[p].gate = 0 =>
           prev'[m][k] - tool.loop[p].unit * out'[m][k] <= (tool.loop[p].unit - 1) * lines'[m][k]
  BY <1>2
<1>5. \A m \in Maps, k \in BigKeys : prev'[m][k] = 0
  BY <1>3
<1>6. \A p, n, k, m : Place(p, n, k, m)' <=> Place(p, n, k, m)
  BY <1>0 DEF Place
<1>7. QED
  BY <1>0, <1>1, <1>4, <1>5, <1>6 DEF RemainderInv

-----------------------------------------------------------------------------
(* The order of the operations *)

\* How the probe of o goes on: it begins, it waits, it does without an add, or adds.
Begins(o) ==
    /\ Idle(o) /\ acc' = acc
    /\ todo'[o] \in Seq(Ops) /\ InOrder(todo'[o], tool)
    /\ stage'[o] = "look"
Waits(o) == todo'[o] = todo[o] /\ ctx'[o] = ctx[o] /\ acc' = acc
Skips(o) ==
    /\ ~Idle(o) /\ Op(o).do # "add" /\ acc' = acc /\ ctx'[o] = ctx[o] /\ stage'[o] = "look"
    /\ \/ Tailed(o)
       \/ Finished(o)
       \/ Len(todo'[o]) = 1 /\ todo'[o][1].do # "add"
AddsOne(o, m, k) == Tailed(o) /\ AddStep(o, m, k)

LEMMA Courses ==
  ASSUME MapType, ProbeType, ProbeInv, ElementInv, [Next]_vars, NEW o \in Owners, ProbeMove(o)
  PROVE  \/ Begins(o) \/ Waits(o) \/ Skips(o)
         \/ \E m \in Maps, k \in Keys : AddsOne(o, m, k)
<1>1. ASSUME NEW c, Start(o, c) \/ End(o, c) PROVE Begins(o)
  <2>1. Idle(o) /\ acc' = acc /\ stage' = stage
    BY <1>1 DEF Start, End, mapVars
  <2>2. todo'[o] = PairOf(o).start \/ todo'[o] = PairOf(o).finish
    BY <1>1 DEF Start, End, ProbeType
  <2>3. stage'[o] = "look"
    BY <2>1, ProbeKinds
  <2>4. todo'[o] \in Seq(Ops) /\ InOrder(todo'[o], tool)
    BY <2>2, PairFacts DEF MapType
  <2>5. QED
    BY <2>1, <2>3, <2>4 DEF Begins
<1>2. CASE MissEnd(o) \/ LookUp(o)
  BY <1>2 DEF MissEnd, LookUp, mapVars, Waits
<1>3. ASSUME ~Idle(o), Op(o).do # "add" PROVE stage[o] = "look"
  BY <1>3 DEF ProbeInv, ProbeOk
<1>4. CASE PutStamp(o) \/ Match(o) \/ Sane(o) \/ Unstamp(o)
  <2>1. /\ ~Idle(o) /\ Op(o).do \in {"stamp", "match", "sane", "unstamp"}
        /\ UNCHANGED <<acc, ctx, stage>>
    BY <1>4 DEF PutStamp, Match, Sane, Unstamp, mapVars
  <2>2. Op(o).do # "add"
    BY <2>1
  <2>3. \/ Step(o) \/ Return(o)
        \/ todo' = [todo EXCEPT ![o] = <<@[Len(@)]>>] /\ Op(o).do = "sane"
    BY <1>4 DEF PutStamp, Match, Sane, Unstamp
  <2>4. Tailed(o) \/ Finished(o) \/ (Skipped(o) /\ Op(o).do = "sane")
    BY <2>1, <2>3, TodoMoves
  <2>5. ASSUME Skipped(o), Op(o).do = "sane"
        PROVE  Len(todo'[o]) = 1 /\ todo'[o][1].do # "add"
    <3>1. Ending(o) /\ Len(todo[o]) \in Nat \ {0}
      BY <2>1, <2>5, ProbeKinds, OpFacts
    <3>2. Len(todo[o]) \in 1..Len(todo[o])
      BY <3>1
    <3>3. QED
      BY <2>5, <3>1, <3>2 DEF Ending, Skipped
  <2>6. QED
    BY <1>3, <2>1, <2>2, <2>4, <2>5 DEF Skips
<1>5. CASE AddCell(o) \/ Add(o) \/ Insert(o)
  <2>1. AddStep(o, Op(o).map, AccKey(o))
    BY <1>5, AddSteps
  <2>2. Op(o).map \in Maps /\ AccKey(o) \in Keys /\ ~Idle(o) /\ Step(o)
    BY <2>1 DEF AddStep
  <2>3. Tailed(o)
    BY <2>2, TodoMoves
  <2>4. QED
    BY <2>1, <2>2, <2>3 DEF AddsOne
<1>6. QED
  BY <1>1, <1>2, <1>4, <1>5 DEF ProbeMove, ProbeStep

\* A total is always added to right before its count.
LEMMA TotalOrderStep ==
  ASSUME MapType, ProbeType, ProbeInv, ElementInv, [Next]_vars, ProbeType',
         NEW o \in Owners, ProbeMove(o), NEW x \in tool.averages, TotalOrder(o, x)
  PROVE  /\ TotalOrder(o, x)'
         /\ ~Idle(o)' /\ Adds(Op(o)', x[2]) =>
              \/ Waits(o) /\ ~Idle(o) /\ Adds(Op(o), x[2])
              \/ Tailed(o) /\ ~Idle(o) /\ Adds(Op(o), x[1])
         /\ Tailed(o) /\ ~Idle(o) /\ Adds(Op(o), x[1]) => ~Idle(o)' /\ Adds(Op(o)', x[2])
<1>0. /\ todo[o] \in Seq(Ops) /\ todo'[o] \in Seq(Ops) /\ Len(todo[o]) \in Nat
      /\ Len(todo'[o]) \in Nat /\ DOMAIN todo'[o] = 1..Len(todo'[o])
  BY ToolKept, LenProperties DEF ProbeType
<1>1. /\ ~Idle(o) => Len(todo[o]) > 0 /\ Op(o) = todo[o][1]
      /\ ~Idle(o)' => Len(todo'[o]) > 0 /\ Op(o)' = todo'[o][1]
      /\ Len(todo'[o]) > 0 => ~Idle(o)'
  BY <1>0, EmptySeq, HeadTailProperties DEF Idle, Op
<1>2. CASE Begins(o)
  <2>1. \A i \in 1..Len(todo'[o]) :
          /\ Adds(todo'[o][i], x[1]) => i < Len(todo'[o]) /\ Adds(todo'[o][i + 1], x[2])
          /\ Adds(todo'[o][i], x[2]) => i > 1 /\ Adds(todo'[o][i - 1], x[1])
    BY <1>0, <1>2 DEF Begins, InOrder
  <2>2. TotalOrder(o, x)'
    BY <2>1 DEF TotalOrder
  <2>3. ~(~Idle(o)' /\ Adds(Op(o)', x[2]))
    <3>1. ASSUME ~Idle(o)', Adds(Op(o)', x[2]) PROVE FALSE
      <4>1. 1 \in 1..Len(todo'[o]) /\ Adds(todo'[o][1], x[2])
        BY <1>0, <1>1, <3>1
      <4>2. 1 > 1
        BY <2>1, <4>1
      <4>3. QED
        BY <4>2
    <3>2. QED
      BY <3>1
  <2>4. Idle(o)
    BY <1>2 DEF Begins
  <2>5. QED
    BY <2>2, <2>3, <2>4
<1>3. CASE Waits(o)
  <2>1. todo'[o] = todo[o]
    BY <1>3 DEF Waits
  <2>2. TotalOrder(o, x)'
    BY <2>1 DEF TotalOrder
  <2>3. (Idle(o)' <=> Idle(o)) /\ Op(o)' = Op(o)
    BY <2>1 DEF Idle, Op
  <2>4. ~(Tailed(o) /\ ~Idle(o))
    BY <1>0, <2>1 DEF Tailed
  <2>5. QED
    BY <1>3, <2>2, <2>3, <2>4
<1>4. ASSUME Tailed(o), ~Idle(o)
      PROVE  /\ TotalOrder(o, x)'
             /\ ~Idle(o)' /\ Adds(Op(o)', x[2]) => Adds(Op(o), x[1])
             /\ Adds(Op(o), x[1]) => ~Idle(o)' /\ Adds(Op(o)', x[2])
  <2>1. /\ Len(todo'[o]) = Len(todo[o]) - 1
        /\ \A i \in 1..Len(todo'[o]) : todo'[o][i] = todo[o][i + 1]
    BY <1>4 DEF Tailed
  <2>2. \A i \in 1..Len(todo[o]) :
          /\ Adds(todo[o][i], x[1]) => i < Len(todo[o]) /\ Adds(todo[o][i + 1], x[2])
          /\ Adds(todo[o][i], x[2]) /\ i > 1 => Adds(todo[o][i - 1], x[1])
    BY DEF TotalOrder
  <2>3. ASSUME NEW i \in 1..Len(todo'[o])
        PROVE  /\ Adds(todo'[o][i], x[1]) => i < Len(todo'[o]) /\ Adds(todo'[o][i + 1], x[2])
               /\ Adds(todo'[o][i], x[2]) /\ i > 1 => Adds(todo'[o][i - 1], x[1])
    <3>1. i + 1 \in 1..Len(todo[o]) /\ todo'[o][i] = todo[o][i + 1]
      BY <1>0, <2>1
    <3>2. ASSUME Adds(todo'[o][i], x[1])
          PROVE  i < Len(todo'[o]) /\ Adds(todo'[o][i + 1], x[2])
      <4>1. i + 1 < Len(todo[o]) /\ Adds(todo[o][(i + 1) + 1], x[2])
        BY <2>2, <3>1, <3>2
      <4>2. i < Len(todo'[o]) /\ i + 1 \in 1..Len(todo'[o])
        BY <1>0, <2>1, <4>1
      <4>3. QED
        BY <2>1, <4>1, <4>2
    <3>3. ASSUME Adds(todo'[o][i], x[2]), i > 1 PROVE Adds(todo'[o][i - 1], x[1])
      <4>1. i + 1 > 1 /\ (i + 1) - 1 = i /\ i - 1 \in 1..Len(todo'[o]) /\ (i - 1) + 1 = i
        BY <1>0, <3>3
      <4>2. Adds(todo[o][(i + 1) - 1], x[1])
        BY <2>2, <3>1, <3>3, <4>1
      <4>3. todo'[o][i - 1] = todo[o][(i - 1) + 1]
        BY <2>1, <4>1
      <4>4. QED
        BY <4>1, <4>2, <4>3
    <3>4. QED
      BY <3>2, <3>3
  <2>4. TotalOrder(o, x)'
    BY <2>3 DEF TotalOrder
  <2>5. ASSUME ~Idle(o)', Adds(Op(o)', x[2]) PROVE Adds(Op(o), x[1])
    <3>1. Len(todo'[o]) > 0 /\ Op(o)' = todo'[o][1] /\ Op(o) = todo[o][1]
      BY <1>1, <1>4, <2>5
    <3>2. 1 \in 1..Len(todo'[o]) /\ 2 \in 1..Len(todo[o]) /\ 1 + 1 = 2 /\ 2 - 1 = 1 /\ 2 > 1
      BY <1>0, <2>1, <3>1
    <3>3. Adds(todo[o][2], x[2])
      BY <2>1, <2>5, <3>1, <3>2
    <3>4. Adds(todo[o][2 - 1], x[1])
      BY <2>2, <3>2, <3>3
    <3>5. QED
      BY <3>1, <3>2, <3>4
  <2>6. ASSUME Adds(Op(o), x[1]) PROVE ~Idle(o)' /\ Adds(Op(o)', x[2])
    <3>1. Op(o) = todo[o][1] /\ 1 \in 1..Len(todo[o]) /\ 1 + 1 = 2
      BY <1>0, <1>1, <1>4
    <3>2. 1 < Len(todo[o]) /\ Adds(todo[o][1 + 1], x[2])
      BY <2>2, <2>6, <3>1
    <3>3. 1 \in 1..Len(todo'[o]) /\ Len(todo'[o]) > 0
      BY <1>0, <2>1, <3>2
    <3>4. QED
      BY <1>1, <2>1, <3>2, <3>3
  <2>7. QED
    BY <2>4, <2>5, <2>6
<1>5. CASE Skips(o) /\ ~Tailed(o)
  <2>1. Len(todo'[o]) = 0 \/ (Len(todo'[o]) = 1 /\ todo'[o][1].do # "add")
    BY <1>5 DEF Skips, Finished
  <2>2. \A i \in 1..Len(todo'[o]) : i = 1 /\ todo'[o][i].do # "add"
    BY <2>1
  <2>3. TotalOrder(o, x)'
    BY <2>2 DEF TotalOrder, Adds
  <2>4. ~(~Idle(o)' /\ Adds(Op(o)', x[2]))
    BY <1>1, <2>1 DEF Adds
  <2>5. QED
    BY <1>5, <2>3, <2>4
<1>6. CASE Skips(o) /\ Tailed(o)
  <2>1. ~Idle(o)
    BY <1>6 DEF Skips
  <2>2. QED
    BY <1>4, <1>6, <2>1
<1>7. ASSUME NEW m \in Maps, NEW k \in Keys, AddsOne(o, m, k)
      PROVE  Tailed(o) /\ ~Idle(o)
  BY <1>7 DEF AddsOne, AddStep
<1>8. QED
  BY <1>2, <1>3, <1>4, <1>5, <1>6, <1>7, Courses

\* Both maps of an average are arrays, and not the same.
LEMMA AverageFacts ==
  ASSUME tool \in Tools, NEW x \in tool.averages
  PROVE  /\ x[1] \in Maps /\ x[2] \in Maps /\ x[1] # x[2]
         /\ \A a \in Accs : a.map \in {x[1], x[2]} => a.create = "array" /\ a.key = "cell"
<1>1. x[1] # x[2]
  BY ToolsAssumption DEF WellFormed
<1>2. /\ \E a \in Accs : a.map = x[1] /\ a.create = "array"
      /\ \E a \in Accs : a.map = x[2] /\ a.create = "array"
  <2>1. \A n \in {1, 2} : \E a \in Accs : a.map = x[n] /\ a.create = "array"
    BY ToolFacts
  <2>2. QED
    BY <2>1
<1>3. x[1] \in Maps /\ x[2] \in Maps
  BY <1>2 DEF Maps
<1>4. QED
  BY <1>1, <1>2, <1>3, ToolFacts

\* The set of the probes between the two adds, when o moves.
LEMMA BetweenMoves ==
  ASSUME NEW o \in Owners, \A q \in Owners : q # o => Rests(q), NEW x
  PROVE  /\ IsFiniteSet(Between(x)) /\ Cardinality(Between(x)) \in Nat
         /\ (o \in Between(x)' <=> o \in Between(x)) => Between(x)' = Between(x)
         /\ o \in Between(x)' /\ o \notin Between(x) =>
              Cardinality(Between(x)') = Cardinality(Between(x)) + 1
         /\ o \notin Between(x)' /\ o \in Between(x) =>
              Cardinality(Between(x)) = Cardinality(Between(x)') + 1
<1>1. \A q \in Owners : q # o => (q \in Between(x)' <=> q \in Between(x))
  <2>1. ASSUME NEW q \in Owners, q # o PROVE q \in Between(x)' <=> q \in Between(x)
    <3>1. todo'[q] = todo[q]
      BY <2>1 DEF Rests
    <3>2. (Idle(q)' <=> Idle(q)) /\ Op(q)' = Op(q)
      BY <3>1 DEF Idle, Op
    <3>3. QED
      BY <3>2 DEF Between, Adds
  <2>2. QED
    BY <2>1
<1>2. Between(x) \subseteq Owners /\ Between(x)' \subseteq Owners
  BY DEF Between
<1>3. IsFiniteSet(Owners)
  BY ConstantsAssumption
<1>4. IsFiniteSet(Between(x)) /\ IsFiniteSet(Between(x)')
  BY <1>2, <1>3, FS_Subset
<1>5. Cardinality(Between(x)) \in Nat
  BY <1>4, FS_CardinalityType
<1>6. (o \in Between(x)' <=> o \in Between(x)) => Between(x)' = Between(x)
  BY <1>1, <1>2
<1>7. ASSUME o \in Between(x)', o \notin Between(x)
      PROVE  Cardinality(Between(x)') = Cardinality(Between(x)) + 1
  <2>1. Between(x)' = Between(x) \cup {o}
    BY <1>1, <1>2, <1>7
  <2>2. QED
    BY <1>4, <1>7, <2>1, FS_AddElement
<1>8. ASSUME o \notin Between(x)', o \in Between(x)
      PROVE  Cardinality(Between(x)) = Cardinality(Between(x)') + 1
  <2>1. Between(x) = Between(x)' \cup {o}
    BY <1>1, <1>2, <1>8
  <2>2. QED
    BY <1>4, <1>8, <2>1, FS_AddElement
<1>9. QED
  BY <1>4, <1>5, <1>6, <1>7, <1>8

LEMMA TotalInvStep ==
  ASSUME CoreInv, TotalInv, [Next]_vars, ProbeType'
  PROVE  TotalInv'
<1>0. tool' = tool /\ Cell \in Keys
  BY ToolKept, KeyFacts
<1>a. MapType /\ ProbeType /\ LoopType /\ ProbeInv /\ ElementInv /\ tool \in Tools
  BY DEF CoreInv, MapType
<1> SUFFICES ASSUME NEW x \in tool.averages
             PROVE  /\ \A o \in Owners : TotalOrder(o, x)'
                    /\ acc'[x[1]][Cell].sum = acc'[x[2]][Cell].sum + Cardinality(Between(x)')
  BY <1>0 DEF TotalInv
<1>1. /\ \A o \in Owners : TotalOrder(o, x)
      /\ acc[x[1]][Cell].sum = acc[x[2]][Cell].sum + Cardinality(Between(x))
  BY DEF TotalInv
<1>2. /\ x[1] \in Maps /\ x[2] \in Maps /\ x[1] # x[2]
      /\ \A a \in Accs : a.map \in {x[1], x[2]} => a.create = "array" /\ a.key = "cell"
  BY <1>a, AverageFacts
<1>3. ASSUME NEW q \in Owners, Rests(q) PROVE TotalOrder(q, x)'
  BY <1>1, <1>3 DEF TotalOrder, Rests
<1>4. CASE \A q \in Owners : Rests(q)
  <2>1. \A q \in Owners : (Idle(q)' <=> Idle(q)) /\ Op(q)' = Op(q)
    BY <1>4 DEF Rests, Idle, Op
  <2>2. Between(x)' = Between(x)
    BY <2>1 DEF Between, Adds
  <2>3. acc' = acc
    <3>1. CASE \E o \in Owners, m \in Maps, k \in Keys : ProbeMove(o) /\ AddStep(o, m, k)
      <4>1. PICK o \in Owners, m \in Maps, k \in Keys : AddStep(o, m, k)
        BY <3>1
      <4>2. Tailed(o) /\ ~Idle(o)
        BY <1>a, <4>1, TodoMoves DEF AddStep
      <4>3. todo'[o] = todo[o] /\ Len(todo[o]) \in Nat \ {0}
        BY <1>a, <1>4, <4>2, OpFacts DEF Rests
      <4>4. QED
        BY <4>2, <4>3 DEF Tailed
    <3>2. QED
      BY <1>a, <3>1, AccMoves
  <2>4. QED
    BY <1>1, <1>3, <1>4, <2>2, <2>3
<1>5. ASSUME NEW o \in Owners, ProbeMove(o), \A q \in Owners : q # o => Rests(q)
      PROVE  /\ \A q \in Owners : TotalOrder(q, x)'
             /\ acc'[x[1]][Cell].sum = acc'[x[2]][Cell].sum + Cardinality(Between(x)')
  <2>1. /\ TotalOrder(o, x)'
        /\ ~Idle(o)' /\ Adds(Op(o)', x[2]) =>
              \/ Waits(o) /\ ~Idle(o) /\ Adds(Op(o), x[2])
              \/ Tailed(o) /\ ~Idle(o) /\ Adds(Op(o), x[1])
        /\ Tailed(o) /\ ~Idle(o) /\ Adds(Op(o), x[1]) => ~Idle(o)' /\ Adds(Op(o)', x[2])
    BY <1>a, <1>1, <1>5, TotalOrderStep
  <2>2. \A q \in Owners : TotalOrder(q, x)'
    BY <1>3, <1>5, <2>1
  <2>3. /\ o \in Between(x) <=> ~Idle(o) /\ Adds(Op(o), x[2])
        /\ o \in Between(x)' <=> ~Idle(o)' /\ Adds(Op(o)', x[2])
    BY DEF Between, Adds
  <2>4. /\ Cardinality(Between(x)) \in Nat
        /\ (o \in Between(x)' <=> o \in Between(x)) => Between(x)' = Between(x)
        /\ o \in Between(x)' /\ o \notin Between(x) =>
              Cardinality(Between(x)') = Cardinality(Between(x)) + 1
        /\ o \notin Between(x)' /\ o \in Between(x) =>
              Cardinality(Between(x)) = Cardinality(Between(x)') + 1
    BY <1>5, BetweenMoves
  <2>5. CASE Waits(o)
    <3>1. (Idle(o)' <=> Idle(o)) /\ Op(o)' = Op(o) /\ acc' = acc
      BY <2>5 DEF Waits, Idle, Op
    <3>2. QED
      BY <1>1, <2>2, <2>3, <2>4, <3>1
  <2>6. CASE Begins(o) \/ Skips(o)
    <3>1. acc' = acc /\ o \notin Between(x) /\ o \notin Between(x)'
      BY <2>1, <2>3, <2>6 DEF Begins, Skips, Adds
    <3>2. QED
      BY <1>1, <2>2, <2>4, <3>1
  <2>7. ASSUME NEW m \in Maps, NEW k \in Keys, AddsOne(o, m, k)
        PROVE  acc'[x[1]][Cell].sum = acc'[x[2]][Cell].sum + Cardinality(Between(x)')
    <3>1. /\ Tailed(o) /\ AddStep(o, m, k) /\ ~Idle(o) /\ Op(o) \in Accs /\ Op(o).map = m
          /\ Op(o).do = "add" /\ AccKey(o) = k
      BY <2>7 DEF AddsOne, AddStep
    <3>2. ~Waits(o)
      <4>1. Len(todo[o]) \in Nat \ {0}
        BY <1>a, <3>1, OpFacts
      <4>2. QED
        BY <3>1, <4>1 DEF Tailed, Waits
    <3>3. /\ o \in Between(x) <=> m = x[2]
          /\ o \in Between(x)' <=> m = x[1]
      BY <2>1, <2>3, <3>1, <3>2 DEF Adds
    <3>4. m \in {x[1], x[2]} => Raised(m, k) /\ k = Cell
      <4>1. m \in {x[1], x[2]} => Op(o).create = "array" /\ Op(o).key = "cell"
        BY <1>2, <3>1
      <4>2. m \in {x[1], x[2]} => k = Cell
        BY <1>a, <3>1, <4>1, OpFacts
      <4>3. QED
        BY <3>1, <4>1, <4>2 DEF AddStep, Effect
    <3>5. /\ acc[x[1]][Cell].sum \in Nat /\ acc[x[2]][Cell].sum \in Nat
      BY <1>0, <1>2, <1>a DEF MapType
    <3>6. CASE m = x[1]
      <4>1. acc'[x[1]][Cell].sum = acc[x[1]][Cell].sum + 1
            /\ acc'[x[2]][Cell].sum = acc[x[2]][Cell].sum
        BY <1>0, <1>2, <3>4, <3>6 DEF Raised
      <4>2. Cardinality(Between(x)') = Cardinality(Between(x)) + 1
        BY <1>2, <2>4, <3>3, <3>6
      <4>3. QED
        BY <1>1, <2>4, <3>5, <4>1, <4>2
    <3>7. CASE m = x[2]
      <4>1. acc'[x[2]][Cell].sum = acc[x[2]][Cell].sum + 1
            /\ acc'[x[1]][Cell].sum = acc[x[1]][Cell].sum
        BY <1>0, <1>2, <3>4, <3>7 DEF Raised
      <4>2. Cardinality(Between(x)) = Cardinality(Between(x)') + 1
        BY <1>2, <2>4, <3>3, <3>7
      <4>3. Cardinality(Between(x)') \in Nat
        BY <1>5, ConstantsAssumption, FS_Subset, FS_CardinalityType DEF Between
      <4>4. QED
        BY <1>1, <2>4, <3>5, <4>1, <4>2, <4>3
    <3>8. CASE m # x[1] /\ m # x[2]
      <4>1. acc'[x[1]][Cell] = acc[x[1]][Cell] /\ acc'[x[2]][Cell] = acc[x[2]][Cell]
        BY <1>0, <1>2, <1>a, <3>1, <3>8, ArrayStays
      <4>2. Between(x)' = Between(x)
        BY <2>4, <3>3, <3>8
      <4>3. QED
        BY <1>1, <4>1, <4>2
    <3>9. QED
      BY <3>6, <3>7, <3>8
  <2>8. QED
    BY <1>a, <1>5, <2>2, <2>5, <2>6, <2>7, Courses
<1>6. QED
  BY <1>a, <1>4, <1>5, OneMoves

-----------------------------------------------------------------------------
(* A pass without a probe *)

\* When the walk goes on to a key, or ends, it is past everything before.
LEMMA WalkedPast ==
  ASSUME CoreInv, phase = "walk",
         NEW n, NEW k \in Keys, NEW m \in Maps, Place(group, n, k, m), Visited(Current, k),
         NextKey = Null \/ (NextKey # Cell /\ k # Cell /\ Pos(k) < Pos(NextKey))
  PROVE  Past(group, k)
<1>a. MapType /\ LoopType /\ ElementInv
  BY DEF CoreInv
<1>b. /\ group \in DOMAIN tool.loop /\ 1 \in DOMAIN Current.maps /\ tool \in Tools
  <2>1. /\ group \in DOMAIN tool.loop /\ Len(Current.maps) \in Nat \ {0}
        /\ DOMAIN Current.maps = 1..Len(Current.maps)
    BY <1>a, CurrentFacts
  <2>2. 1 \in DOMAIN Current.maps
    BY <2>1
  <2>3. tool \in Tools
    BY <1>a DEF MapType
  <2>4. QED
    BY <2>1, <2>2, <2>3
<1>1. Current.cells <=> k = Cell
  <2>1. PICK a \in Accs : a.map = Current.maps[1] /\ (Current.cells <=> a.key = "cell")
    BY <1>b, LoopFacts DEF Current
  <2>2. CASE Current.cells
    BY <2>2 DEF Visited
  <2>3. CASE ~Current.cells
    <3>1. Present(a.map, k)
      BY <2>1, <2>3 DEF Visited
    <3>2. QED
      BY <1>a, <2>1, <2>3, <3>1 DEF ElementInv
  <2>4. QED
    BY <2>2, <2>3
<1>2. CASE Current.cells
  <2>1. k = Cell /\ NextKey = Null
    BY <1>1, <1>2
  <2>2. key # Null
    BY <1>a, <1>2, <2>1, NextKeyFacts, KeyFacts
  <2>3. key = Cell
    BY <1>a, <1>2, <2>2 DEF LoopType
  <2>4. QED
    BY <2>1, <2>2, <2>3 DEF Past
<1>3. CASE ~Current.cells
  <2>1. k # Cell /\ k \in Range(KeyOrder)
    BY <1>1, <1>3 DEF Keys
  <2>2. Present(Current.maps[1], k)
    BY <1>3 DEF Visited
  <2>3. ~(key = Null \/ Pos(k) > Pos(key))
    <3>1. ASSUME key = Null \/ Pos(k) > Pos(key) PROVE FALSE
      <4>1. NextKey # Null /\ Pos(k) >= Pos(NextKey)
        BY <1>a, <1>3, <2>1, <2>2, <3>1, NextKeyFacts
      <4>2. NextKey \in Range(KeyOrder)
        BY <1>a, <1>3, <4>1, NextKeyFacts
      <4>3. Pos(k) \in Nat /\ Pos(NextKey) \in Nat
        BY <2>1, <4>2, PosFacts
      <4>4. Pos(k) < Pos(NextKey)
        BY <4>1
      <4>5. QED
        BY <4>1, <4>3, <4>4
    <3>2. QED
      BY <3>1
  <2>4. key # Null /\ key # Cell /\ key \in Range(KeyOrder)
    BY <1>a, <1>3, <2>3 DEF LoopType, Keys
  <2>5. /\ Pos(k) \in Nat /\ Pos(key) \in Nat
        /\ KeyOrder[Pos(k)] = k /\ KeyOrder[Pos(key)] = key
    BY <2>1, <2>4, PosFacts
  <2>6. Pos(k) < Pos(key) \/ Pos(k) = Pos(key)
    BY <2>3, <2>5
  <2>7. CASE Pos(k) < Pos(key)
    BY <2>1, <2>4, <2>7 DEF Past
  <2>8. CASE Pos(k) = Pos(key)
    BY <2>4, <2>5, <2>8 DEF Past
  <2>9. QED
    BY <2>6, <2>7, <2>8
<1>4. QED
  BY <1>2, <1>3

\* Nothing but the loop moves in such a pass.
LEMMA QuietMoves ==
  ASSUME CoreInv, CaughtInv, [Next]_vars, quiet'
  PROVE  /\ acc' = acc /\ todo' = todo
         /\ \/ WakeUp
            \/ quiet /\ (Walk \/ Read \/ UNCHANGED <<phase, group, key, cur, prev>>)
<1>1. ASSUME NEW o \in Owners, ProbeMove(o)
      PROVE  MissEnd(o) /\ quiet
  <2>1. ASSUME \E c \in Contexts \cup {Null} : Start(o, c) \/ End(o, c) PROVE FALSE
    BY <2>1 DEF Start, End
  <2>2. ASSUME ProbeStep(o) PROVE FALSE
    <3>1. ~Idle(o) /\ quiet' = quiet
      BY <2>2 DEF ProbeStep, PutStamp, Match, Sane, AddCell, LookUp, Add, Insert, Unstamp
    <3>2. QED
      BY <3>1 DEF CaughtInv
  <2>3. MissEnd(o)
    BY <1>1, <2>1, <2>2 DEF ProbeMove
  <2>4. QED
    BY <2>3 DEF MissEnd
<1>2. ASSUME NEW o \in Owners, ProbeMove(o)
      PROVE  acc' = acc /\ todo' = todo /\ UNCHANGED <<phase, group, key, cur, prev>>
  BY <1>1, <1>2 DEF MissEnd, mapVars, readerVars
<1>3. Walk \/ Read \/ UNCHANGED vars => quiet
  BY DEF Walk, Read, vars
<1>4. WakeUp \/ Walk \/ Read \/ UNCHANGED vars => acc' = acc /\ todo' = todo
  <2>1. CASE WakeUp \/ Walk \/ Read
    BY <2>1, LoopFrame
  <2>2. CASE UNCHANGED vars
    BY <2>2 DEF vars
  <2>3. QED
    BY <2>1, <2>2
<1>5. UNCHANGED vars => UNCHANGED <<phase, group, key, cur, prev>>
  BY DEF vars
<1>6. QED
  BY <1>1, <1>2, <1>3, <1>4, <1>5, Moves

LEMMA CaughtInvStep ==
  ASSUME CoreInv, CaughtInv, [Next]_vars
  PROVE  CaughtInv'
<1>0. tool' = tool /\ Maps' = Maps
  BY ToolKept
<1>a. MapType /\ LoopType /\ ElementInv /\ cur \in Seq(Nat) /\ Len(cur) \in Nat
  BY LenProperties DEF CoreInv, LoopType
<1> SUFFICES ASSUME quiet'
             PROVE  /\ \A o \in Owners : Idle(o)'
                    /\ \A p, n : \A k \in Keys, m \in Maps :
                          Place(p, n, k, m) => CaughtOk(p, n, k, m)'
  BY <1>0 DEF CaughtInv, Place
<1>b. /\ acc' = acc /\ todo' = todo
      /\ \/ WakeUp
         \/ quiet /\ (Walk \/ Read \/ UNCHANGED <<phase, group, key, cur, prev>>)
  BY QuietMoves
<1>1. \A o \in Owners : Idle(o)'
  <2>1. \A o \in Owners : Idle(o)
    BY <1>b DEF CaughtInv, WakeUp
  <2>2. QED
    BY <1>b, <2>1 DEF Idle
<1>2. ASSUME NEW p, NEW n, NEW k \in Keys, NEW m \in Maps, Place(p, n, k, m)
      PROVE  CaughtOk(p, n, k, m)'
  <2>0. n \in Nat \ {0} /\ p \in Nat \ {0} /\ p <= Len(tool.loop)
    <3>1. p \in DOMAIN tool.loop /\ tool \in Tools
      BY <1>a, <1>2 DEF Place, MapType
    <3>2. DOMAIN tool.loop = 1..Len(tool.loop) /\ Len(tool.loop) \in Nat
      BY <3>1, LoopFacts
    <3>3. n \in Nat \ {0}
      BY <1>a, <1>2, PlaceFacts
    <3>4. QED
      BY <3>1, <3>2, <3>3
  <2>1. Visited(tool.loop[p], k)' <=> Visited(tool.loop[p], k)
    BY <1>0, <1>b DEF Visited, Present
  <2>2. CASE WakeUp
    <3>1. phase' = "walk" /\ group' = 1 /\ key' = Null
      BY <2>2 DEF WakeUp
    <3>2. ~(p < 1)
      BY <2>0
    <3>3. ~Past(p, k)' /\ ~Reading(p, n, k)'
      BY <3>1, <3>2 DEF Past, Reading
    <3>4. QED
      BY <3>3 DEF CaughtOk
  <2>3. ASSUME quiet PROVE CaughtOk(p, n, k, m)
    BY <1>2, <2>3 DEF CaughtInv, Place
  <2>4. CASE quiet /\ UNCHANGED <<phase, group, key, cur, prev>>
    <3>1. (Past(p, k)' <=> Past(p, k)) /\ (Reading(p, n, k)' <=> Reading(p, n, k))
      BY <2>4 DEF Past, Reading
    <3>2. Seen(p, n, k, m)' = Seen(p, n, k, m)
      BY <2>4, <3>1 DEF Seen
    <3>3. QED
      BY <1>b, <2>1, <2>3, <2>4, <3>1, <3>2 DEF CaughtOk
  <2>5. CASE quiet /\ Walk
    <3>1. phase = "walk" /\ prev' = prev /\ (cur' = cur \/ cur' = <<>>)
      BY <2>5 DEF Walk
    <3>2. cur' = <<>> /\ Len(cur') = 0
      BY <1>a, <3>1 DEF LoopType
    <3>3. ~Reading(p, n, k) /\ ~Reading(p, n, k)'
      BY <2>0, <3>1, <3>2 DEF Reading
    <3>4. Seen(p, n, k, m)' = Seen(p, n, k, m)
      BY <3>1, <3>3 DEF Seen
    <3>5. ASSUME Visited(tool.loop[p], k), Past(p, k)' PROVE Past(p, k)
      <4>1. p < group => Past(p, k)
        BY DEF Past
      <4>2. ASSUME p = group,
                   NextKey = Null \/ (NextKey # Cell /\ k # Cell /\ Pos(k) < Pos(NextKey))
            PROVE  Past(p, k)
        BY <1>2, <3>1, <3>5, <4>2, WalkedPast DEF Current
      <4>3. CASE NextKey # Null /\ phase' = "read" /\ key' = NextKey /\ group' = group
        BY <3>5, <4>1, <4>2, <4>3 DEF Past
      <4>4. group \in Nat
        <5>1. Len(tool.loop) \in Nat
          BY <1>a, LoopFacts DEF MapType
        <5>2. QED
          BY <1>a, <5>1 DEF LoopType
      <4>5. p < group + 1 => p < group \/ p = group
        BY <2>0, <4>4
      <4>6. CASE NextKey = Null /\ group' = group + 1 /\ key' = Null /\ phase' = phase
        <5>1. p < group + 1
          BY <3>1, <3>5, <4>6 DEF Past
        <5>2. QED
          BY <4>1, <4>2, <4>5, <4>6, <5>1
      <4>7. CASE NextKey = Null /\ group = Len(tool.loop)
        <5>1. p < group \/ p = group
          BY <2>0, <4>4, <4>7
        <5>2. QED
          BY <4>1, <4>2, <4>7, <5>1
      <4>8. QED
        BY <2>5, <4>3, <4>6, <4>7 DEF Walk
    <3>6. QED
      BY <1>b, <2>1, <2>3, <2>5, <3>3, <3>4, <3>5 DEF CaughtOk
  <2>6. CASE quiet /\ Reads
    <3>1. UNCHANGED <<phase, group, key, prev>> /\ Len(cur') = Len(cur) + 1 /\ phase = "read"
      BY <2>6 DEF Reads
    <3>2. Past(p, k)' <=> Past(p, k)
      BY <3>1 DEF Past
    <3>3. CASE Reading(p, n, k)
      <4>1. n \in 1..Len(cur)
        BY <1>a, <2>0, <3>3 DEF Reading
      <4>2. cur'[n] = cur[n] /\ Reading(p, n, k)'
        <5>1. cur'[n] = cur[n]
          BY <2>6, <4>1 DEF Reads
        <5>2. n <= Len(cur')
          BY <1>a, <3>1, <4>1
        <5>3. QED
          BY <3>1, <3>3, <5>1, <5>2 DEF Reading
      <4>3. Seen(p, n, k, m)' = Seen(p, n, k, m)
        BY <3>3, <4>2 DEF Seen
      <4>4. QED
        BY <1>b, <2>1, <2>3, <2>6, <3>3, <4>3 DEF CaughtOk
    <3>4. CASE ~Reading(p, n, k) /\ Reading(p, n, k)'
      <4>1. p = group /\ k = key /\ n = Len(cur')
        BY <1>a, <2>0, <3>1, <3>4 DEF Reading
      <4>2. m = Current.maps[n]
        BY <1>2, <4>1 DEF Place, Current
      <4>3. cur'[n] = acc[m][k].sum
        BY <2>6, <4>1, <4>2 DEF Reads
      <4>4. QED
        BY <1>b, <3>4, <4>3 DEF CaughtOk, Seen
    <3>5. CASE ~Reading(p, n, k) /\ ~Reading(p, n, k)'
      BY <1>b, <2>1, <2>3, <2>6, <3>1, <3>2, <3>5 DEF CaughtOk, Seen
    <3>6. QED
      BY <3>3, <3>4, <3>5
  <2>7. ASSUME quiet, NEW vals \in Seq(Nat), Prints(vals) PROVE CaughtOk(p, n, k, m)'
    <3>0. /\ phase = "read" /\ phase' = "walk" /\ group' = group /\ key' = key
          /\ ~Reading(p, n, k)'
      BY <2>7 DEF Prints, Reading
    <3>1. CASE p = group /\ k = key
      <4>1. n \in DOMAIN Current.maps /\ m = Current.maps[n] /\ Remembers
        BY <1>2, <3>1 DEF Place, Current, Remembers
      <4>2. prev'[m][k] = vals[n]
        BY <2>7, <3>1, <4>1 DEF Prints
      <4>3. n \in 1..Len(vals) /\ Len(cur) = Len(vals) - 1 /\ Len(vals) \in Nat
        BY <1>a, <2>7, <4>1, CurrentFacts, LenProperties DEF Prints
      <4>4. CASE n <= Len(cur)
        <5>1. Reading(p, n, k) /\ n \in 1..Len(cur)
          BY <1>a, <2>0, <3>0, <3>1, <4>4 DEF Reading
        <5>2. vals[n] = Seen(p, n, k, m)
          BY <2>7, <5>1 DEF Prints, Seen
        <5>3. QED
          BY <1>b, <2>1, <2>3, <2>7, <3>0, <4>2, <5>1, <5>2 DEF CaughtOk, Seen
      <4>5. CASE ~(n <= Len(cur))
        <5>1. n = Len(vals)
          BY <1>a, <4>3, <4>5
        <5>2. vals[n] = acc[m][k].sum
          BY <2>7, <3>1, <4>1, <5>1 DEF Prints
        <5>3. QED
          BY <1>b, <3>0, <4>2, <5>2 DEF CaughtOk, Seen
      <4>6. QED
        BY <4>4, <4>5
    <3>2. CASE ~(p = group /\ k = key)
      <4>1. m \notin Range(Current.maps) \/ k # key
        BY <1>a, <1>2, <3>2, PlaceFacts
      <4>2. prev'[m][k] = prev[m][k]
        BY <2>7, <4>1 DEF Prints
      <4>3. ~Reading(p, n, k)
        BY <3>2 DEF Reading
      <4>4. Past(p, k)' => Past(p, k)
        BY <3>0, <3>2 DEF Past
      <4>5. QED
        BY <1>b, <2>1, <2>3, <2>7, <3>0, <4>2, <4>3, <4>4 DEF CaughtOk, Seen
    <3>3. QED
      BY <3>1, <3>2
  <2>8. CASE quiet /\ Read
    BY <1>a, <2>6, <2>7, <2>8, ReadMoves
  <2>9. QED
    BY <1>b, <2>2, <2>4, <2>5, <2>8
<1>3. QED
  BY <1>1, <1>2

-----------------------------------------------------------------------------
(* The initial states *)

LEMMA InitTypes ==
  ASSUME Init
  PROVE  MapType /\ ProbeType /\ LoopType
<1>1. tool \in Tools /\ pairOf \in [Owners -> DOMAIN tool.pairs]
  <2>1. tool \in Tools /\ pairOf \in Meets(tool)
    BY DEF Init
  <2>2. \A t \in Tools : Meets(t) \subseteq [Owners -> DOMAIN t.pairs]
    BY ConstantsAssumption, Zenon
  <2>3. QED
    BY <2>1, <2>2
<1>2. MapType
  <2>1. stamp \in [StampMaps -> [Keys \cup Contexts -> Starts \cup {NoStamp}]]
    BY DEF Init
  <2>2. acc \in [Maps -> [Keys -> [at : Nat, sum : Nat]]]
    <3>1. \A m \in Maps, k \in Keys :
            (IF k = Cell /\ m \in Arrays THEN [at |-> 1, sum |-> 0] ELSE NoElement)
              \in [at : Nat, sum : Nat]
      BY DEF NoElement
    <3>2. QED
      BY <3>1 DEF Init, Elements
  <2>3. fed \in [Maps -> [Keys -> Nat]] /\ landed \in [Maps -> [Keys -> Nat]]
    BY DEF Init, Zero
  <2>4. QED
    BY <1>1, <2>1, <2>2, <2>3 DEF MapType
<1>3. ProbeType
  <2>1. open \in [Owners -> 0..MaxDepth]
    <3>1. {0, 1} \subseteq 0..MaxDepth
      BY ConstantsAssumption
    <3>2. QED
      BY <3>1 DEF Init
  <2>2. todo \in [Owners -> Seq(Ops)]
    <3>1. <<>> \in Seq(Ops)
      OBVIOUS
    <3>2. QED
      BY <3>1 DEF Init
  <2>3. calls \in [Owners -> Nat] /\ ptr \in [Owners -> Nat]
    BY DEF Init
  <2>4. /\ stage \in [Owners -> {"look", "add", "insert"}]
        /\ ctx \in [Owners -> Contexts \cup {Null}]
        /\ from \in [Owners -> Starts \cup {NoStamp}]
    BY DEF Init
  <2>5. QED
    BY <2>1, <2>2, <2>3, <2>4 DEF ProbeType
<1>4. LoopType
  <2>1. prev \in [Maps -> [Keys -> Nat]] /\ out \in [Maps -> [Keys -> Nat]]
        /\ lines \in [Maps -> [Keys -> Nat]]
    BY DEF Init, Zero
  <2>2. 1 \in 1..Len(tool.loop)
    BY <1>1, LoopFacts
  <2>3. cur \in Seq(Nat)
    BY DEF Init
  <2>4. QED
    BY <2>1, <2>2, <2>3 DEF Init, LoopType
<1>5. QED
  BY <1>2, <1>3, <1>4

LEMMA InitCore ==
  ASSUME Init
  PROVE  CoreInv
<1>1. MapType /\ ProbeType /\ LoopType
  BY InitTypes
<1>2. \A o \in Owners : Idle(o) /\ ~Starting(o) /\ ~Ending(o) /\ from[o] = NoStamp
                        /\ stage[o] = "look" /\ todo[o] = <<>>
  <2>1. \A o \in Owners : todo[o] = <<>> /\ from[o] = NoStamp /\ stage[o] = "look"
    BY DEF Init
  <2>2. Len(<<>>) = 0
    OBVIOUS
  <2>3. QED
    BY <2>1, <2>2 DEF Idle, Starting, Ending
<1>3. ProbeInv
  <2>1. ASSUME NEW o \in Owners, open[o] > 0 PROVE PairOf(o).finish # <<>>
    <3>1. open[o] = 1
      BY <2>1 DEF Init
    <3>2. QED
      BY <3>1 DEF Init
  <2>2. QED
    BY <1>2, <2>1 DEF ProbeInv, ProbeOk
<1>4. StampInv
  <2>1. ASSUME NEW o \in StampOwners, NEW s \in StampMaps PROVE StampOk(o, s)
    <3>1. o \in Owners /\ o \in Keys
      BY KeyFacts DEF StampOwners
    <3>2. stamp[s][o] = NoStamp
      BY <3>1 DEF Init
    <3>3. QED
      BY <1>2, <3>1, <3>2 DEF StampOk
  <2>2. QED
    BY <2>1 DEF StampInv
<1>5. ElementInv
  <2>1. \A m \in Maps, k \in Keys : acc[m][k] =
           IF k = Cell /\ m \in Arrays THEN [at |-> 1, sum |-> 0] ELSE NoElement
    BY DEF Init, Elements
  <2>2. \A m \in Maps, k \in Keys : acc[m][k].at = 0 => acc[m][k].sum = 0
    BY <2>1 DEF NoElement
  <2>3. \A m \in Arrays : m \in Maps
    BY DEF Arrays, Maps
  <2>4. Cell \in Keys
    BY DEF Keys
  <2>5. \A m \in Arrays : acc[m][Cell].at > 0
    BY <2>1, <2>3, <2>4
  <2>6. ASSUME NEW a \in Accs, NEW k \in Keys, Present(a.map, k)
        PROVE  a.key = "cell" <=> k = Cell
    <3>1. a.map \in Maps
      BY DEF Maps
    <3>2. k = Cell /\ a.map \in Arrays
      BY <2>1, <2>6, <3>1 DEF Present, NoElement
    <3>3. PICK b \in Accs : b.map = a.map /\ b.create = "array"
      BY <3>2 DEF Arrays
    <3>4. a = b /\ b.key = "cell"
      BY <1>1, <3>3, ToolFacts DEF MapType
    <3>5. QED
      BY <3>2, <3>4
  <2>7. QED
    BY <2>2, <2>5, <2>6 DEF ElementInv
<1>6. QED
  BY <1>1, <1>3, <1>4, <1>5 DEF CoreInv

\* Nothing has been counted, read or printed yet.
LEMMA InitPlaces ==
  ASSUME Init
  PROVE  CountInv /\ RemainderInv /\ CaughtInv
<1>1. MapType /\ LoopType
  BY InitTypes
<1>2. \A m \in Maps, k \in Keys : /\ prev[m][k] = 0 /\ out[m][k] = 0 /\ lines[m][k] = 0
                                  /\ Added(m, k) = 0 /\ acc[m][k].sum = 0
  <2>1. \A m \in Maps, k \in Keys : Zero[m][k] = 0
    BY DEF Zero
  <2>2. \A m \in Maps, k \in Keys : acc[m][k].sum = 0
    BY DEF Init, Elements, NoElement
  <2>3. QED
    BY <2>1, <2>2 DEF Init, Added
<1>3. phase = "sleep" /\ \A p, n, k, m : Seen(p, n, k, m) = prev[m][k]
  BY DEF Init, Seen, Reading
<1>4. CountInv
  <2>1. ASSUME NEW p, NEW n, NEW k \in Keys, NEW m \in Maps, Place(p, n, k, m)
        PROVE  CountOk(p, n, k, m)
    <3>0. tool.loop[p].unit \in Nat
      BY <1>1, <2>1, PlaceFacts
    <3>1. tool.loop[p].unit * 0 = 0
      BY <3>0
    <3>2. Balanced(0, 0, 0, 0, 0)
      BY DEF Balanced, Excess
    <3>3. QED
      BY <1>2, <1>3, <3>1, <3>2 DEF CountOk
  <2>2. QED
    BY <2>1 DEF CountInv
<1>5. RemainderInv
  <2>1. ASSUME NEW p, NEW n, NEW k \in Keys, NEW m \in Maps, Place(p, n, k, m)
        PROVE  prev[m][k] - tool.loop[p].unit * out[m][k] <= (tool.loop[p].unit - 1) * lines[m][k]
    <3>0. tool.loop[p].unit \in Nat
      BY <1>1, <2>1, PlaceFacts
    <3>1. tool.loop[p].unit * 0 = 0 /\ (tool.loop[p].unit - 1) * 0 = 0
      BY <3>0
    <3>2. QED
      BY <1>2, <3>1
  <2>2. \A m \in Maps, k \in BigKeys : prev[m][k] = 0
    BY <1>2, KeyFacts
  <2>3. \A i \in 1..Len(cur) : cur[i] < Word
    BY DEF Init
  <2>4. QED
    BY <2>1, <2>2, <2>3 DEF RemainderInv
<1>6. CaughtInv
  <2>1. \A o \in Owners : Idle(o)
    BY DEF Init, Idle
  <2>2. QED
    BY <1>2, <1>3, <2>1 DEF CaughtInv, CaughtOk
<1>7. QED
  BY <1>4, <1>5, <1>6

LEMMA InitProbes ==
  ASSUME Init
  PROVE  TotalInv
<1>1. MapType /\ LoopType /\ ElementInv
  BY InitTypes, InitCore DEF CoreInv
<1>2. \A o \in Owners : Idle(o) /\ Len(todo[o]) = 0 /\ stage[o] = "look"
  <2>1. \A o \in Owners : todo[o] = <<>> /\ stage[o] = "look"
    BY DEF Init
  <2>2. Len(<<>>) = 0
    OBVIOUS
  <2>3. QED
    BY <2>1, <2>2 DEF Idle
<1>3. TotalInv
  <2>1. ASSUME NEW x \in tool.averages
        PROVE  /\ \A o \in Owners : TotalOrder(o, x)
               /\ acc[x[1]][Cell].sum = acc[x[2]][Cell].sum + Cardinality(Between(x))
    <3>1. \A o \in Owners : TotalOrder(o, x)
      BY <1>2 DEF TotalOrder
    <3>2. Between(x) = {}
      BY <1>2 DEF Between
    <3>3. Cardinality(Between(x)) = 0
      BY <3>2, FS_EmptySet
    <3>4. x[1] \in Maps /\ x[2] \in Maps /\ Cell \in Keys
      BY <1>1, AverageFacts DEF Keys, MapType, Arrays, Maps
    <3>5. \A m \in Maps : acc[m][Cell].sum = 0
      BY <3>4 DEF Init, Elements, NoElement
    <3>6. QED
      BY <3>1, <3>3, <3>4, <3>5
  <2>2. QED
    BY <2>1 DEF TotalInv
<1>4. QED
  BY <1>3

-----------------------------------------------------------------------------
(* Theorems *)

LEMMA CoreInvStep ==
  ASSUME CoreInv, [Next]_vars
  PROVE  CoreInv'
<1>1. MapType /\ ProbeType /\ LoopType /\ ProbeInv /\ StampInv /\ ElementInv
  BY DEF CoreInv
<1>2. MapType' /\ ProbeType'
  BY <1>1, MapTypeStep, ProbeTypeStep
<1>3. LoopType' /\ ElementInv'
  BY <1>1, LoopTypeStep, ElementInvStep
<1>4. ProbeInv'
  BY <1>1, <1>2, ProbeInvStep
<1>5. StampInv'
  BY <1>1, <1>2, <1>4, StampInvStep
<1>6. QED
  BY <1>2, <1>3, <1>4, <1>5 DEF CoreInv

LEMMA DeltaInvStep ==
  ASSUME DeltaInv, [Next]_vars
  PROVE  DeltaInv'
<1>1. CoreInv /\ CountInv /\ TotalInv /\ CaughtInv
  BY DEF DeltaInv
<1>2. CoreInv'
  BY <1>1, CoreInvStep
<1>3. MapType' /\ ProbeType'
  BY <1>2 DEF CoreInv
<1>4. CountInv' /\ CaughtInv'
  BY <1>1, CountInvStep, CaughtInvStep
<1>5. TotalInv'
  BY <1>1, <1>3, TotalInvStep
<1>6. QED
  BY <1>2, <1>4, <1>5 DEF DeltaInv

\* The inductive invariant holds in every reachable state: what a probe in progress
\* still has to do, which stamps are left, how far printed, read and added values
\* are apart, and what the walk of a pass has seen.
THEOREM DeltaInvariant == Spec => []DeltaInv
<1>1. Init => DeltaInv
  BY InitCore, InitPlaces, InitProbes DEF DeltaInv
<1>2. DeltaInv /\ [Next]_vars => DeltaInv'
  BY DeltaInvStep
<1>3. QED
  BY <1>1, <1>2, PTL DEF Spec

\* The maps, the locals of the probes and the locals and snapshots of the loop keep
\* their types; no printed difference is negative.
THEOREM DeltaTypeCorrect == Spec => []TypeOK
<1>1. DeltaInv => TypeOK
  <2> SUFFICES ASSUME DeltaInv PROVE TypeOK
    OBVIOUS
  <2>1. MapType /\ ProbeType /\ LoopType
    BY DEF DeltaInv, CoreInv
  <2>2. phase \in {"sleep", "walk", "read"} /\ key \in Keys \cup {Null}
        /\ (phase = "read" => key \in Keys)
    BY <2>1 DEF LoopType
  <2>3. {prev, fed, landed, out, lines} \subseteq [Maps -> [Keys -> Nat]]
    BY <2>1 DEF LoopType, MapType
  <2>4. QED
    BY <2>1, <2>2, <2>3 DEF MapType, ProbeType, TypeOK
<1>2. QED
  BY <1>1, DeltaInvariant, PTL

\* A delay is measured from the latest start of the owner that ends an operation,
\* where the key of the stamp map identifies the owner.
THEOREM OwnDelayCorrect == Spec => []OwnDelay
<1>1. DeltaInv => OwnDelay
  <2> SUFFICES ASSUME DeltaInv, NEW o \in StampOwners
               PROVE  from[o] \in {NoStamp, <<o, calls[o]>>}
    BY DEF OwnDelay
  <2>1. MapType /\ StampInv /\ o \in Owners
    BY DEF DeltaInv, CoreInv, StampOwners
  <2>2. Stamps(o) \in StampMaps
    BY <2>1, PairFacts DEF MapType
  <2>3. QED
    BY <2>1, <2>2 DEF StampInv, StampOk
<1>2. QED
  BY <1>1, DeltaInvariant, PTL

\* An owner outside any operation has left no stamp in the map, unless a probe was
\* missed.
THEOREM ReleasedCorrect == Spec => []StampsReleased
<1>1. DeltaInv => StampsReleased
  <2> SUFFICES ASSUME DeltaInv, NEW o \in StampOwners, Idle(o), open[o] = 0, o \notin strays
               PROVE  stamp[Stamps(o)][o] = NoStamp
    BY DEF StampsReleased
  <2>1. MapType /\ StampInv /\ o \in Owners
    BY DEF DeltaInv, CoreInv, StampOwners
  <2>2. Stamps(o) \in StampMaps
    BY <2>1, PairFacts DEF MapType
  <2>3. stamp[Stamps(o)][o] # NoStamp => open[o] > 0 \/ Ending(o)
    BY <2>1, <2>2 DEF StampInv, StampOk
  <2>4. Len(todo[o]) = 0
    BY DEF Idle
  <2>5. QED
    BY <2>3, <2>4 DEF Ending
<1>2. QED
  BY <1>1, DeltaInvariant, PTL

\* The map of a group with a snapshot, at a key that has one, is a place of a pass.
LEMMA KeptPlace ==
  ASSUME MapType, NEW g \in Kept, NEW m \in Range(g.maps)
  PROVE  /\ m \in Maps
         /\ \E p \in DOMAIN tool.loop : \E n \in DOMAIN tool.loop[p].maps :
               /\ g = tool.loop[p]
               /\ \A k \in Keys \ BigKeys : Place(p, n, k, m)
<1>1. tool \in Tools
  BY DEF MapType
<1>2. PICK p \in DOMAIN tool.loop : g = tool.loop[p] /\ g.keep
  BY <1>1, LoopFacts DEF Kept
<1>3. PICK n \in DOMAIN g.maps : m = g.maps[n]
  BY DEF Range
<1>4. m \in Maps
  BY <1>1, <1>2, <1>3, LoopFacts
<1>5. n \in DOMAIN tool.loop[p].maps /\ \A k \in Keys \ BigKeys : Place(p, n, k, m)
  BY <1>2, <1>3 DEF Place
<1>6. QED
  BY <1>2, <1>4, <1>5

\* The printed differences never add up to more than what the handlers added under
\* the key, those adds included that were meant for another one and landed there
\* because the element they point to was replaced and used again.
THEOREM NoOvercountCorrect == Spec => []NoOvercount
<1>1. DeltaInv => NoOvercount
  <2> SUFFICES ASSUME DeltaInv, NEW g \in Kept, NEW m \in Range(g.maps),
                      NEW k \in Keys \ BigKeys
               PROVE  g.unit * out[m][k] <= Added(m, k)
    BY DEF NoOvercount
  <2>1. MapType /\ LoopType /\ CountInv
    BY DEF DeltaInv, CoreInv
  <2>2. PICK p \in DOMAIN tool.loop : \E n \in DOMAIN tool.loop[p].maps :
               g = tool.loop[p] /\ Place(p, n, k, m)
    BY <2>1, KeptPlace
  <2>3. PICK n \in DOMAIN tool.loop[p].maps : g = tool.loop[p] /\ Place(p, n, k, m)
    BY <2>2
  <2>4. m \in Maps
    BY <2>1, KeptPlace
  <2>5. CountOk(p, n, k, m)
    BY <2>1, <2>3, <2>4 DEF CountInv
  <2>6. /\ g.unit \in Nat \ {0} /\ out[m][k] \in Nat /\ prev[m][k] \in Nat
        /\ Seen(p, n, k, m) \in Nat /\ acc[m][k].sum \in Nat /\ Added(m, k) \in Nat
    BY <2>1, <2>3, <2>4, PlaceFacts
  <2>7. /\ Excess(Seen(p, n, k, m), prev[m][k]) \in Nat
        /\ Excess(acc[m][k].sum, Seen(p, n, k, m)) \in Nat /\ g.unit * out[m][k] \in Nat
    BY <2>6, ExcessFacts, TimesNat
  <2>8. g.unit * out[m][k] + Excess(Seen(p, n, k, m), prev[m][k])
          + Excess(acc[m][k].sum, Seen(p, n, k, m)) <= Added(m, k)
    BY <2>3, <2>5 DEF CountOk, Balanced
  <2>9. QED
    BY <2>6, <2>7, <2>8
<1>2. QED
  BY <1>1, DeltaInvariant, PTL

\* With no probe in progress, totals and counts stand for the same operations.
THEOREM TotalsCorrect == Spec => []TotalsMatchCounts
<1>1. DeltaInv => TotalsMatchCounts
  <2> SUFFICES ASSUME DeltaInv, \A o \in Owners : Idle(o), NEW x \in tool.averages
               PROVE  acc[x[1]][Cell].sum = acc[x[2]][Cell].sum
    BY DEF TotalsMatchCounts
  <2>1. MapType /\ TotalInv
    BY DEF DeltaInv, CoreInv
  <2>2. Between(x) = {}
    BY DEF Between
  <2>3. Cardinality(Between(x)) = 0
    BY <2>2, FS_EmptySet
  <2>4. x[2] \in Maps /\ Cell \in Keys
    BY <2>1, AverageFacts, KeyFacts DEF MapType
  <2>5. acc[x[2]][Cell].sum \in Nat
    BY <2>1, <2>4 DEF MapType
  <2>6. acc[x[1]][Cell].sum = acc[x[2]][Cell].sum + Cardinality(Between(x))
    BY <2>1 DEF TotalInv
  <2>7. QED
    BY <2>3, <2>5, <2>6
<1>2. QED
  BY <1>1, DeltaInvariant, PTL

\* A pass during which no probe ran has read every accumulator of the keys it is
\* meant to meet: the cells, or the keys of the map that the group is walked by.
THEOREM CaughtUpCorrect == Spec => []CaughtUp
<1>1. DeltaInv => CaughtUp
  <2> SUFFICES ASSUME DeltaInv, phase = "sleep", quiet, NEW g \in Kept,
                      NEW m \in Range(g.maps), NEW k \in Keys \ BigKeys, Visited(g, k)
               PROVE  prev[m][k] = acc[m][k].sum
    BY DEF CaughtUp
  <2>1. MapType /\ CaughtInv
    BY DEF DeltaInv, CoreInv
  <2>2. PICK p \in DOMAIN tool.loop : \E n \in DOMAIN tool.loop[p].maps :
               g = tool.loop[p] /\ Place(p, n, k, m)
    BY <2>1, KeptPlace
  <2>3. PICK n \in DOMAIN tool.loop[p].maps : g = tool.loop[p] /\ Place(p, n, k, m)
    BY <2>2
  <2>4. m \in Maps
    BY <2>1, KeptPlace
  <2>5. CaughtOk(p, n, k, m)
    BY <2>1, <2>3, <2>4 DEF CaughtInv
  <2>6. QED
    BY <2>3, <2>5 DEF CaughtOk, Past, Seen, Reading
<1>2. QED
  BY <1>1, DeltaInvariant, PTL

\* As long as no accumulator overflows, a loop without a gate loses nothing but the
\* remainders of its integer divisions.
THEOREM RemaindersCorrect == Spec /\ []NoOverflow => []OnlyRemaindersLost
<1>1. Init => RemainderInv
  BY InitPlaces
<1>2. DeltaInv /\ NoOverflow /\ RemainderInv /\ [Next]_vars => RemainderInv'
  BY RemainderInvStep DEF DeltaInv
<1>3. DeltaInv /\ RemainderInv => OnlyRemaindersLost
  <2> SUFFICES ASSUME DeltaInv, RemainderInv, NEW g \in Kept, g.gate = 0,
                      NEW m \in Range(g.maps), NEW k \in Keys
               PROVE  prev[m][k] - g.unit * out[m][k] <= (g.unit - 1) * lines[m][k]
    BY DEF OnlyRemaindersLost
  <2>1. MapType /\ LoopType
    BY DEF DeltaInv, CoreInv
  <2>2. PICK p \in DOMAIN tool.loop : \E n \in DOMAIN tool.loop[p].maps :
               g = tool.loop[p] /\ \A kk \in Keys \ BigKeys : Place(p, n, kk, m)
    BY <2>1, KeptPlace
  <2>3. PICK n \in DOMAIN tool.loop[p].maps :
               g = tool.loop[p] /\ \A kk \in Keys \ BigKeys : Place(p, n, kk, m)
    BY <2>2
  <2>4. m \in Maps
    BY <2>1, KeptPlace
  <2>5. CASE k \notin BigKeys
    BY <2>3, <2>4, <2>5 DEF RemainderInv
  <2>6. CASE k \in BigKeys
    <3>1. prev[m][k] = 0
      BY <2>4, <2>6 DEF RemainderInv
    <3>2. out[m][k] \in Nat /\ lines[m][k] \in Nat
      BY <2>1, <2>4 DEF LoopType
    <3>3. g \in GroupType
      BY <2>1, <2>3, LoopFacts DEF MapType
    <3>4. g.unit \in Nat \ {0} /\ g.unit - 1 \in Nat
      BY <3>3 DEF GroupType
    <3>5. g.unit * out[m][k] \in Nat /\ (g.unit - 1) * lines[m][k] \in Nat
      BY <3>2, <3>4, TimesNat
    <3>6. \A x, y \in Nat : 0 - x <= y
      OBVIOUS
    <3>7. QED
      BY <3>1, <3>5, <3>6
  <2>7. QED
    BY <2>5, <2>6
<1>4. QED
  BY <1>1, <1>2, <1>3, DeltaInvariant, PTL DEF Spec

=============================================================================
