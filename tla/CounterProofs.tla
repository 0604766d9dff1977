---------------------------- MODULE CounterProofs ----------------------------
(***************************************************************************)
(* Theorems about BpfCounter, for any tools of the shape ToolsAssumption   *)
(* describes, and any numbers of events, CPUs, keys, slots and entries.    *)
(***************************************************************************)
EXTENDS BpfCounter, TLAPS, FiniteSetTheorems, SequenceTheorems,
        WellFoundedInduction

-----------------------------------------------------------------------------
(* The inductive invariant *)

\* The key that the handler on c counts under, in the map of its operation.
Target(c) == KeyOf(event[c], Op(c))

\* The events counted under key k of map m.
Held(m, k) == IF bucket[m][k] = Null THEN {} ELSE val[m][bucket[m][k]]

\* Event e met another handler, or the loop, on its key in map m.
Raced(m, e) == <<m, e, "handler">> \in raced \/ <<m, e, "reader">> \in raced

\* The maps have their types, and an array cell has its slot.  No two keys have
\* the same place in a walk, and none has one before its bucket.
MapType ==
    /\ tool \in Tools
    /\ attr \in [Events -> [KeyKinds -> Keys]]
    /\ bucket \in [Maps -> [Keys \cup {Cell} -> Slots \cup {Null}]]
    /\ val \in [Maps -> [Slots -> SUBSET Events]]
    /\ \A m \in Maps : IsArray(m) => bucket[m][Cell] \in Slots
    /\ place \in [Maps -> [Keys -> Nat]]
    /\ \A m \in Maps, k \in Keys : Home[k] <= place[m][k]
    /\ \A m \in Maps, j, k \in Keys : place[m][j] = place[m][k] => j = k

\* A handler in progress has operations left and an event; it adds through a
\* pointer to a slot, and it never inserts into an array.
HandlerType ==
    /\ todo \in [CPUs -> Seq(Ops)]
    /\ event \in [CPUs -> Events \cup {Null}]
    /\ step \in [CPUs -> {"idle", "lookup", "add", "insert", "again"}]
    /\ ptr \in [CPUs -> Slots \cup {Null}]
    /\ \A c \in CPUs :
          /\ step[c] = "idle" <=> todo[c] = <<>>
          /\ step[c] # "idle" => event[c] \in Events
          /\ step[c] = "add" => ptr[c] \in Slots
          /\ step[c] \in {"insert", "again"} => Op(c).key # Cell

\* The loop is in a phase of its current pass, with the key the phase needs.
LoopType ==
    /\ pass \in 0..Len(tool.passes)
    /\ phase \in {"sleep", "diff", "walk", "peek", "look", "clear"}
    /\ phase = "sleep" <=> pass = 0
    /\ phase # "sleep" => (phase = "diff" <=> Current.style = "diff")
    /\ phase = "peek" => Current.style = "ahead"
    /\ phase = "clear" => Current.style # "snapshot"
    /\ key \in Keys \cup {Null} /\ ahead \in Keys \cup {Null}
    /\ keys \in Seq(Keys)
    /\ phase # "sleep" /\ Current.style # "collect" => keys = <<>>
    /\ phase \in {"look", "clear"} /\ Current.style \notin {"ahead", "collect"} =>
          cursor = key
    /\ phase \in {"peek", "look", "clear"} => key \in Keys

\* The history variables have their types.
HistoryType ==
    /\ prev \in [Maps -> SUBSET Events]
    /\ report \in [Maps -> [Events -> Seq(Keys \cup {Cell})]]
    /\ fired \subseteq Events /\ due \subseteq Events
    /\ handled \subseteq Maps \X Events

\* An event is on one CPU at most, and not yet counted in the maps of the
\* operations that are left there.
QueueInv ==
    /\ \A c \in CPUs : \A i, j \in 1..Len(todo[c]) :
          todo[c][i].map = todo[c][j].map => i = j
    /\ \A c \in CPUs : step[c] # "idle" => event[c] \in fired
    /\ \A c, d \in CPUs :
          step[c] # "idle" /\ step[d] # "idle" /\ event[c] = event[d] => c = d
    /\ \A c \in CPUs : \A i \in 1..Len(todo[c]) :
          <<todo[c][i].map, event[c]>> \notin handled
    /\ \A m \in Maps, e \in Events : <<m, e>> \in handled => e \in fired

\* Only counted events are in the slots of a map, or printed.
PlaceInv ==
    /\ \A m \in Maps, s \in Slots : \A e \in val[m][s] : <<m, e>> \in handled
    /\ \A m \in Maps, e \in Events : report[m][e] # <<>> => <<m, e>> \in handled

\* No two keys of a map share a slot, and no two slots an event.
SlotInv ==
    /\ \A m \in Maps : \A k, l \in Keys \cup {Cell} :
          bucket[m][k] = bucket[m][l] /\ bucket[m][k] # Null => k = l
    /\ \A m \in Maps, e \in Events : \A s, t \in Slots :
          e \in val[m][s] /\ e \in val[m][t] => s = t

\* What the loop has printed of a map is no longer in it, but for the key that
\* it is about to clear; of an array cell it is what the loop remembers.
PrintInv ==
    /\ \A m \in Incremental, e \in Events : Len(report[m][e]) <= 1
    /\ \A m \in Incremental : ~IsArray(m) => \A k \in Keys \cup {Cell} :
          \A e \in Held(m, k) : report[m][e] # <<>> => ReadWindow(m, k)
    /\ \A m \in Incremental : IsArray(m) =>
          /\ prev[m] \subseteq Held(m, Cell)
          /\ \A e \in Events : report[m][e] # <<>> <=> e \in prev[m]

\* A handler that raced with nobody adds to the slot of its key, inserts where
\* there is nothing, and finds again what it inserted.  Two handlers on one key
\* that do not both add have raced, and so has a handler with the loop when the
\* loop is about to clear its key.
RaceInv ==
    /\ \A c \in CPUs, m \in Maps, k \in Keys \cup {Cell} :
          InFlight(c, m, k) /\ ~Raced(m, event[c]) =>
            /\ step[c] = "add" => bucket[m][k] = ptr[c]
            /\ step[c] = "insert" => bucket[m][k] = Null
            /\ step[c] = "again" => \/ bucket[m][k] # Null
                                   \/ <<m, event[c], "full">> \in raced
    /\ \A c, d \in CPUs, m \in Maps, k \in Keys \cup {Cell} :
          /\ c # d /\ InFlight(c, m, k) /\ InFlight(d, m, k)
          /\ ~(step[c] = "add" /\ step[d] = "add")
          => Raced(m, event[c])
    /\ \A c \in CPUs, m \in Maps, k \in Keys \cup {Cell} :
          InFlight(c, m, k) /\ ReadWindow(m, k) => Raced(m, event[c])

\* An event that raced with nobody is under its own key.  Nothing is left to
\* lose under a key that a handler is about to create, or the loop to clear.
KeyInv ==
    /\ \A m \in Maps, k \in Keys \cup {Cell} : \A e \in Held(m, k) :
          k = KeyIn(e, m) \/ Raced(m, e)
    /\ \A c \in CPUs, m \in Maps, k \in Keys \cup {Cell} :
          InFlight(c, m, k) /\ step[c] = "insert" =>
            \A e \in Held(m, k) : Raced(m, e) \/ report[m][e] # <<>>
    /\ \A m \in Maps, k \in Keys \cup {Cell} : ReadWindow(m, k) =>
          \A e \in Held(m, k) : Raced(m, e) \/ report[m][e] # <<>>

\* A counted event that raced with nobody is under its key until it is printed,
\* and it is printed there.
KeptInv ==
    /\ \A m \in Maps, e \in Events : <<m, e>> \in handled =>
          \/ Raced(m, e) \/ <<m, e, "full">> \in raced
          \/ report[m][e] # <<>>
          \/ e \in Held(m, KeyIn(e, m))
    /\ \A m \in Maps, e \in Events : \A k \in Range(report[m][e]) :
          k = KeyIn(e, m) \/ Raced(m, e)

-----------------------------------------------------------------------------
(* The walk *)

\* What the current pass still has to print: in its map when it began, not
\* printed, raced with nobody.
Owes(m, e) == e \in due /\ m = Current.map /\ ~Raced(m, e) /\ report[m][e] = <<>>

\* In the walk of the current pass, key j comes before key k.
Before(j, k) == j \in Keys /\ place[Current.map][j] < place[Current.map][k]

\* Once the loop is done with its key, it still comes to key k.
Onward(k) ==
    /\ Current.style = "ahead" => ahead # Null /\ (ahead = k \/ Before(ahead, k))
    /\ Current.style = "collect" => \E i \in 1..Len(keys) : keys[i] = k
    /\ Current.style \notin {"ahead", "collect"} => Before(cursor, k)

\* The walk of the current pass has not begun.
First == phase = "walk" /\ cursor = Current.start /\ key = Null /\ keys = <<>>

\* The pass still comes to key k.
Coming(k) ==
    /\ phase = "walk" => \/ First \/ Before(cursor, k)
                         \/ \E i \in 1..Len(keys) : keys[i] = k
    /\ phase = "peek" => key = k \/ Before(key, k)
    /\ phase = "look" => key = k \/ Onward(k)
    /\ phase = "clear" => Onward(k)

\* The pass still comes to the key of whatever it owes, and finds it there.
WalkInv ==
    /\ missed = {}
    /\ phase # "sleep" => \A m \in Maps, e \in Events, k \in Keys \cup {Cell} :
          Owes(m, e) /\ k = KeyIn(e, m) =>
            e \in Held(m, k) /\ (phase # "diff" => Coming(k))

CounterInv ==
    /\ MapType /\ HandlerType /\ LoopType /\ HistoryType
    /\ QueueInv /\ PlaceInv /\ SlotInv /\ PrintInv
    /\ RaceInv /\ KeyInv /\ KeptInv /\ WalkInv

-----------------------------------------------------------------------------
(* Facts about the constants, the description of a tool, and its keys *)

\* There is a slot for an array cell.
LEMMA SlotFacts == Slots # {} /\ Null \notin Slots /\ Null \notin Keys /\ Cell \notin Keys
BY ConstantsAssumption, FS_EmptySet

\* What the operations and the passes of a tool are.
LEMMA ToolFacts ==
  ASSUME tool \in Tools
  PROVE  /\ \A h \in tool.handlers : h \in Seq(Ops)
         /\ \A h \in tool.handlers : \A i, j \in 1..Len(h) :
               h[i].map = h[j].map => i = j
         /\ \A op \in Ops :
               op.map \in Maps /\ op.key \in KeyKinds \cup {Cell}
               /\ op.flag \in {"ANY", "NOEXIST", "ZERO"}
         /\ \A o, p \in Ops : o.map = p.map => o = p
<1>1. WellFormed(tool)
  BY ToolsAssumption
<1>2. ASSUME NEW h \in tool.handlers
      PROVE  /\ h \in Seq(Ops)
             /\ \A i, j \in 1..Len(h) : h[i].map = h[j].map => i = j
  <2>1. h \in Seq(OpType)
    BY <1>1 DEF WellFormed
  <2>2. DOMAIN h = 1..Len(h) /\ Len(h) \in Nat
    BY <2>1, LenProperties
  <2>3. \A i \in 1..Len(h) : h[i] \in Ops
    BY <2>2 DEF Ops, Range
  <2>4. h \in Seq(Ops)
    BY <2>1, <2>2, <2>3
  <2>5. QED
    BY <1>1, <2>2, <2>4 DEF WellFormed
<1>3. ASSUME NEW o \in Ops
      PROVE  \E h \in tool.handlers : \E i \in DOMAIN h : o = h[i] /\ o \in OpType
  <2>1. PICK h \in tool.handlers : o \in Range(h)
    BY DEF Ops
  <2>2. h \in Seq(OpType)
    BY <1>1 DEF WellFormed
  <2>3. PICK i \in DOMAIN h : o = h[i]
    BY <2>1 DEF Range
  <2>4. o \in OpType
    BY <2>2, <2>3, LenProperties
  <2>5. QED
    BY <2>3, <2>4
<1>4. \A o, p \in Ops : o.map = p.map => o = p
  BY <1>1, <1>3 DEF WellFormed
<1>5. QED
  BY <1>2, <1>3, <1>4 DEF Maps, KeyKinds, OpType

\* What the passes of a tool are.
LEMMA PassFacts ==
  ASSUME tool \in Tools
  PROVE  /\ Len(tool.passes) \in Nat \ {0}
         /\ DOMAIN tool.passes = 1..Len(tool.passes)
         /\ \A p \in 1..Len(tool.passes) :
               /\ tool.passes[p].map \in Maps
               /\ IsArray(tool.passes[p].map) <=> tool.passes[p].style = "diff"
         /\ \A p, q \in 1..Len(tool.passes) :
               tool.passes[p].map = tool.passes[q].map => p = q
<1>1. WellFormed(tool)
  BY ToolsAssumption
<1>2. /\ Len(tool.passes) \in Nat \ {0}
      /\ DOMAIN tool.passes = 1..Len(tool.passes)
  <2>1. tool.passes \in Seq(PassType) /\ tool.passes # <<>>
    BY <1>1 DEF WellFormed
  <2>2. QED
    BY <2>1, LenProperties, EmptySeq
<1>3. ASSUME NEW p \in 1..Len(tool.passes)
      PROVE  /\ tool.passes[p].map \in Maps
             /\ IsArray(tool.passes[p].map) <=> tool.passes[p].style = "diff"
  <2>1. PICK h \in tool.handlers : \E i \in DOMAIN h :
            /\ h[i].map = tool.passes[p].map
            /\ h[i].key = Cell <=> tool.passes[p].style = "diff"
    BY <1>1, <1>2 DEF WellFormed
  <2>2. PICK i \in DOMAIN h :
            /\ h[i].map = tool.passes[p].map
            /\ h[i].key = Cell <=> tool.passes[p].style = "diff"
    BY <2>1
  <2>3. h[i] \in Ops
    BY DEF Ops, Range
  <2>4. \A op \in Ops : op.map = h[i].map => op = h[i]
    BY <2>3, ToolFacts
  <2>5. tool.passes[p].map \in Maps
    BY <2>2, <2>3 DEF Maps
  <2>6. IsArray(tool.passes[p].map) <=> tool.passes[p].style = "diff"
    BY <2>2, <2>3, <2>4 DEF IsArray
  <2>7. QED
    BY <1>1, <1>2, <2>5, <2>6 DEF WellFormed
<1>4. QED
  BY <1>1, <1>2, <1>3 DEF WellFormed

\* The key of an event for an operation is its key in the operation's map.
LEMMA KeyFacts ==
  ASSUME tool \in Tools, attr \in [Events -> [KeyKinds -> Keys]],
         NEW e \in Events, NEW op \in Ops
  PROVE  /\ KeyIn(e, op.map) = KeyOf(e, op)
         /\ KeyOf(e, op) \in Keys \cup {Cell}
         /\ op.key # Cell => KeyOf(e, op) \in Keys
         /\ op.key = Cell <=> IsArray(op.map)
         /\ op.key = Cell => KeyOf(e, op) = Cell
<1>1. \A o \in Ops : o.map = op.map => o = op
  BY ToolFacts
<1>2. op = CHOOSE o \in Ops : o.map = op.map
  BY <1>1
<1>3. KeyIn(e, op.map) = KeyOf(e, op)
  BY <1>2 DEF KeyIn
<1>4. op.key # Cell => KeyOf(e, op) \in Keys
  BY ToolFacts DEF KeyOf
<1>5. QED
  BY <1>1, <1>3, <1>4 DEF KeyOf, IsArray

\* A bucket begins at a natural number.
LEMMA HomeFacts ==
  ASSUME NEW k \in Keys
  PROVE  /\ Home[k] \in Nat
         /\ \A i \in DOMAIN KeyOrder : KeyOrder[i] = k => i \in Nat /\ Home[k] <= i
<1>1. \E i \in DOMAIN KeyOrder : KeyOrder[i] = k
  BY DEF Keys, Range
<1>2. DOMAIN KeyOrder \subseteq Nat
  BY ConstantsAssumption, LenProperties
<1>3. \A i \in DOMAIN KeyOrder : KeyOrder[i] = k => Home[k] \in 1..i
  BY ConstantsAssumption
<1>4. QED
  BY <1>1, <1>2, <1>3

\* get_next_key gives a key that is there, the first of those after the one the
\* walk is at, or the first of all.
LEMMA NextKeyFacts ==
  ASSUME MapType, NEW m \in Maps, NEW k
  PROVE  /\ NextKey(m, k) \in Keys \cup {Null}
         /\ NextKey(m, k) = Null =>
              \A u \in Used(m) : k \in Used(m) /\ u \notin After(m, k)
         /\ NextKey(m, k) # Null =>
              /\ NextKey(m, k) \in Used(m)
              /\ \A u \in Used(m) : k \notin Used(m) \/ u \in After(m, k) =>
                    NextKey(m, k) = u \/ place[m][NextKey(m, k)] < place[m][u]
<1> DEFINE from == IF k \in Used(m) THEN After(m, k) ELSE Used(m)
           T == {place[m][j] : j \in from}
           Less == {ss \in Nat \X Nat : ss[1] < ss[2]}
           Least(j) == \A i \in from : place[m][j] <= place[m][i]
<1>1. from \subseteq Used(m) /\ Used(m) \subseteq Keys
  BY DEF After, Used
<1>2. \A j \in Keys : place[m][j] \in Nat
  BY DEF MapType
<1>3. NextKey(m, k) = IF from = {} THEN Null ELSE CHOOSE j \in from : Least(j)
  BY DEF NextKey
<1>4. CASE from = {}
  BY <1>3, <1>4
<1>5. CASE from # {}
  <2>1. T # {} /\ T \subseteq Nat
    BY <1>1, <1>2, <1>5
  <2>2. PICK x \in T : \A y \in T : ~(<<y, x>> \in Less)
    <3>1. IsWellFoundedOn(Less, Nat)
      BY NatLessThanWellFounded DEF OpToRel
    <3>2. QED
      BY <2>1, <3>1, WFMin
  <2>3. ASSUME NEW y \in T PROVE x <= y
    <3>1. x \in Nat /\ y \in Nat /\ ~(<<y, x>> \in Less)
      BY <2>1, <2>2
    <3> HIDE DEF T
    <3>2. QED
      BY <3>1
  <2>4. \E j \in from : Least(j)
    BY <2>3
  <2> DEFINE n == NextKey(m, k)
  <2>5. n \in from /\ Least(n)
    <3> HIDE DEF from, Least
    <3>1. QED
      BY <1>3, <1>5, <2>4
  <2>6. ASSUME NEW u \in from PROVE n = u \/ place[m][n] < place[m][u]
    <3>1. n \in Keys /\ u \in Keys /\ place[m][n] <= place[m][u]
      BY <1>1, <2>5
    <3>2. place[m][n] = place[m][u] => n = u
      BY <3>1 DEF MapType
    <3>3. place[m][n] \in Nat /\ place[m][u] \in Nat
      BY <1>2, <3>1
    <3> HIDE DEF n
    <3>4. QED
      BY <3>1, <3>2, <3>3
  <2>7. n \in Used(m) /\ n \in Keys /\ n # Null
    BY <1>1, <2>5, SlotFacts
  <2>8. QED
    BY <2>6, <2>7
<1>6. QED
  BY <1>4, <1>5

\* The description of the tool never changes, nor do the keys of the events.
LEMMA SameTool ==
  ASSUME tool' = tool, attr' = attr
  PROVE  /\ Ops' = Ops /\ Maps' = Maps /\ KeyKinds' = KeyKinds
         /\ Incremental' = Incremental
         /\ \A m : IsArray(m)' <=> IsArray(m)
         /\ \A e, op : KeyOf(e, op)' = KeyOf(e, op)
         /\ \A e, m : KeyIn(e, m)' = KeyIn(e, m)
BY DEF Ops, Maps, KeyKinds, Incremental, IsArray, KeyOf, KeyIn

\* Every step leaves them alone.
LEMMA ToolKept ==
  ASSUME [Next]_vars
  PROVE  tool' = tool /\ attr' = attr
BY DEF Next, vars, HandlerStep, ReaderStep, Fire, Lookup, Add, InsertAny,
   InsertNoExist, InsertZero, LookupAgain, WakeUp, Diff, Walk, Peek, Look, Clear

\* What the invariants say of the operation of a handler in progress.
LEMMA OpFacts ==
  ASSUME MapType, HandlerType, NEW c \in CPUs, step[c] # "idle"
  PROVE  /\ Op(c) \in Ops /\ Op(c).map \in Maps
         /\ Len(todo[c]) \in Nat \ {0} /\ Op(c) = todo[c][1]
         /\ event[c] \in Events
         /\ Target(c) \in Keys \cup {Cell}
         /\ KeyIn(event[c], Op(c).map) = Target(c)
         /\ step[c] \in {"insert", "again"} => Target(c) \in Keys
         /\ bucket[Op(c).map][Target(c)] = Null => Target(c) \in Keys /\ Op(c).key # Cell
<1>1. todo[c] \in Seq(Ops) /\ todo[c] # <<>> /\ event[c] \in Events
  BY DEF HandlerType
<1>2. Op(c) \in Ops /\ Len(todo[c]) \in Nat \ {0} /\ Op(c) = todo[c][1]
  BY <1>1, HeadTailProperties, EmptySeq DEF Op
<1>3. Op(c).map \in Maps
  BY <1>2, ToolFacts DEF MapType
<1>4. tool \in Tools /\ attr \in [Events -> [KeyKinds -> Keys]]
  BY DEF MapType
<1>5. /\ Target(c) \in Keys \cup {Cell}
      /\ KeyIn(event[c], Op(c).map) = Target(c)
      /\ Op(c).key # Cell => Target(c) \in Keys
      /\ Op(c).key = Cell <=> IsArray(Op(c).map)
      /\ Op(c).key = Cell => Target(c) = Cell
  BY <1>1, <1>2, <1>4, KeyFacts DEF Target
<1>6. bucket[Op(c).map][Target(c)] = Null => Op(c).key # Cell
  BY <1>3, <1>5, SlotFacts DEF MapType
<1>7. QED
  BY <1>1, <1>2, <1>3, <1>5, <1>6 DEF HandlerType

\* The pass the loop is in.
LEMMA CurrentFacts ==
  ASSUME MapType, LoopType, phase # "sleep"
  PROVE  /\ pass \in 1..Len(tool.passes) /\ Current.map \in Maps
         /\ IsArray(Current.map) <=> phase = "diff"
         /\ phase # "diff" => Current.style # "diff"
<1>1. pass \in 1..Len(tool.passes)
  BY PassFacts DEF MapType, LoopType
<1>2. QED
  BY <1>1, PassFacts DEF MapType, LoopType, Current

-----------------------------------------------------------------------------
(* What the operations on a map do to what is held under its keys *)

\* Key k comes nearer to the beginning of a walk; the others keep their order.
Moved(m, k) ==
    /\ \A n \in Maps : n # m => place'[n] = place[n]
    /\ \A i, j \in Keys : i # k /\ j # k /\ place[m][i] < place[m][j] =>
          place'[m][i] < place'[m][j]
    /\ \A j \in Keys : place[m][k] < place[m][j] => place'[m][k] < place'[m][j]

\* Slot s, which was free, takes the place of what k had, with value v.
Put(m, k, v, s) ==
    /\ Moved(m, k)
    /\ s \in Slots /\ \A l \in Keys \cup {Cell} : bucket[m][l] # s
    /\ bucket'[m][k] = s /\ val'[m][s] = v
    /\ \A n \in Maps, l \in Keys \cup {Cell} :
          n # m \/ l # k => bucket'[n][l] = bucket[n][l]
    /\ \A n \in Maps, t \in Slots : n # m \/ t # s => val'[n][t] = val[n][t]

\* Key k is removed.
Drop(m, k) ==
    /\ bucket'[m][k] = Null /\ val' = val /\ place' = place
    /\ \A n \in Maps, l \in Keys \cup {Cell} :
          n # m \/ l # k => bucket'[n][l] = bucket[n][l]

\* Event e is added to slot s.
Grow(m, s, e) ==
    /\ s \in Slots /\ bucket' = bucket /\ place' = place
    /\ val'[m][s] = val[m][s] \cup {e}
    /\ \A n \in Maps, t \in Slots : n # m \/ t # s => val'[n][t] = val[n][t]

\* A key at the head of its bucket has a place of its own.
LEMMA HeadMoves ==
  ASSUME MapType, NEW m \in Maps, NEW k \in Keys, ToHead(m, k)
  PROVE  /\ place' \in [Maps -> [Keys -> Nat]]
         /\ \A n \in Maps, j \in Keys : Home[j] <= place'[n][j]
         /\ \A n \in Maps, i, j \in Keys : place'[n][i] = place'[n][j] => i = j
         /\ Moved(m, k)
<1> DEFINE h == Home[k]
           P(j) == place[m][j]
           Q(j) == IF j = k THEN h ELSE IF P(j) \in h..(P(k) - 1) THEN P(j) + 1 ELSE P(j)
<1>1. place' = [place EXCEPT ![m] = [j \in Keys |-> Q(j)]]
  BY DEF ToHead, MapType
<1>2. h \in Nat /\ \A j \in Keys : P(j) \in Nat /\ Home[j] \in Nat /\ Home[j] <= P(j)
  BY HomeFacts DEF MapType
<1>3. \A i, j \in Keys : P(i) = P(j) => i = j
  BY DEF MapType
<1>4. \A j \in Keys : place'[m][j] = Q(j)
  BY <1>1 DEF MapType
<1>5. \A n \in Maps : n # m => place'[n] = place[n]
  BY <1>1 DEF MapType
<1>6. \A j \in Keys : Q(j) \in Nat /\ Home[j] <= Q(j)
  <2> HIDE DEF P
  <2>1. QED
    BY <1>2
<1>7. place' \in [Maps -> [Keys -> Nat]]
  <2> HIDE DEF Q
  <2>1. QED
    BY <1>1, <1>6 DEF MapType
<1>8. ASSUME NEW i \in Keys, NEW j \in Keys
      PROVE  /\ Q(i) = Q(j) => i = j
             /\ i # k /\ j # k /\ P(i) < P(j) => Q(i) < Q(j)
  <2>1. /\ P(i) \in Nat /\ P(j) \in Nat /\ P(k) \in Nat /\ h \in Nat /\ h <= P(k)
        /\ P(i) = P(j) => i = j
        /\ P(i) = P(k) => i = k
        /\ P(j) = P(k) => j = k
    BY <1>2, <1>3
  <2> HIDE DEF P, h
  <2>2. CASE i = k
    BY <2>1, <2>2
  <2>3. CASE j = k
    BY <2>1, <2>3
  <2>4. CASE i # k /\ j # k
    BY <2>1, <2>4
  <2>5. QED
    BY <2>2, <2>3, <2>4
<1>9. \A j \in Keys : P(k) < P(j) => Q(k) < Q(j)
  <2> HIDE DEF P
  <2>1. QED
    BY <1>2
<1>10. Moved(m, k)
  <2> HIDE DEF Q
  <2>1. QED
    BY <1>4, <1>5, <1>8, <1>9 DEF Moved
<1>11. ASSUME NEW n \in Maps, NEW i \in Keys, NEW j \in Keys
       PROVE  Home[j] <= place'[n][j] /\ (place'[n][i] = place'[n][j] => i = j)
  <2> HIDE DEF Q
  <2>1. CASE n = m
    BY <1>4, <1>6, <1>8, <2>1
  <2>2. CASE n # m
    BY <1>5, <2>2 DEF MapType
  <2>3. QED
    BY <2>1, <2>2
<1>12. QED
  BY <1>7, <1>10, <1>11

\* A stored slot was free and is typed.
LEMMA StorePuts ==
  ASSUME MapType, NEW m \in Maps, NEW k \in Keys, NEW v \in SUBSET Events,
         Store(m, k, v), tool' = tool, attr' = attr
  PROVE  MapType' /\ \E s \in Slots : Put(m, k, v, s)
<1> USE SlotFacts DEF MapType
<1>1. PICK s \in Slots \ Resident(m) :
          /\ bucket' = [bucket EXCEPT ![m][k] = s]
          /\ val' = [val EXCEPT ![m][s] = v]
          /\ ToHead(m, k)
  BY DEF Store
<1>2. \A l \in Keys \cup {Cell} : bucket[m][l] # s
  BY DEF Resident
<1>3. Put(m, k, v, s)
  BY <1>1, <1>2, HeadMoves DEF Put
<1>4. bucket' \in [Maps -> [Keys \cup {Cell} -> Slots \cup {Null}]]
  BY <1>1
<1>5. val' \in [Maps -> [Slots -> SUBSET Events]]
  BY <1>1
<1>6. \A n \in Maps : IsArray(n) => bucket'[n][Cell] \in Slots
  BY <1>1
<1>7. QED
  BY <1>1, <1>3, <1>4, <1>5, <1>6, HeadMoves, SameTool

\* A removed key is typed.
LEMMA DeleteDrops ==
  ASSUME MapType, NEW m \in Maps, NEW k \in Keys, val' = val, place' = place,
         bucket' = [bucket EXCEPT ![m][k] = Null], tool' = tool, attr' = attr
  PROVE  MapType' /\ Drop(m, k)
<1> USE SlotFacts DEF MapType
<1>1. Drop(m, k)
  BY DEF Drop
<1>2. bucket' \in [Maps -> [Keys \cup {Cell} -> Slots \cup {Null}]]
  OBVIOUS
<1>3. \A n \in Maps : IsArray(n) => bucket'[n][Cell] \in Slots
  OBVIOUS
<1>4. QED
  BY <1>1, <1>2, <1>3, SameTool

\* An add through a pointer is typed.
LEMMA AddGrows ==
  ASSUME MapType, HandlerType, NEW c \in CPUs, Add(c)
  PROVE  MapType' /\ Grow(Op(c).map, ptr[c], event[c])
<1> USE DEF MapType
<1>1. /\ tool' = tool /\ attr' = attr /\ bucket' = bucket /\ place' = place
      /\ step[c] = "add"
      /\ val' = [val EXCEPT ![Op(c).map][ptr[c]] = @ \cup {event[c]}]
  BY DEF Add
<1>2. Op(c).map \in Maps /\ event[c] \in Events /\ ptr[c] \in Slots
  BY <1>1, OpFacts DEF HandlerType
<1>3. val' \in [Maps -> [Slots -> SUBSET Events]]
  BY <1>1, <1>2
<1>4. Grow(Op(c).map, ptr[c], event[c])
  BY <1>1, <1>2 DEF Grow
<1>5. QED
  BY <1>1, <1>3, <1>4, SameTool

\* A free slot that takes the place of a key's changes what is held there only.
LEMMA PutHeld ==
  ASSUME MapType, NEW m \in Maps, NEW k \in Keys, NEW v, NEW s \in Slots,
         Put(m, k, v, s)
  PROVE  /\ Held(m, k)' = v
         /\ \A n \in Maps, l \in Keys \cup {Cell} :
               n # m \/ l # k => Held(n, l)' = Held(n, l)
<1>1. Held(m, k)' = v
  BY SlotFacts DEF Put, Held
<1>2. ASSUME NEW n \in Maps, NEW l \in Keys \cup {Cell}, n # m \/ l # k
      PROVE  Held(n, l)' = Held(n, l)
  <2>1. bucket'[n][l] = bucket[n][l] /\ bucket[n][l] \in Slots \cup {Null}
    BY <1>2 DEF Put, MapType
  <2>2. bucket[n][l] # Null => val'[n][bucket[n][l]] = val[n][bucket[n][l]]
    BY <2>1 DEF Put
  <2>3. QED
    BY <2>1, <2>2 DEF Held
<1>3. QED
  BY <1>1, <1>2

\* A removed key holds nothing.
LEMMA DropHeld ==
  ASSUME NEW m \in Maps, NEW k \in Keys, Drop(m, k)
  PROVE  /\ Held(m, k)' = {}
         /\ \A n \in Maps, l \in Keys \cup {Cell} :
               n # m \/ l # k => Held(n, l)' = Held(n, l)
BY DEF Drop, Held

\* An added event is held under the key whose slot it is, if any.
LEMMA GrowHeld ==
  ASSUME MapType, NEW m \in Maps, NEW s \in Slots, NEW e, Grow(m, s, e)
  PROVE  \A n \in Maps, l \in Keys \cup {Cell} :
             Held(n, l)' = IF n = m /\ bucket[m][l] = s THEN Held(n, l) \cup {e}
                           ELSE Held(n, l)
<1> SUFFICES ASSUME NEW n \in Maps, NEW l \in Keys \cup {Cell}
             PROVE  Held(n, l)' = IF n = m /\ bucket[m][l] = s
                                  THEN Held(n, l) \cup {e} ELSE Held(n, l)
  OBVIOUS
<1>1. bucket'[n][l] = bucket[n][l] /\ bucket[n][l] \in Slots \cup {Null}
  BY DEF Grow, MapType
<1>2. CASE bucket[n][l] = Null
  BY <1>1, <1>2, SlotFacts DEF Held
<1>3. CASE bucket[n][l] # Null
  BY <1>1, <1>3 DEF Held, Grow
<1>4. QED
  BY <1>2, <1>3

-----------------------------------------------------------------------------
(* What the steps do, one operation at a time *)

\* A missing key is created with a count of 1: unless the map is full, or somebody
\* else has created it and the tool does not overwrite it.
LEMMA Insertions ==
  ASSUME MapType, HandlerType, NEW c \in CPUs, InsertAny(c) \/ InsertNoExist(c)
  PROVE  /\ step[c] = "insert" /\ Advance(c) /\ MapType'
         /\ UNCHANGED <<tool, attr, event, readerVars, fired, report, due, missed>>
         /\ \/ /\ \E s \in Slots : Put(Op(c).map, Target(c), {event[c]}, s)
               /\ raced' = raced
            \/ /\ UNCHANGED mapVars
               /\ raced' = raced \cup {<<Op(c).map, event[c], "full">>}
            \/ /\ UNCHANGED mapVars /\ raced' = raced
               /\ bucket[Op(c).map][Target(c)] # Null
<1>1. step[c] = "insert" /\ tool' = tool /\ attr' = attr /\ Advance(c)
  BY DEF InsertAny, InsertNoExist
<1>2. Op(c).map \in Maps /\ Target(c) \in Keys /\ {event[c]} \in SUBSET Events
  BY <1>1, OpFacts
<1>3. UNCHANGED <<event, readerVars, fired, report, due, missed>>
  BY DEF InsertAny, InsertNoExist
<1>4. UNCHANGED mapVars => MapType'
  BY <1>1, SameTool DEF mapVars, MapType
<1>5. CASE Store(Op(c).map, Target(c), {event[c]}) /\ raced' = raced
  BY <1>1, <1>2, <1>3, <1>5, StorePuts
<1>6. CASE UNCHANGED mapVars /\ raced' = raced \cup Races(Op(c).map, {event[c]}, "full")
  BY <1>1, <1>3, <1>4, <1>6 DEF Races
<1>7. CASE UNCHANGED <<mapVars, raced>> /\ bucket[Op(c).map][Target(c)] # Null
  BY <1>1, <1>3, <1>4, <1>7
<1>8. QED
  BY <1>5, <1>6, <1>7 DEF InsertAny, InsertNoExist, Target

\* irq_stat creates its key with nothing in it.
LEMMA ZeroInsertion ==
  ASSUME MapType, HandlerType, NEW c \in CPUs, InsertZero(c)
  PROVE  /\ step[c] = "insert" /\ MapType' /\ step' = [step EXCEPT ![c] = "again"]
         /\ UNCHANGED <<handled, tool, attr, todo, event, ptr, readerVars, fired,
                        report, due, missed>>
         /\ \/ /\ \E s \in Slots : Put(Op(c).map, Target(c), {}, s)
               /\ raced' = raced
            \/ /\ UNCHANGED mapVars
               /\ raced' = raced \cup {<<Op(c).map, event[c], "full">>}
<1>1. /\ step[c] = "insert" /\ tool' = tool /\ attr' = attr
      /\ step' = [step EXCEPT ![c] = "again"]
      /\ UNCHANGED <<handled, todo, event, ptr, readerVars, fired, report, due, missed>>
  BY DEF InsertZero
<1>2. Op(c).map \in Maps /\ Target(c) \in Keys
  BY <1>1, OpFacts
<1>3. CASE Store(Op(c).map, Target(c), {}) /\ raced' = raced
  BY <1>1, <1>2, <1>3, StorePuts
<1>4. CASE UNCHANGED mapVars /\ raced' = raced \cup Races(Op(c).map, {event[c]}, "full")
  BY <1>1, <1>4, SameTool DEF Races, mapVars, MapType
<1>5. QED
  BY <1>3, <1>4 DEF InsertZero, Target

\* The loop clears the key it has read.
LEMMA Clearings ==
  ASSUME MapType, LoopType, Clear
  PROVE  /\ MapType' /\ Current.map \in Maps /\ key \in Keys
         /\ \/ UNCHANGED mapVars /\ bucket[Current.map][key] = Null
            \/ \E s \in Slots : Put(Current.map, key, {}, s)
            \/ Drop(Current.map, key)
<1>1. phase = "clear" /\ tool' = tool /\ attr' = attr
  BY DEF Clear
<1>2. Current.map \in Maps /\ key \in Keys
  BY <1>1, CurrentFacts DEF LoopType
<1>3. CASE UNCHANGED mapVars /\ bucket[Current.map][key] = Null
  BY <1>1, <1>2, <1>3, SameTool DEF mapVars, MapType
<1>4. CASE Store(Current.map, key, {})
  BY <1>1, <1>2, <1>4, StorePuts
<1>5. CASE /\ bucket' = [bucket EXCEPT ![Current.map][key] = Null]
           /\ val' = val /\ place' = place
  BY <1>1, <1>2, <1>5, DeleteDrops
<1>6. QED
  BY <1>3, <1>4, <1>5 DEF Clear

\* The step from one operation of a handler to the next.
LEMMA Advances ==
  ASSUME MapType, HandlerType, NEW c \in CPUs, step[c] # "idle", Advance(c)
  PROVE  /\ \A d \in CPUs : d # c =>
               todo'[d] = todo[d] /\ step'[d] = step[d] /\ ptr'[d] = ptr[d]
         /\ todo'[c] = Tail(todo[c]) /\ todo'[c] \in Seq(Ops)
         /\ Len(todo'[c]) = Len(todo[c]) - 1
         /\ \A i \in 1..Len(todo'[c]) : todo'[c][i] = todo[c][i + 1]
         /\ step'[c] \in {"idle", "lookup"} /\ (step'[c] = "idle" <=> todo'[c] = <<>>)
         /\ handled' = handled \cup {<<Op(c).map, event[c]>>}
         /\ todo' \in [CPUs -> Seq(Ops)]
         /\ step' \in [CPUs -> {"idle", "lookup", "add", "insert", "again"}]
         /\ ptr' \in [CPUs -> Slots \cup {Null}]
<1>1. todo[c] \in Seq(Ops) /\ todo[c] # <<>>
  BY DEF HandlerType
<1>2. /\ Tail(todo[c]) \in Seq(Ops) /\ Len(Tail(todo[c])) = Len(todo[c]) - 1
      /\ \A i \in 1..Len(Tail(todo[c])) : Tail(todo[c])[i] = todo[c][i + 1]
  BY <1>1, HeadTailProperties
<1>3. /\ todo' = [todo EXCEPT ![c] = Tail(todo[c])]
      /\ step' = [step EXCEPT ![c] = IF Tail(todo[c]) = <<>> THEN "idle" ELSE "lookup"]
      /\ ptr' = [ptr EXCEPT ![c] = Null]
      /\ handled' = handled \cup {<<Op(c).map, event[c]>>}
  BY DEF Advance
<1>4. todo'[c] = Tail(todo[c]) /\ todo' \in [CPUs -> Seq(Ops)]
  BY <1>2, <1>3 DEF HandlerType
<1>5. /\ step'[c] \in {"idle", "lookup"} /\ (step'[c] = "idle" <=> todo'[c] = <<>>)
      /\ step' \in [CPUs -> {"idle", "lookup", "add", "insert", "again"}]
      /\ ptr' \in [CPUs -> Slots \cup {Null}]
  BY <1>3, <1>4 DEF HandlerType
<1>6. \A d \in CPUs : d # c =>
         todo'[d] = todo[d] /\ step'[d] = step[d] /\ ptr'[d] = ptr[d]
  BY <1>3 DEF HandlerType
<1>7. QED
  BY <1>2, <1>3, <1>4, <1>5, <1>6

\* The loop leaves the handlers alone, and the traces of what they have done.
LEMMA LoopFrame ==
  ASSUME ReaderStep
  PROVE  UNCHANGED <<todo, event, step, ptr, handled, fired>>
BY DEF ReaderStep, WakeUp, Diff, Walk, Peek, Look, Clear, handlerVars

-----------------------------------------------------------------------------
(* Types *)

\* The next operation, or the return, of a handler is typed.
LEMMA AdvanceType ==
  ASSUME MapType, HandlerType, NEW c \in CPUs, step[c] # "idle", Advance(c),
         event' = event, tool' = tool, attr' = attr
  PROVE  HandlerType'
<1>1. Ops' = Ops
  BY SameTool
<1>2. ASSUME NEW d \in CPUs
      PROVE  /\ step'[d] = "idle" <=> todo'[d] = <<>>
             /\ step'[d] # "idle" => event'[d] \in Events
             /\ step'[d] = "add" => ptr'[d] \in Slots
             /\ step'[d] \in {"insert", "again"} => Op(d)'.key # Cell
  <2>1. CASE d = c
    <3>1. step'[c] \in {"idle", "lookup"} /\ (step'[c] = "idle" <=> todo'[c] = <<>>)
      BY Advances
    <3>2. event'[c] \in Events
      BY DEF HandlerType
    <3>3. QED
      BY <2>1, <3>1, <3>2
  <2>2. CASE d # c
    <3>1. todo'[d] = todo[d] /\ step'[d] = step[d] /\ ptr'[d] = ptr[d]
      BY <2>2, Advances
    <3>2. QED
      BY <3>1 DEF HandlerType, Op
  <2>3. QED
    BY <2>1, <2>2
<1>3. event' \in [CPUs -> Events \cup {Null}]
  BY DEF HandlerType
<1>4. QED
  BY <1>1, <1>2, <1>3, Advances DEF HandlerType

\* Handlers keep their types.
LEMMA HandlerTypeStep ==
  ASSUME MapType, HandlerType, [Next]_vars
  PROVE  HandlerType'
<1>0. tool' = tool /\ attr' = attr /\ Ops' = Ops
  BY ToolKept, SameTool
<1>1. ASSUME NEW c \in CPUs, NEW e \in Events, NEW h \in tool.handlers, Fire(c, e, h)
      PROVE  HandlerType'
  <2>1. /\ todo' = [todo EXCEPT ![c] = h] /\ event' = [event EXCEPT ![c] = e]
        /\ step' = [step EXCEPT ![c] = IF h = <<>> THEN "idle" ELSE "lookup"]
        /\ ptr' = ptr
    BY <1>1 DEF Fire
  <2>2. h \in Seq(Ops)
    BY ToolFacts DEF MapType
  <2>3. QED
    BY <1>0, <2>1, <2>2 DEF HandlerType, Op
<1>2. ASSUME NEW c \in CPUs, Lookup(c) PROVE HandlerType'
  <2> DEFINE s == bucket[Op(c).map][Target(c)]
  <2>1. /\ ptr' = [ptr EXCEPT ![c] = s] /\ todo' = todo /\ event' = event
        /\ step' = [step EXCEPT ![c] = IF s = Null THEN "insert" ELSE "add"]
        /\ step[c] = "lookup"
    BY <1>2 DEF Lookup, Target
  <2>2. s \in Slots \cup {Null} /\ (s = Null => Op(c).key # Cell)
    <3>1. bucket \in [Maps -> [Keys \cup {Cell} -> Slots \cup {Null}]]
      BY DEF MapType
    <3>2. QED
      BY <2>1, <3>1, OpFacts
  <2> HIDE DEF s
  <2>3. QED
    BY <1>0, <2>1, <2>2 DEF HandlerType, Op
<1>3. ASSUME NEW c \in CPUs, Add(c) PROVE HandlerType'
  BY <1>0, <1>3, AdvanceType DEF Add
<1>4. ASSUME NEW c \in CPUs, InsertAny(c) \/ InsertNoExist(c) PROVE HandlerType'
  BY <1>0, <1>4, AdvanceType DEF InsertAny, InsertNoExist
<1>5. ASSUME NEW c \in CPUs, InsertZero(c) PROVE HandlerType'
  <2>1. /\ step[c] = "insert" /\ step' = [step EXCEPT ![c] = "again"]
        /\ todo' = todo /\ event' = event /\ ptr' = ptr
    BY <1>5 DEF InsertZero
  <2>2. QED
    BY <1>0, <2>1 DEF HandlerType, Op
<1>6. ASSUME NEW c \in CPUs, LookupAgain(c) PROVE HandlerType'
  <2> DEFINE s == bucket[Op(c).map][Target(c)]
  <2>1. step[c] = "again" /\ event' = event
    BY <1>6 DEF LookupAgain
  <2>2. CASE Advance(c)
    BY <1>0, <2>1, <2>2, AdvanceType
  <2>3. CASE /\ s # Null /\ ptr' = [ptr EXCEPT ![c] = s]
             /\ step' = [step EXCEPT ![c] = "add"] /\ todo' = todo
    <3>0. Op(c).map \in Maps /\ Target(c) \in Keys \cup {Cell}
      BY <2>1, OpFacts
    <3>1. s \in Slots
      BY <2>3, <3>0 DEF MapType
    <3> HIDE DEF s
    <3>2. /\ ptr' \in [CPUs -> Slots \cup {Null}] /\ ptr'[c] \in Slots
          /\ \A d \in CPUs : d # c => ptr'[d] = ptr[d]
      BY <2>3, <3>1 DEF HandlerType
    <3>3. /\ step' \in [CPUs -> {"idle", "lookup", "add", "insert", "again"}]
          /\ step'[c] = "add"
          /\ \A d \in CPUs : d # c => step'[d] = step[d]
      BY <2>3 DEF HandlerType
    <3>4. todo[c] # <<>>
      BY <2>1 DEF HandlerType
    <3>5. QED
      BY <1>0, <2>1, <2>3, <3>2, <3>3, <3>4 DEF HandlerType, Op
  <2>4. QED
    BY <1>6, <2>2, <2>3 DEF LookupAgain, Target
<1>7. CASE ReaderStep \/ UNCHANGED vars
  <2>1. todo' = todo /\ event' = event /\ step' = step /\ ptr' = ptr
    BY <1>7, LoopFrame DEF vars
  <2>2. QED
    BY <1>0, <2>1 DEF HandlerType, Op
<1>8. QED
  BY <1>1, <1>2, <1>3, <1>4, <1>5, <1>6, <1>7 DEF Next, HandlerStep

\* The maps keep their types.
LEMMA MapTypeStep ==
  ASSUME MapType, HandlerType, LoopType, [Next]_vars
  PROVE  MapType'
<1>0. tool' = tool /\ attr' = attr
  BY ToolKept
<1>1. CASE bucket' = bucket /\ val' = val /\ place' = place
  BY <1>0, <1>1, SameTool DEF MapType
<1>2. ASSUME NEW c \in CPUs, HandlerStep(c) PROVE MapType'
  <2>1. CASE Lookup(c) \/ LookupAgain(c)
    BY <1>1, <2>1 DEF Lookup, LookupAgain, mapVars
  <2>2. QED
    BY <1>2, <2>1, AddGrows, Insertions, ZeroInsertion DEF HandlerStep
<1>3. CASE Clear
  BY <1>3, Clearings
<1>4. CASE WakeUp \/ Diff \/ Walk \/ Peek \/ Look \/ UNCHANGED vars
  BY <1>1, <1>4 DEF WakeUp, Diff, Walk, Peek, Look, mapVars, vars
<1>5. CASE \E c \in CPUs, e \in Events : \E h \in tool.handlers : Fire(c, e, h)
  BY <1>1, <1>5 DEF Fire, mapVars
<1>6. QED
  BY <1>2, <1>3, <1>4, <1>5 DEF Next, ReaderStep

\* The loop starts a pass.
LEMMA EnterLoop ==
  ASSUME tool \in Tools, tool' = tool, NEW p \in 1..Len(tool.passes), EnterPass(p)
  PROVE  /\ LoopType' /\ pass' = p /\ phase' \in {"walk", "diff"}
         /\ Current' = tool.passes[p]
<1>1. /\ pass' = p /\ key' = Null /\ ahead' = Null /\ keys' = <<>>
      /\ phase' = IF tool.passes[p].style = "diff" THEN "diff" ELSE "walk"
  BY DEF EnterPass
<1>2. Current' = tool.passes[p]
  BY <1>1 DEF Current
<1>3. keys' \in Seq(Keys)
  BY <1>1, EmptySeq
<1>4. pass' \in 0..Len(tool'.passes) /\ pass' # 0
  BY <1>1, PassFacts
<1>5. QED
  BY <1>1, <1>2, <1>3, <1>4 DEF LoopType

\* The loop leaves a pass, for the next one or to sleep.
LEMMA LeaveLoop ==
  ASSUME MapType, LoopType, phase # "sleep", tool' = tool, LeavePass
  PROVE  /\ LoopType' /\ phase' \in {"sleep", "walk", "diff"}
         /\ phase' = "sleep" => due' = {}
         /\ phase' # "sleep" =>
              pass' = pass + 1 /\ EnterPass(pass + 1) /\ pass + 1 \in 1..Len(tool.passes)
<1>1. tool \in Tools /\ pass \in 1..Len(tool.passes) /\ Len(tool.passes) \in Nat
  BY CurrentFacts, PassFacts DEF MapType
<1>2. CASE pass < Len(tool.passes)
  <2>1. EnterPass(pass + 1) /\ pass + 1 \in 1..Len(tool.passes)
    BY <1>1, <1>2 DEF LeavePass
  <2>2. LoopType' /\ pass' = pass + 1 /\ phase' \in {"walk", "diff"}
    BY <1>1, <2>1, EnterLoop
  <2>3. QED
    BY <2>1, <2>2
<1>3. CASE ~(pass < Len(tool.passes))
  <2>1. /\ pass' = 0 /\ phase' = "sleep" /\ due' = {}
        /\ key' = Null /\ ahead' = Null /\ keys' = <<>>
    BY <1>3 DEF LeavePass
  <2>2. keys' \in Seq(Keys) /\ pass' \in 0..Len(tool'.passes)
    BY <1>1, <2>1, EmptySeq
  <2>3. QED
    BY <2>1, <2>2 DEF LoopType
<1>4. QED
  BY <1>2, <1>3

\* The loop takes the next of the keys it has collected.
LEMMA CollectLoop ==
  ASSUME MapType, LoopType, phase \notin {"sleep", "diff"}, tool' = tool,
         NextCollected
  PROVE  LoopType' /\ phase' \in {"sleep", "walk", "diff", "look"}
<1>1. CASE keys = <<>>
  BY <1>1, LeaveLoop DEF NextCollected
<1>2. CASE keys # <<>>
  <2>1. /\ phase' = "look" /\ key' = Head(keys) /\ keys' = Tail(keys)
        /\ pass' = pass /\ ahead' = ahead /\ Current' = Current
    BY <1>2 DEF NextCollected, Current
  <2>2. Head(keys) \in Keys /\ Tail(keys) \in Seq(Keys)
    BY <1>2, HeadTailProperties DEF LoopType
  <2>3. Current.style = "collect"
    BY <1>2 DEF LoopType
  <2>4. QED
    BY <2>1, <2>2, <2>3 DEF LoopType
<1>3. QED
  BY <1>1, <1>2

\* The loop goes on after a key.
LEMMA StopLoop ==
  ASSUME MapType, LoopType, phase \in {"look", "clear"}, tool' = tool, NextStop
  PROVE  LoopType' /\ phase' \in {"sleep", "walk", "diff", "look", "peek"}
<1>1. CASE Current.style = "ahead"
  <2>1. CASE ahead = Null
    BY <1>1, <2>1, LeaveLoop DEF NextStop
  <2>2. CASE ahead # Null
    <3>1. /\ phase' = "peek" /\ key' = ahead /\ pass' = pass /\ ahead' = ahead
          /\ keys' = keys /\ cursor' = cursor /\ Current' = Current
      BY <1>1, <2>2 DEF NextStop, Current
    <3>2. QED
      BY <1>1, <2>2, <3>1 DEF LoopType
  <2>3. QED
    BY <2>1, <2>2
<1>2. CASE Current.style = "collect"
  BY <1>2, CollectLoop DEF NextStop
<1>3. CASE Current.style \notin {"ahead", "collect"}
  <2>1. /\ phase' = "walk" /\ key' = key /\ pass' = pass /\ ahead' = ahead
        /\ keys' = keys /\ cursor' = cursor /\ Current' = Current
    BY <1>3 DEF NextStop, Current
  <2>2. QED
    BY <1>3, <2>1 DEF LoopType
<1>4. QED
  BY <1>1, <1>2, <1>3

\* The loop keeps its types; it clears only what it has just looked at.
LEMMA LoopTypeStep ==
  ASSUME MapType, LoopType, [Next]_vars
  PROVE  LoopType' /\ (phase' = "clear" => phase = "clear" \/ Look)
<1>0. tool' = tool /\ tool \in Tools
  BY ToolKept DEF MapType
<1>1. CASE WakeUp
  <2>1. 1 \in 1..Len(tool.passes)
    BY <1>0, PassFacts
  <2>2. QED
    BY <1>0, <1>1, <2>1, EnterLoop DEF WakeUp
<1>2. CASE Diff
  BY <1>0, <1>2, LeaveLoop DEF Diff
<1>3. CASE Walk
  <2> DEFINE k == NextKey(Current.map, cursor)
  <2>0. phase = "walk" /\ k \in Keys \cup {Null}
    <3>1. phase = "walk"
      BY <1>3 DEF Walk
    <3>2. QED
      BY <3>1, CurrentFacts, NextKeyFacts
  <2>1. CASE k = Null
    BY <1>0, <1>3, <2>0, <2>1, CollectLoop DEF Walk
  <2>2. CASE k # Null /\ Current.style = "collect"
    <3>1. /\ keys' = Append(keys, k) /\ pass' = pass /\ phase' = phase /\ key' = key
          /\ ahead' = ahead /\ Current' = Current
      BY <1>0, <1>3, <2>2 DEF Walk, Current
    <3> HIDE DEF k
    <3>2. keys' \in Seq(Keys)
      BY <2>0, <2>2, <3>1 DEF LoopType
    <3>3. QED
      BY <1>0, <2>0, <2>2, <3>1, <3>2 DEF LoopType
  <2>3. CASE k # Null /\ Current.style # "collect"
    <3>1. /\ keys' = keys /\ pass' = pass /\ key' = k /\ cursor' = k
          /\ phase' = IF Current.style = "ahead" THEN "peek" ELSE "look"
          /\ ahead' = ahead /\ Current' = Current
      BY <1>0, <1>3, <2>3 DEF Walk, Current
    <3> HIDE DEF k
    <3>2. QED
      BY <1>0, <2>0, <2>3, <3>1 DEF LoopType
  <2>4. QED
    BY <1>3, <2>1, <2>2, <2>3 DEF Walk
<1>4. CASE Peek
  <2>1. /\ phase = "peek" /\ phase' = "look" /\ ahead' = NextKey(Current.map, key)
        /\ keys' = keys /\ pass' = pass /\ key' = key /\ cursor' = cursor
        /\ Current' = Current
    BY <1>0, <1>4 DEF Peek, Current
  <2>2. ahead' \in Keys \cup {Null}
    BY <2>1, CurrentFacts, NextKeyFacts
  <2>3. QED
    BY <1>0, <2>1, <2>2 DEF LoopType
<1>5. CASE Look
  <2>1. CASE NextStop
    BY <1>0, <1>5, <2>1, StopLoop DEF Look
  <2>2. CASE /\ Current.style # "snapshot" /\ phase' = "clear"
             /\ UNCHANGED <<pass, cursor, key, ahead, keys, due, missed>>
    <3>1. phase = "look" /\ Current' = Current
      BY <1>0, <1>5, <2>2 DEF Look, Current
    <3>2. QED
      BY <1>0, <1>5, <2>2, <3>1 DEF LoopType
  <2>3. QED
    BY <1>5, <2>1, <2>2 DEF Look
<1>6. CASE Clear
  BY <1>0, <1>6, StopLoop DEF Clear
<1>7. CASE (\E c \in CPUs, e \in Events : \E h \in tool.handlers : Fire(c, e, h))
           \/ (\E c \in CPUs : HandlerStep(c)) \/ UNCHANGED vars
  <2>1. UNCHANGED readerVars
    BY <1>7 DEF HandlerStep, Fire, Lookup, Add, InsertAny, InsertNoExist, InsertZero,
       LookupAgain, vars, readerVars
  <2>2. Current' = Current
    BY <1>0, <2>1 DEF Current, readerVars
  <2>3. QED
    BY <1>0, <2>1, <2>2 DEF LoopType, readerVars
<1>8. QED
  BY <1>1, <1>2, <1>3, <1>4, <1>5, <1>6, <1>7 DEF Next, ReaderStep

\* Key k is added to the reports of the events v, and to no other.
Printing(m, k, v) ==
    /\ \A n \in Maps, e \in Events :
          n # m \/ e \notin v => report'[n][e] = report[n][e]
    /\ \A e \in Events : e \in v =>
          /\ report'[m][e] # <<>>
          /\ report[m][e] = <<>> => Len(report'[m][e]) = 1
          /\ \A l \in Range(report'[m][e]) : l = k \/ l \in Range(report[m][e])

\* Printing a count does that.
LEMMA Prints ==
  ASSUME HistoryType, NEW m \in Maps, NEW k \in Keys \cup {Cell}, NEW v,
         PrintCount(m, k, v), Maps' = Maps
  PROVE  /\ report' \in [Maps -> [Events -> Seq(Keys \cup {Cell})]]
         /\ Printing(m, k, v)
<1> DEFINE r(e) == IF e \in v /\ Len(report[m][e]) < 2 THEN Append(report[m][e], k)
                   ELSE report[m][e]
<1>1. report' = [report EXCEPT ![m] = [e \in Events |-> r(e)]]
  BY DEF PrintCount
<1>2. ASSUME NEW e \in Events
      PROVE  /\ r(e) \in Seq(Keys \cup {Cell})
             /\ e \in v => /\ r(e) # <<>>
                           /\ report[m][e] = <<>> => Len(r(e)) = 1
                           /\ \A l \in Range(r(e)) : l = k \/ l \in Range(report[m][e])
  <2>1. report[m][e] \in Seq(Keys \cup {Cell})
    BY DEF HistoryType
  <2>2. CASE Len(report[m][e]) < 2
    <3> DEFINE a == Append(report[m][e], k)
    <3>1. /\ a \in Seq(Keys \cup {Cell}) /\ Len(a) = Len(report[m][e]) + 1
          /\ \A i \in 1..Len(a) : a[i] = IF i <= Len(report[m][e]) THEN report[m][e][i] ELSE k
      BY <2>1
    <3>2. DOMAIN a = 1..Len(a) /\ DOMAIN report[m][e] = 1..Len(report[m][e])
          /\ Len(report[m][e]) \in Nat
      BY <2>1, <3>1, LenProperties
    <3>3. a # <<>>
      BY <3>1, <3>2, EmptySeq
    <3>4. \A l \in Range(a) : l = k \/ l \in Range(report[m][e])
      <4> HIDE DEF a
      <4> QED BY <3>1, <3>2 DEF Range
    <3>5. report[m][e] = <<>> => Len(a) = 1
      BY <3>1
    <3> HIDE DEF a
    <3>6. r(e) = IF e \in v THEN a ELSE report[m][e]
      BY <2>2 DEF a
    <3> HIDE DEF r
    <3>7. QED
      BY <2>1, <3>1, <3>3, <3>4, <3>5, <3>6
  <2>3. CASE ~(Len(report[m][e]) < 2)
    BY <2>1, <2>3
  <2>4. QED
    BY <2>2, <2>3
<1> HIDE DEF r
<1>3. \A e \in Events : report'[m][e] = r(e)
  BY <1>1 DEF HistoryType
<1>4. report' \in [Maps -> [Events -> Seq(Keys \cup {Cell})]]
  BY <1>1, <1>2 DEF HistoryType
<1>5. \A n \in Maps : n # m => report'[n] = report[n]
  BY <1>1 DEF HistoryType
<1>6. \A e \in Events : e \notin v => r(e) = report[m][e]
  BY DEF r
<1>7. QED
  BY <1>2, <1>3, <1>4, <1>5, <1>6 DEF Printing

\* What a pass is to print are events.
LEMMA DueType ==
  ASSUME MapType, NEW m \in Maps
  PROVE  Counted(m) \subseteq Events
         /\ \A e \in Counted(m) : \E k \in Keys \cup {Cell} : e \in Held(m, k)
<1> SUFFICES ASSUME NEW e \in Counted(m)
             PROVE  e \in Events /\ \E k \in Keys \cup {Cell} : e \in Held(m, k)
  OBVIOUS
<1>1. PICK s \in Resident(m) : e \in val[m][s]
  BY DEF Counted
<1>2. PICK k \in DOMAIN bucket[m] : bucket[m][k] = s /\ s \in Slots
  BY <1>1 DEF Resident
<1>3. k \in Keys \cup {Cell} /\ e \in Events
  BY <1>1, <1>2 DEF MapType
<1>4. QED
  BY <1>1, <1>2, <1>3, SlotFacts DEF Held

\* The loop prints what is in the slot of its key, and remembers it for a cell.
LEMMA LookPrints ==
  ASSUME MapType, LoopType, Look
  PROVE  /\ phase = "look" /\ Current.map \in Maps /\ key \in Keys
         /\ UNCHANGED <<tool, attr, bucket, val, todo, event, step, ptr, handled, prev, fired>>
         /\ \/ /\ report' = report /\ raced' = raced /\ NextStop
               /\ Held(Current.map, key) = {}
            \/ /\ PrintCount(Current.map, key, Held(Current.map, key))
               /\ Current.style = "snapshot" /\ NextStop /\ raced' = raced
            \/ /\ PrintCount(Current.map, key, Held(Current.map, key))
               /\ Current.style # "snapshot" /\ phase' = "clear"
               /\ raced' = raced \cup Races(Current.map, {event[c] : c \in
                              {d \in CPUs : InFlight(d, Current.map, key)}}, "reader")
               /\ UNCHANGED <<pass, cursor, key, ahead, keys, due, missed>>
<1>1. phase = "look"
  BY DEF Look
<1>2. Current.map \in Maps /\ key \in Keys
  BY <1>1, CurrentFacts DEF LoopType
<1>3. UNCHANGED <<tool, attr, bucket, val, todo, event, step, ptr, handled, prev, fired>>
  BY DEF Look, mapVars, handlerVars
<1>4. bucket[Current.map][key] # Null =>
         Held(Current.map, key) = val[Current.map][bucket[Current.map][key]]
  BY DEF Held
<1>5. bucket[Current.map][key] = Null => Held(Current.map, key) = {}
  BY DEF Held
<1>6. QED
  BY <1>1, <1>2, <1>3, <1>4, <1>5 DEF Look

\* The loop prints the increase of an array cell.
LEMMA DiffPrints ==
  ASSUME MapType, LoopType, Diff
  PROVE  /\ phase = "diff" /\ Current.map \in Maps /\ IsArray(Current.map)
         /\ UNCHANGED <<tool, attr, bucket, val, todo, event, step, ptr, handled, fired, raced>>
         /\ PrintCount(Current.map, Cell, Held(Current.map, Cell) \ prev[Current.map])
         /\ prev' = [prev EXCEPT ![Current.map] = Held(Current.map, Cell)]
         /\ LeavePass
<1>1. phase = "diff"
  BY DEF Diff
<1>2. Current.map \in Maps /\ IsArray(Current.map)
  BY <1>1, CurrentFacts
<1>3. bucket[Current.map][Cell] # Null
  BY <1>2, SlotFacts DEF MapType
<1>4. Held(Current.map, Cell) = val[Current.map][bucket[Current.map][Cell]]
  BY <1>3 DEF Held
<1>5. QED
  BY <1>1, <1>2, <1>4 DEF Diff, mapVars, handlerVars

\* However the loop goes on, it owes events.
LEMMA TurnDue ==
  ASSUME MapType, LoopType, due \subseteq Events, phase # "sleep", tool' = tool,
         LeavePass \/ NextCollected \/ NextStop
  PROVE  due' \subseteq Events
<1>1. CASE LeavePass
  <2>1. CASE phase' = "sleep"
    BY <1>1, <2>1, LeaveLoop
  <2>2. CASE phase' # "sleep"
    <3>1. EnterPass(pass + 1) /\ pass + 1 \in 1..Len(tool.passes)
      BY <1>1, <2>2, LeaveLoop
    <3>2. tool.passes[pass + 1].map \in Maps
      BY <3>1, PassFacts DEF MapType
    <3>3. due' = Counted(tool.passes[pass + 1].map)
      BY <3>1 DEF EnterPass
    <3>4. QED
      BY <3>2, <3>3, DueType
  <2>3. QED
    BY <2>1, <2>2
<1>2. CASE due' = due
  BY <1>2
<1>3. QED
  BY <1>1, <1>2 DEF NextCollected, NextStop

\* What is held under a key is in a slot.
LEMMA HeldFacts ==
  ASSUME MapType, NEW m \in Maps, NEW k \in Keys \cup {Cell}, NEW e \in Held(m, k)
  PROVE  bucket[m][k] \in Slots /\ e \in val[m][bucket[m][k]] /\ e \in Events
BY DEF Held, MapType

\* The history keeps its types.
LEMMA HistoryTypeStep ==
  ASSUME MapType, HandlerType, LoopType, HistoryType, [Next]_vars
  PROVE  HistoryType'
<1>0. tool' = tool /\ attr' = attr /\ Maps' = Maps
  BY ToolKept, SameTool
<1>1. CASE \E c \in CPUs, e \in Events : \E h \in tool.handlers : Fire(c, e, h)
  BY <1>0, <1>1 DEF Fire, HistoryType, readerVars
<1>2. ASSUME NEW c \in CPUs, HandlerStep(c) PROVE HistoryType'
  <2>1. prev' = prev /\ report' = report /\ fired' = fired /\ due' = due
    BY <1>2 DEF HandlerStep, Lookup, Add, InsertAny, InsertNoExist, InsertZero,
       LookupAgain, readerVars
  <2>2. step[c] # "idle"
    BY <1>2 DEF HandlerStep, Lookup, Add, InsertAny, InsertNoExist, InsertZero,
       LookupAgain
  <2>3. handled' = handled \/ handled' = handled \cup {<<Op(c).map, event[c]>>}
    BY <1>2 DEF HandlerStep, Lookup, Add, InsertAny, InsertNoExist, InsertZero,
       LookupAgain, Advance
  <2>4. Op(c).map \in Maps /\ event[c] \in Events
    BY <2>2, OpFacts
  <2>5. QED
    BY <1>0, <2>1, <2>3, <2>4 DEF HistoryType
<1>3. CASE WakeUp
  <2>1. 1 \in 1..Len(tool.passes)
    BY PassFacts DEF MapType
  <2>2. due' = Counted(tool.passes[1].map) /\ tool.passes[1].map \in Maps
    BY <1>3, <2>1, PassFacts DEF WakeUp, EnterPass, MapType
  <2>3. due' \subseteq Events
    BY <2>2, DueType
  <2>4. QED
    BY <1>0, <1>3, <2>3 DEF WakeUp, HistoryType
<1>4. CASE Diff
  <2>1. due' \subseteq Events
    BY <1>0, <1>4, TurnDue, DiffPrints DEF HistoryType
  <2>2. Held(Current.map, Cell) \subseteq Events
    BY <1>4, DiffPrints, HeldFacts
  <2>3. prev' \in [Maps -> SUBSET Events]
    BY <1>4, <2>2, DiffPrints DEF HistoryType
  <2>4. report' \in [Maps -> [Events -> Seq(Keys \cup {Cell})]]
    BY <1>0, <1>4, DiffPrints, Prints
  <2>5. fired' = fired /\ handled' = handled
    BY <1>4, DiffPrints
  <2>6. QED
    BY <1>0, <2>1, <2>3, <2>4, <2>5 DEF HistoryType
<1>5. CASE Look
  <2>1. due' \subseteq Events
    BY <1>0, <1>5, TurnDue, LookPrints DEF HistoryType
  <2>2. CASE report' = report
    BY <1>0, <1>5, <2>1, <2>2, LookPrints DEF HistoryType
  <2>3. CASE PrintCount(Current.map, key, Held(Current.map, key))
    <3>1. report' \in [Maps -> [Events -> Seq(Keys \cup {Cell})]]
      BY <1>0, <1>5, <2>3, LookPrints, Prints
    <3>2. prev' = prev /\ fired' = fired /\ handled' = handled
      BY <1>5, LookPrints
    <3>3. QED
      BY <1>0, <2>1, <3>1, <3>2 DEF HistoryType
  <2>4. QED
    BY <1>5, <2>2, <2>3, LookPrints
<1>6. CASE Walk \/ Peek \/ Clear
  <2>1. due' \subseteq Events
    BY <1>0, <1>6, TurnDue DEF Walk, Peek, Clear, HistoryType, Due
  <2>2. prev' = prev /\ report' = report /\ fired' = fired /\ handled' = handled
    BY <1>6 DEF Walk, Peek, Clear
  <2>3. QED
    BY <1>0, <2>1, <2>2 DEF HistoryType
<1>7. CASE UNCHANGED vars
  BY <1>0, <1>7 DEF vars, HistoryType
<1>8. QED
  BY <1>1, <1>2, <1>3, <1>4, <1>5, <1>6, <1>7 DEF Next, ReaderStep

\* All types together.
Types == MapType /\ HandlerType /\ LoopType /\ HistoryType

LEMMA TypesInit ==
  ASSUME Init
  PROVE  Types
<1> DEFINE cell == CHOOSE s \in Slots : TRUE
<1>1. cell \in Slots
  BY SlotFacts
<1> DEFINE pos(k) == CHOOSE i \in DOMAIN KeyOrder : KeyOrder[i] = k
<1>2. /\ tool \in Tools /\ attr \in [Events -> [KeyKinds -> KeysOf(tool)]]
      /\ place = [m \in Maps |-> [k \in Keys |-> pos(k)]]
      /\ bucket = [m \in Maps |-> [k \in Keys \cup {Cell} |->
                      IF k = Cell /\ IsArray(m) THEN cell ELSE Null]]
      /\ val = [m \in Maps |-> [s \in Slots |-> {}]]
  BY DEF Init
<1>3. MapType
  <2>1. attr \in [Events -> [KeyKinds -> Keys]]
    BY <1>2, BoundsAssumption
  <2>2. ASSUME NEW k \in Keys
        PROVE  pos(k) \in DOMAIN KeyOrder /\ KeyOrder[pos(k)] = k
    <3>1. \E i \in DOMAIN KeyOrder : KeyOrder[i] = k
      BY DEF Keys, Range
    <3>2. QED
      BY <3>1
  <2> HIDE DEF pos
  <2>3. \A k \in Keys : pos(k) \in Nat /\ Home[k] <= pos(k)
    BY <2>2, HomeFacts
  <2>4. \A j, k \in Keys : pos(j) = pos(k) => j = k
    BY <2>2
  <2> HIDE DEF cell
  <2>5. QED
    BY <1>1, <1>2, <2>1, <2>3, <2>4 DEF MapType
<1>4. HandlerType
  BY EmptySeq DEF Init, HandlerType
<1>5. LoopType
  BY <1>2, EmptySeq, PassFacts DEF Init, LoopType
<1>6. HistoryType
  BY EmptySeq DEF Init, HistoryType
<1>7. QED
  BY <1>3, <1>4, <1>5, <1>6 DEF Types

LEMMA TypesStep ==
  ASSUME Types, [Next]_vars
  PROVE  Types'
BY MapTypeStep, HandlerTypeStep, LoopTypeStep, HistoryTypeStep DEF Types

\* Maps, handlers and loop keep their types in every reachable state: a handler
\* adds only through a pointer it has tested, and the loop looks up and clears
\* only real keys.
THEOREM CounterTypeCorrect == Spec => []TypeOK
<1>1. Init => Types
  BY TypesInit
<1>2. Types /\ [Next]_vars => Types'
  BY TypesStep
<1>3. Types => TypeOK
  BY DEF Types, MapType, HandlerType, LoopType, HistoryType, TypeOK
<1>4. QED
  BY <1>1, <1>2, <1>3, PTL DEF Spec

-----------------------------------------------------------------------------
(* No event is counted twice, or printed twice *)

\* A step of a handler that is not its last access leaves the queues alone.
LEMMA QueueKept ==
  ASSUME QueueInv, tool' = tool, attr' = attr,
         UNCHANGED <<todo, event, handled, fired>>,
         \A c \in CPUs : step'[c] = "idle" <=> step[c] = "idle"
  PROVE  QueueInv'
BY SameTool DEF QueueInv

\* The end of an operation.
LEMMA QueueAdvance ==
  ASSUME Types, QueueInv, tool' = tool, attr' = attr, NEW c \in CPUs,
         step[c] # "idle", Advance(c), event' = event, fired' = fired
  PROVE  QueueInv'
<1> USE DEF QueueInv
<1>1. Maps' = Maps
  BY SameTool
<1>2. /\ Len(todo[c]) \in Nat \ {0} /\ Op(c) = todo[c][1] /\ Op(c).map \in Maps
      /\ event[c] \in Events
  BY OpFacts DEF Types
<1>3. /\ \A d \in CPUs : d # c => todo'[d] = todo[d] /\ step'[d] = step[d]
      /\ Len(todo'[c]) = Len(todo[c]) - 1
      /\ \A i \in 1..Len(todo'[c]) : todo'[c][i] = todo[c][i + 1]
      /\ handled' = handled \cup {<<Op(c).map, event[c]>>}
  BY Advances DEF Types
<1>4. ASSUME NEW d \in CPUs, NEW i \in 1..Len(todo'[d]), NEW j \in 1..Len(todo'[d]),
             todo'[d][i].map = todo'[d][j].map
      PROVE  i = j
  <2>1. CASE d = c
    <3>1. i + 1 \in 1..Len(todo[c]) /\ j + 1 \in 1..Len(todo[c])
      BY <1>2, <1>3, <2>1
    <3>2. todo'[c][i] = todo[c][i + 1] /\ todo'[c][j] = todo[c][j + 1]
      BY <1>3, <2>1
    <3>3. todo[c][i + 1].map = todo[c][j + 1].map
      BY <1>4, <2>1, <3>2
    <3>4. i + 1 = j + 1
      BY <3>1, <3>3
    <3>5. QED
      BY <3>4
  <2>2. CASE d # c
    BY <1>3, <1>4, <2>2
  <2>3. QED
    BY <2>1, <2>2
<1>5. \A d \in CPUs : step'[d] # "idle" => step[d] # "idle"
  BY <1>3
<1>6. ASSUME NEW d \in CPUs, NEW i \in 1..Len(todo'[d])
      PROVE  <<todo'[d][i].map, event'[d]>> \notin handled'
  <2>1. CASE d = c
    <3>1. i + 1 \in 1..Len(todo[c]) /\ 1 \in 1..Len(todo[c]) /\ i + 1 # 1
      BY <1>2, <1>3, <2>1
    <3>2. todo'[c][i] = todo[c][i + 1]
      BY <1>3, <2>1
    <3>3. todo[c][i + 1].map # Op(c).map
      BY <1>2, <3>1
    <3>4. <<todo[c][i + 1].map, event[c]>> \notin handled
      BY <3>1
    <3>5. QED
      BY <1>3, <2>1, <3>2, <3>3, <3>4
  <2>2. CASE d # c
    <3>1. todo'[d] = todo[d]
      BY <1>3, <2>2
    <3>2. todo[d] # <<>>
      BY <3>1, EmptySeq
    <3>3. step[d] # "idle"
      BY <3>2 DEF Types, HandlerType
    <3>4. event[d] # event[c]
      BY <2>2, <3>3
    <3>5. QED
      BY <1>3, <3>1, <3>4
  <2>3. QED
    BY <2>1, <2>2
<1>7. \A m \in Maps', e \in Events : <<m, e>> \in handled' => e \in fired'
  BY <1>1, <1>2, <1>3
<1>8. QED
  BY <1>4, <1>5, <1>6, <1>7

\* A new event is on its CPU only, and counted nowhere.
LEMMA QueueFire ==
  ASSUME Types, QueueInv, tool' = tool, attr' = attr, NEW c \in CPUs,
         NEW e \in Events, NEW h \in tool.handlers, Fire(c, e, h)
  PROVE  QueueInv'
<1> USE DEF QueueInv
<1>1. Maps' = Maps
  BY SameTool
<1>2. /\ e \notin fired /\ fired' = fired \cup {e} /\ handled' = handled
      /\ event' = [event EXCEPT ![c] = e] /\ todo' = [todo EXCEPT ![c] = h]
      /\ step' = [step EXCEPT ![c] = IF h = <<>> THEN "idle" ELSE "lookup"]
  BY DEF Fire
<1>3. /\ event'[c] = e /\ todo'[c] = h
      /\ \A d \in CPUs : d # c => /\ event'[d] = event[d] /\ todo'[d] = todo[d]
                                  /\ step'[d] = step[d]
  BY <1>2 DEF Types, HandlerType
<1>4. /\ h \in Seq(Ops)
      /\ \A i, j \in 1..Len(h) : h[i].map = h[j].map => i = j
      /\ \A i \in 1..Len(h) : h[i].map \in Maps
  BY ToolFacts, ElementOfSeq DEF Types, MapType
<1>5. \A d \in CPUs : \A i, j \in 1..Len(todo'[d]) :
          todo'[d][i].map = todo'[d][j].map => i = j
  BY <1>3, <1>4
<1>6. \A d \in CPUs : step'[d] # "idle" => event'[d] \in fired'
  BY <1>2, <1>3
<1>7. \A d, f \in CPUs :
          step'[d] # "idle" /\ step'[f] # "idle" /\ event'[d] = event'[f] => d = f
  BY <1>2, <1>3
<1>8. ASSUME NEW d \in CPUs, NEW i \in 1..Len(todo'[d])
      PROVE  <<todo'[d][i].map, event'[d]>> \notin handled'
  <2>1. CASE d = c
    BY <1>2, <1>3, <1>4, <2>1
  <2>2. CASE d # c
    BY <1>2, <1>3, <2>2
  <2>3. QED
    BY <2>1, <2>2
<1>9. QED
  BY <1>1, <1>2, <1>5, <1>6, <1>7, <1>8

\* Queues are kept by every step.
LEMMA QueueStep ==
  ASSUME Types, QueueInv, [Next]_vars
  PROVE  QueueInv'
<1>0. tool' = tool /\ attr' = attr
  BY ToolKept
<1>1. ASSUME NEW c \in CPUs, HandlerStep(c) PROVE QueueInv'
  <2>1. event' = event /\ fired' = fired /\ step[c] # "idle"
    BY <1>1 DEF HandlerStep, Lookup, Add, InsertAny, InsertNoExist, InsertZero,
       LookupAgain
  <2>2. CASE Advance(c)
    BY <1>0, <2>1, <2>2, QueueAdvance
  <2>3. CASE /\ todo' = todo /\ handled' = handled
             /\ \E x \in {"add", "insert", "again"} : step' = [step EXCEPT ![c] = x]
    <3>1. \A d \in CPUs : step'[d] = "idle" <=> step[d] = "idle"
      BY <2>1, <2>3 DEF Types, HandlerType
    <3>2. QED
      BY <1>0, <2>1, <2>3, <3>1, QueueKept
  <2>4. QED
    BY <1>1, <2>2, <2>3 DEF HandlerStep, Lookup, Add, InsertAny, InsertNoExist,
       InsertZero, LookupAgain
<1>2. CASE ReaderStep \/ UNCHANGED vars
  BY <1>0, <1>2, LoopFrame, QueueKept DEF vars
<1>3. QED
  BY <1>0, <1>1, <1>2, QueueFire DEF Next

\* The steps that change a map.
LEMMA MapMoves ==
  ASSUME Types, [Next]_vars
  PROVE  \/ bucket' = bucket /\ val' = val /\ place' = place
         \/ \E c \in CPUs : Add(c) /\ Grow(Op(c).map, ptr[c], event[c])
         \/ \E c \in CPUs, s \in Slots :
               /\ InsertAny(c) \/ InsertNoExist(c)
               /\ Put(Op(c).map, Target(c), {event[c]}, s)
         \/ \E c \in CPUs, s \in Slots :
               InsertZero(c) /\ Put(Op(c).map, Target(c), {}, s)
         \/ /\ Clear
            /\ \/ \E s \in Slots : Put(Current.map, key, {}, s)
               \/ Drop(Current.map, key)
<1> USE DEF Types
<1>1. ASSUME NEW c \in CPUs, HandlerStep(c)
      PROVE  \/ bucket' = bucket /\ val' = val /\ place' = place
             \/ Add(c) /\ Grow(Op(c).map, ptr[c], event[c])
             \/ \E s \in Slots : /\ InsertAny(c) \/ InsertNoExist(c)
                                 /\ Put(Op(c).map, Target(c), {event[c]}, s)
             \/ \E s \in Slots : InsertZero(c) /\ Put(Op(c).map, Target(c), {}, s)
  <2>1. CASE Lookup(c) \/ LookupAgain(c)
    BY <2>1 DEF Lookup, LookupAgain, mapVars
  <2>2. CASE Add(c)
    BY <2>2, AddGrows
  <2>3. CASE InsertAny(c) \/ InsertNoExist(c)
    BY <2>3, Insertions DEF mapVars
  <2>4. CASE InsertZero(c)
    BY <2>4, ZeroInsertion DEF mapVars
  <2>5. QED
    BY <1>1, <2>1, <2>2, <2>3, <2>4 DEF HandlerStep
<1>2. CASE Clear
  BY <1>2, Clearings DEF mapVars
<1>3. CASE WakeUp \/ Diff \/ Walk \/ Peek \/ Look \/ UNCHANGED vars
  BY <1>3 DEF WakeUp, Diff, Walk, Peek, Look, mapVars, vars
<1>4. CASE \E c \in CPUs, e \in Events : \E h \in tool.handlers : Fire(c, e, h)
  BY <1>4 DEF Fire, mapVars
<1>5. QED
  BY <1>1, <1>2, <1>3, <1>4 DEF Next, ReaderStep

\* The steps that change what is printed.
LEMMA ReportMoves ==
  ASSUME Types, [Next]_vars
  PROVE  report' = report \/ Look \/ Diff
BY DEF Next, vars, HandlerStep, ReaderStep, Fire, Lookup, Add, InsertAny,
   InsertNoExist, InsertZero, LookupAgain, WakeUp, Walk, Peek, Clear

\* What is handled stays handled, and what is raced stays raced.
LEMMA HistoryGrows ==
  ASSUME [Next]_vars
  PROVE  handled \subseteq handled' /\ raced \subseteq raced'
<1>1. handled \subseteq handled'
  BY DEF Next, vars, HandlerStep, ReaderStep, Fire, Lookup, Add, InsertAny,
     InsertNoExist, InsertZero, LookupAgain, WakeUp, Diff, Walk, Peek, Look, Clear, Advance
<1>2. raced \subseteq raced'
  BY DEF Next, vars, HandlerStep, ReaderStep, Fire, Lookup, Add, InsertAny,
     InsertNoExist, InsertZero, LookupAgain, WakeUp, Diff, Walk, Peek, Look, Clear
<1>3. QED
  BY <1>1, <1>2

\* An event that is still to be counted in a map is nowhere in it, nor printed.
LEMMA Uncounted ==
  ASSUME Types, QueueInv, PlaceInv, NEW c \in CPUs, step[c] # "idle"
  PROVE  /\ <<Op(c).map, event[c]>> \notin handled
         /\ \A s \in Slots : event[c] \notin val[Op(c).map][s]
         /\ report[Op(c).map][event[c]] = <<>>
<1>1. /\ Len(todo[c]) \in Nat \ {0} /\ Op(c) = todo[c][1] /\ Op(c).map \in Maps
      /\ event[c] \in Events
  BY OpFacts DEF Types
<1>2. <<Op(c).map, event[c]>> \notin handled
  BY <1>1 DEF QueueInv
<1>3. QED
  BY <1>1, <1>2 DEF PlaceInv

\* Only counted events are in the slots of a map, or printed.
LEMMA PlaceStep ==
  ASSUME Types, QueueInv, PlaceInv, [Next]_vars
  PROVE  PlaceInv'
<1>0. tool' = tool /\ Maps' = Maps /\ handled \subseteq handled'
  BY ToolKept, SameTool, HistoryGrows
<1>1. ASSUME NEW m \in Maps, NEW s \in Slots, NEW e \in val'[m][s]
      PROVE  <<m, e>> \in handled'
  <2>1. CASE bucket' = bucket /\ val' = val
    BY <1>0, <1>1, <2>1 DEF PlaceInv
  <2>2. ASSUME NEW c \in CPUs, Add(c), Grow(Op(c).map, ptr[c], event[c])
        PROVE  <<m, e>> \in handled'
    <3>1. handled' = handled \cup {<<Op(c).map, event[c]>>}
      BY <2>2 DEF Add, Advance
    <3>2. QED
      BY <1>1, <2>2, <3>1 DEF Grow, PlaceInv
  <2>3. ASSUME NEW c \in CPUs, NEW t \in Slots, InsertAny(c) \/ InsertNoExist(c),
               Put(Op(c).map, Target(c), {event[c]}, t)
        PROVE  <<m, e>> \in handled'
    <3>1. handled' = handled \cup {<<Op(c).map, event[c]>>}
      BY <2>3 DEF InsertAny, InsertNoExist, Advance
    <3>2. QED
      BY <1>1, <2>3, <3>1 DEF Put, PlaceInv
  <2>4. ASSUME NEW n \in Maps, NEW k \in Keys, NEW t \in Slots, Put(n, k, {}, t)
        PROVE  <<m, e>> \in handled'
    BY <1>0, <1>1, <2>4 DEF Put, PlaceInv
  <2>5. ASSUME NEW c \in CPUs, InsertZero(c)
        PROVE  Op(c).map \in Maps /\ Target(c) \in Keys
    BY <2>5, OpFacts DEF InsertZero, Types
  <2>6. Clear => Current.map \in Maps /\ key \in Keys
    BY Clearings DEF Types
  <2>7. Clear /\ Drop(Current.map, key) => <<m, e>> \in handled'
    BY <1>0, <1>1 DEF Drop, PlaceInv
  <2>8. QED
    BY <2>1, <2>2, <2>3, <2>4, <2>5, <2>6, <2>7, MapMoves
<1>2. ASSUME NEW m \in Maps, NEW e \in Events, report'[m][e] # <<>>
      PROVE  <<m, e>> \in handled'
  <2>0. report[m][e] # <<>> => <<m, e>> \in handled'
    BY <1>0 DEF PlaceInv
  <2>1. ASSUME NEW k \in Keys \cup {Cell}, m = Current.map, e \in Held(m, k)
        PROVE  <<m, e>> \in handled'
    BY <1>0, <2>1, HeldFacts DEF PlaceInv, Types
  <2>2. CASE report' = report
    BY <1>2, <2>0, <2>2
  <2>3. CASE Look
    <3>1. Current.map \in Maps /\ key \in Keys
          /\ (report' = report \/ PrintCount(Current.map, key, Held(Current.map, key)))
      BY <2>3, LookPrints DEF Types
    <3>2. report' = report \/ Printing(Current.map, key, Held(Current.map, key))
      BY <1>0, <3>1, Prints DEF Types
    <3>3. QED
      BY <1>2, <2>0, <2>1, <3>1, <3>2 DEF Printing
  <2>4. CASE Diff
    <3> DEFINE v == Held(Current.map, Cell) \ prev[Current.map]
    <3>1. Printing(Current.map, Cell, v)
      BY <1>0, <2>4, DiffPrints, Prints DEF Types
    <3>2. Current.map \in Maps /\ Cell \in Keys \cup {Cell}
      BY <2>4, DiffPrints DEF Types
    <3>3. QED
      BY <1>2, <2>0, <2>1, <3>1, <3>2 DEF Printing
  <2>5. QED
    BY <2>2, <2>3, <2>4, ReportMoves
<1>3. QED
  BY <1>0, <1>1, <1>2 DEF PlaceInv

\* No two keys share a slot, and no two slots an event.
LEMMA SlotStep ==
  ASSUME Types, QueueInv, PlaceInv, SlotInv, [Next]_vars
  PROVE  SlotInv'
<1>0. tool' = tool /\ Maps' = Maps
  BY ToolKept, SameTool
<1>1. CASE bucket' = bucket /\ val' = val
  BY <1>0, <1>1 DEF SlotInv
<1>2. ASSUME NEW c \in CPUs, Add(c), Grow(Op(c).map, ptr[c], event[c])
      PROVE  SlotInv'
  <2>1. step[c] # "idle"
    BY <1>2 DEF Add
  <2>2. \A s \in Slots : event[c] \notin val[Op(c).map][s]
    BY <2>1, Uncounted
  <2>3. ASSUME NEW m \in Maps, NEW e \in Events, NEW s \in Slots, NEW t \in Slots,
               e \in val'[m][s], e \in val'[m][t]
        PROVE  s = t
    <3>1. CASE m = Op(c).map /\ e = event[c]
      BY <1>2, <2>2, <2>3, <3>1 DEF Grow
    <3>2. CASE ~(m = Op(c).map /\ e = event[c])
      <4>1. e \in val[m][s] /\ e \in val[m][t]
        BY <1>2, <2>3, <3>2 DEF Grow
      <4>2. QED
        BY <4>1 DEF SlotInv
    <3>3. QED
      BY <3>1, <3>2
  <2>4. bucket' = bucket
    BY <1>2 DEF Grow
  <2>5. QED
    BY <1>0, <2>3, <2>4 DEF SlotInv
<1>3. ASSUME NEW m \in Maps, NEW k \in Keys, NEW v, NEW s \in Slots, Put(m, k, v, s),
             \A e \in v : \A t \in Slots : e \notin val[m][t]
      PROVE  SlotInv'
  <2>1. ASSUME NEW n \in Maps, NEW l \in Keys \cup {Cell}, NEW j \in Keys \cup {Cell},
               bucket'[n][l] = bucket'[n][j], bucket'[n][l] # Null
        PROVE  l = j
    <3>1. CASE n = m /\ l = k
      BY <1>3, <2>1, <3>1 DEF Put
    <3>2. CASE n = m /\ j = k
      BY <1>3, <2>1, <3>2 DEF Put
    <3>3. CASE n # m \/ (l # k /\ j # k)
      BY <1>3, <2>1, <3>3 DEF Put, SlotInv
    <3>4. QED
      BY <3>1, <3>2, <3>3
  <2>2. ASSUME NEW n \in Maps, NEW e \in Events, NEW t \in Slots, NEW u \in Slots,
               e \in val'[n][t], e \in val'[n][u]
        PROVE  t = u
    <3>1. CASE n = m /\ e \in v
      BY <1>3, <2>2, <3>1 DEF Put
    <3>2. CASE ~(n = m /\ e \in v)
      <4>1. e \in val[n][t] /\ e \in val[n][u]
        BY <1>3, <2>2, <3>2 DEF Put
      <4>2. QED
        BY <4>1 DEF SlotInv
    <3>3. QED
      BY <3>1, <3>2
  <2>3. QED
    BY <1>0, <2>1, <2>2 DEF SlotInv
<1>4. ASSUME NEW c \in CPUs, NEW s \in Slots, InsertAny(c) \/ InsertNoExist(c),
             Put(Op(c).map, Target(c), {event[c]}, s)
      PROVE  SlotInv'
  <2>1. step[c] = "insert"
    BY <1>4 DEF InsertAny, InsertNoExist
  <2>2. Op(c).map \in Maps /\ Target(c) \in Keys
    BY <2>1, OpFacts DEF Types
  <2>3. \A e \in {event[c]} : \A t \in Slots : e \notin val[Op(c).map][t]
    BY <2>1, Uncounted
  <2>4. QED
    BY <1>3, <1>4, <2>2, <2>3
<1>5. ASSUME NEW c \in CPUs, InsertZero(c)
      PROVE  Op(c).map \in Maps /\ Target(c) \in Keys
  BY <1>5, OpFacts DEF InsertZero, Types
<1>6. Clear => Current.map \in Maps /\ key \in Keys
  BY Clearings DEF Types
<1>7. CASE Clear /\ Drop(Current.map, key)
  <2>1. ASSUME NEW n \in Maps, NEW l \in Keys \cup {Cell}, NEW j \in Keys \cup {Cell},
               bucket'[n][l] = bucket'[n][j], bucket'[n][l] # Null
        PROVE  l = j
    <3>1. bucket'[n][l] = bucket[n][l] /\ bucket'[n][j] = bucket[n][j]
      BY <1>7, <2>1 DEF Drop
    <3>2. QED
      BY <2>1, <3>1 DEF SlotInv
  <2>2. val' = val
    BY <1>7 DEF Drop
  <2>3. QED
    BY <1>0, <2>1, <2>2 DEF SlotInv
<1>8. ASSUME NEW m \in Maps, NEW k \in Keys, NEW s \in Slots, Put(m, k, {}, s)
      PROVE  SlotInv'
  BY <1>3, <1>8
<1>9. QED
  BY <1>1, <1>2, <1>4, <1>5, <1>6, <1>7, <1>8, MapMoves

\* A pass that leaves the counts alone is not over an incremental map.
LEMMA IncrementalFacts ==
  ASSUME Types
  PROVE  /\ Incremental \subseteq Maps
         /\ phase # "sleep" /\ Current.style = "snapshot" =>
               Current.map \notin Incremental
<1>1. tool \in Tools /\ (phase # "sleep" => pass \in 1..Len(tool.passes))
  BY CurrentFacts DEF Types, MapType
<1>2. \A m \in Incremental : \E p \in 1..Len(tool.passes) :
         m = tool.passes[p].map /\ tool.passes[p].style # "snapshot"
  BY <1>1, PassFacts DEF Incremental
<1>3. Incremental \subseteq Maps
  BY <1>1, <1>2, PassFacts
<1>4. QED
  BY <1>1, <1>2, <1>3, PassFacts DEF Current

\* Two keys of a map hold no event in common.
LEMMA HeldApart ==
  ASSUME MapType, SlotInv, NEW m \in Maps, NEW k \in Keys \cup {Cell},
         NEW l \in Keys \cup {Cell}, NEW e, e \in Held(m, k), e \in Held(m, l)
  PROVE  k = l
<1>1. /\ bucket[m][k] \in Slots /\ e \in val[m][bucket[m][k]] /\ e \in Events
      /\ bucket[m][l] \in Slots /\ e \in val[m][bucket[m][l]]
  BY HeldFacts
<1>2. bucket[m][k] = bucket[m][l]
  BY <1>1 DEF SlotInv
<1>3. QED
  BY <1>1, <1>2, SlotFacts DEF SlotInv

\* A handler adds nothing to a map but its own event, and takes nothing from an
\* array cell.
LEMMA HandlerHeld ==
  ASSUME Types, NEW c \in CPUs, HandlerStep(c)
  PROVE  /\ step[c] # "idle"
         /\ UNCHANGED <<tool, attr, readerVars, fired, report, due, missed, event>>
         /\ \A m \in Maps, k \in Keys \cup {Cell} : \A e \in Held(m, k)' :
               e \in Held(m, k) \/ (m = Op(c).map /\ e = event[c])
         /\ \A m \in Maps : Held(m, Cell) \subseteq Held(m, Cell)'
<1> USE DEF Types
<1>1. /\ step[c] # "idle"
      /\ UNCHANGED <<tool, attr, readerVars, fired, report, due, missed, event>>
  BY DEF HandlerStep, Lookup, Add, InsertAny, InsertNoExist, InsertZero, LookupAgain
<1>2. Op(c).map \in Maps
  BY <1>1, OpFacts
<1>3. CASE bucket' = bucket /\ val' = val
  BY <1>1, <1>3 DEF Held
<1>4. CASE Add(c)
  <2>1. ptr[c] \in Slots /\ Grow(Op(c).map, ptr[c], event[c])
    BY <1>4, AddGrows DEF Grow
  <2>2. QED
    BY <1>1, <1>2, <2>1, GrowHeld
<1>5. ASSUME NEW n \in Maps, NEW l \in Keys, NEW v, NEW s \in Slots, Put(n, l, v, s),
             n = Op(c).map, \A e \in v : e = event[c]
      PROVE  /\ \A m \in Maps, k \in Keys \cup {Cell} : \A e \in Held(m, k)' :
                   e \in Held(m, k) \/ (m = Op(c).map /\ e = event[c])
             /\ \A m \in Maps : Held(m, Cell) \subseteq Held(m, Cell)'
  <2>1. /\ Held(n, l)' = v
        /\ \A m \in Maps, k \in Keys \cup {Cell} :
              m # n \/ k # l => Held(m, k)' = Held(m, k)
    BY <1>5, PutHeld
  <2>2. l # Cell
    BY SlotFacts
  <2>3. QED
    BY <1>5, <2>1, <2>2
<1>6. CASE InsertAny(c) \/ InsertNoExist(c)
  <2>1. step[c] = "insert" /\ Target(c) \in Keys
    BY <1>6, OpFacts DEF InsertAny, InsertNoExist
  <2>2. CASE UNCHANGED mapVars
    BY <1>3, <2>2 DEF mapVars
  <2>3. CASE \E s \in Slots : Put(Op(c).map, Target(c), {event[c]}, s)
    BY <1>1, <1>2, <1>5, <2>1, <2>3
  <2>4. QED
    BY <1>6, <2>2, <2>3, Insertions
<1>7. CASE InsertZero(c)
  <2>1. step[c] = "insert" /\ Target(c) \in Keys
    BY <1>7, OpFacts DEF InsertZero
  <2>2. CASE UNCHANGED mapVars
    BY <1>3, <2>2 DEF mapVars
  <2>3. CASE \E s \in Slots : Put(Op(c).map, Target(c), {}, s)
    BY <1>1, <1>2, <1>5, <2>1, <2>3
  <2>4. QED
    BY <1>7, <2>2, <2>3, ZeroInsertion
<1>8. CASE Lookup(c) \/ LookupAgain(c)
  BY <1>3, <1>8 DEF Lookup, LookupAgain, mapVars
<1>9. QED
  BY <1>4, <1>6, <1>7, <1>8 DEF HandlerStep

\* Clearing takes from the key that was read, and adds nothing.
LEMMA ClearHeld ==
  ASSUME Types, Clear
  PROVE  /\ phase = "clear" /\ Current.map \in Maps /\ key \in Keys
         /\ \A m \in Maps, k \in Keys \cup {Cell} :
               Held(m, k)' = IF m = Current.map /\ k = key THEN {} ELSE Held(m, k)
<1> USE DEF Types
<1>1. phase = "clear" /\ Current.map \in Maps /\ key \in Keys
  BY Clearings DEF Clear
<1>2. CASE UNCHANGED mapVars /\ bucket[Current.map][key] = Null
  <2>1. Held(Current.map, key) = {}
    BY <1>2 DEF Held
  <2>2. \A m, k : Held(m, k)' = Held(m, k)
    BY <1>2 DEF mapVars, Held
  <2>3. QED
    BY <1>1, <2>1, <2>2
<1>3. ASSUME NEW n \in Maps, NEW l \in Keys, n = Current.map, l = key,
             (\E s \in Slots : Put(n, l, {}, s)) \/ Drop(n, l)
      PROVE  \A m \in Maps, k \in Keys \cup {Cell} :
                 Held(m, k)' = IF m = n /\ k = l THEN {} ELSE Held(m, k)
  BY <1>3, PutHeld, DropHeld
<1>4. QED
  BY <1>1, <1>2, <1>3, Clearings

\* No incremental map is printed twice.
LEMMA PrintStep ==
  ASSUME Types, QueueInv, PlaceInv, SlotInv, PrintInv, [Next]_vars
  PROVE  PrintInv'
<1>0. /\ tool' = tool /\ Maps' = Maps /\ Incremental' = Incremental
      /\ \A m : IsArray(m)' <=> IsArray(m)
      /\ Incremental \subseteq Maps /\ Cell \in Keys \cup {Cell}
  BY ToolKept, SameTool, IncrementalFacts
<1>1. ASSUME report' = report, prev' = prev, pass' = pass, phase' = phase, key' = key,
             \A m \in Maps, k \in Keys \cup {Cell} : \A e \in Held(m, k)' :
                 e \in Held(m, k) \/ report[m][e] = <<>>,
             \A m \in Maps : Held(m, Cell) \subseteq Held(m, Cell)'
      PROVE  PrintInv'
  <2>1. \A m, k : ReadWindow(m, k)' <=> ReadWindow(m, k)
    BY <1>0, <1>1 DEF ReadWindow, Current
  <2>2. QED
    BY <1>0, <1>1, <2>1 DEF PrintInv
<1>2. ASSUME NEW c \in CPUs, HandlerStep(c) PROVE PrintInv'
  <2>1. report[Op(c).map][event[c]] = <<>>
    BY <1>2, HandlerHeld, Uncounted
  <2>2. QED
    BY <1>1, <1>2, <2>1, HandlerHeld DEF readerVars
<1>3. CASE (\E c \in CPUs, e \in Events : \E h \in tool.handlers : Fire(c, e, h))
           \/ UNCHANGED vars
  <2>1. UNCHANGED <<report, prev, pass, phase, key, bucket, val>>
    BY <1>3 DEF Fire, vars, readerVars, mapVars
  <2>2. QED
    BY <1>1, <2>1 DEF Held
<1>4. CASE WakeUp \/ Walk \/ Peek
  <2>1. UNCHANGED <<report, prev, bucket, val>> /\ phase # "clear"
    BY <1>4 DEF WakeUp, Walk, Peek, mapVars
  <2>2. \A m, k : Held(m, k)' = Held(m, k) /\ ~ReadWindow(m, k)
    BY <2>1 DEF Held, ReadWindow
  <2>3. QED
    BY <1>0, <2>1, <2>2 DEF PrintInv
<1>5. CASE Clear
  <2>1. report' = report /\ prev' = prev
    BY <1>5 DEF Clear
  <2>2. \A m, k : ReadWindow(m, k) => m = Current.map /\ k = key
    BY DEF ReadWindow
  <2>3. key # Cell
    BY <1>5, ClearHeld, SlotFacts
  <2>4. \A m \in Incremental : ~IsArray(m) => \A k \in Keys \cup {Cell} :
           \A e \in Held(m, k)' : report[m][e] = <<>>
    BY <1>0, <1>5, <2>2, ClearHeld DEF PrintInv
  <2>5. \A m \in Maps : Held(m, Cell)' = Held(m, Cell)
    BY <1>5, <2>3, ClearHeld
  <2>6. QED
    BY <1>0, <2>1, <2>4, <2>5 DEF PrintInv
<1>6. CASE Look
  <2>1. /\ phase = "look" /\ Current.map \in Maps /\ key \in Keys
        /\ UNCHANGED <<bucket, val, prev>>
    BY <1>6, LookPrints DEF Types
  <2>2. \A m, k : Held(m, k)' = Held(m, k) /\ ~ReadWindow(m, k)
    BY <2>1 DEF Held, ReadWindow
  <2>3. CASE report' = report
    BY <1>0, <2>1, <2>2, <2>3 DEF PrintInv
  <2>4. CASE Printing(Current.map, key, Held(Current.map, key)) /\ Current.style = "snapshot"
    <3>1. \A m \in Incremental, e \in Events : report'[m][e] = report[m][e]
      BY <1>0, <2>1, <2>4, IncrementalFacts DEF Printing
    <3>2. QED
      BY <1>0, <2>1, <2>2, <3>1, HeldFacts DEF PrintInv, Types
  <2>5. CASE /\ Printing(Current.map, key, Held(Current.map, key)) /\ phase' = "clear"
             /\ pass' = pass /\ key' = key
    <3>1. \A m, k : m = Current.map /\ k = key => ReadWindow(m, k)'
      BY <1>0, <2>5 DEF ReadWindow, Current
    <3>2. ~IsArray(Current.map)
      BY <2>1, CurrentFacts DEF Types
    <3>3. ASSUME NEW m \in Incremental, NEW e \in Events
          PROVE  Len(report'[m][e]) <= 1
      <4>1. CASE m = Current.map /\ e \in Held(m, key)
        <5>1. report[m][e] = <<>>
          BY <2>1, <2>2, <3>2, <4>1 DEF PrintInv
        <5>2. Len(report'[m][e]) = 1
          BY <2>5, <4>1, <5>1 DEF Printing
        <5>3. QED
          BY <5>2
      <4>2. CASE ~(m = Current.map /\ e \in Held(m, key))
        BY <1>0, <2>5, <4>2 DEF Printing, PrintInv
      <4>3. QED
        BY <4>1, <4>2
    <3>4. ASSUME NEW m \in Incremental, ~IsArray(m), NEW k \in Keys \cup {Cell},
                 NEW e \in Held(m, k), report'[m][e] # <<>>
          PROVE  ReadWindow(m, k)'
      <4>1. m \in Maps /\ e \in Events /\ report[m][e] = <<>>
        BY <1>0, <2>2, <3>4, HeldFacts DEF PrintInv, Types
      <4>2. m = Current.map /\ e \in Held(m, key)
        BY <2>5, <3>4, <4>1 DEF Printing
      <4>3. k = key
        BY <2>1, <3>4, <4>1, <4>2, HeldApart DEF Types
      <4>4. QED
        BY <3>1, <4>2, <4>3
    <3>5. ASSUME NEW m \in Incremental, IsArray(m), NEW e \in Events
          PROVE  report'[m][e] = report[m][e]
      BY <1>0, <2>5, <3>2, <3>5 DEF Printing
    <3>6. QED
      BY <1>0, <2>1, <2>2, <3>3, <3>4, <3>5 DEF PrintInv
  <2>6. QED
    BY <1>0, <1>6, <2>3, <2>4, <2>5, LookPrints, Prints DEF Types
<1>7. CASE Diff
  <2> DEFINE n == Current.map
             v == Held(n, Cell) \ prev[n]
  <2>1. /\ phase = "diff" /\ n \in Maps /\ IsArray(n)
        /\ UNCHANGED <<bucket, val>> /\ prev' = [prev EXCEPT ![n] = Held(n, Cell)]
    BY <1>7, DiffPrints DEF Types
  <2>2. Printing(n, Cell, v)
    BY <1>0, <1>7, DiffPrints, Prints DEF Types
  <2>3. \A m, k : Held(m, k)' = Held(m, k) /\ ~ReadWindow(m, k)
    BY <2>1 DEF Held, ReadWindow
  <2> HIDE DEF n
  <2>4. ASSUME NEW m \in Incremental, m # n
        PROVE  /\ prev'[m] = prev[m]
               /\ \A e \in Events : report'[m][e] = report[m][e]
    BY <1>0, <2>1, <2>2, <2>4 DEF Printing, Types, HistoryType
  <2>5. CASE n \in Incremental
    <3>1. /\ prev[n] \subseteq Held(n, Cell)
          /\ \A e \in Events : report[n][e] # <<>> <=> e \in prev[n]
      BY <2>1, <2>5 DEF PrintInv
    <3>2. prev'[n] = Held(n, Cell)
      BY <2>1 DEF Types, HistoryType
    <3>3. \A e \in Events : report'[n][e] # <<>> <=> e \in prev'[n]
      BY <2>1, <2>2, <3>1, <3>2 DEF Printing
    <3>4. ASSUME NEW e \in Events PROVE Len(report'[n][e]) <= 1
      <4>1. CASE e \in v
        <5>1. Len(report'[n][e]) = 1
          BY <2>2, <3>1, <4>1 DEF Printing
        <5>2. QED
          BY <5>1
      <4>2. CASE e \notin v
        BY <2>1, <2>2, <2>5, <4>2 DEF Printing, PrintInv
      <4>3. QED
        BY <4>1, <4>2
    <3>5. \A m \in Incremental : ~IsArray(m) => m # n
      BY <2>1
    <3>6. \A m \in Incremental, e \in Events : Len(report'[m][e]) <= 1
      BY <2>4, <3>4 DEF PrintInv
    <3>7. ASSUME NEW m \in Incremental, ~IsArray(m), NEW k \in Keys \cup {Cell},
                 NEW e \in Held(m, k)
          PROVE  report'[m][e] = <<>>
      BY <1>0, <2>3, <2>4, <3>5, <3>7, HeldFacts DEF PrintInv, Types
    <3>8. ASSUME NEW m \in Incremental, IsArray(m)
          PROVE  /\ prev'[m] \subseteq Held(m, Cell)
                 /\ \A e \in Events : report'[m][e] # <<>> <=> e \in prev'[m]
      BY <2>4, <3>2, <3>3, <3>8 DEF PrintInv
    <3>9. QED
      BY <1>0, <2>3, <3>6, <3>7, <3>8 DEF PrintInv
  <2>6. CASE n \notin Incremental
    BY <1>0, <2>3, <2>4, <2>6, HeldFacts DEF PrintInv, Types
  <2>7. QED
    BY <2>5, <2>6
<1>8. QED
  BY <1>2, <1>3, <1>4, <1>5, <1>6, <1>7 DEF Next, ReaderStep

-----------------------------------------------------------------------------
(* What is lost met a race *)

\* A step of a handler moves it, and no other.
LEMMA StepMoves ==
  ASSUME Types, NEW c \in CPUs, HandlerStep(c)
  PROVE  /\ step'[c] # step[c]
         /\ \A d \in CPUs : d # c =>
               /\ step'[d] = step[d] /\ todo'[d] = todo[d] /\ ptr'[d] = ptr[d]
         /\ event' = event
         /\ \/ Advance(c) /\ step'[c] \in {"idle", "lookup"}
            \/ /\ Lookup(c) /\ step[c] = "lookup" /\ todo' = todo
               /\ LET s == bucket[Op(c).map][KeyOf(event[c], Op(c))]
                  IN  ptr'[c] = s /\ step'[c] = IF s = Null THEN "insert" ELSE "add"
            \/ InsertZero(c) /\ step[c] = "insert" /\ step'[c] = "again" /\ todo' = todo
            \/ /\ LookupAgain(c) /\ step[c] = "again" /\ step'[c] = "add" /\ todo' = todo
               /\ LET s == bucket[Op(c).map][KeyOf(event[c], Op(c))]
                  IN  s # Null /\ ptr'[c] = s
<1> USE DEF Types
<1>1. event' = event /\ step[c] # "idle"
  BY HandlerHeld
<1>2. CASE Advance(c) /\ ~(Lookup(c))
  <2>1. /\ \A d \in CPUs : d # c =>
              todo'[d] = todo[d] /\ step'[d] = step[d] /\ ptr'[d] = ptr[d]
        /\ step'[c] \in {"idle", "lookup"}
    BY <1>1, <1>2, Advances
  <2>2. step[c] # "lookup"
    BY <1>2 DEF HandlerStep, Add, InsertAny, InsertNoExist, InsertZero, LookupAgain
  <2>3. QED
    BY <1>1, <1>2, <2>1, <2>2
<1>3. CASE Lookup(c)
  BY <1>1, <1>3 DEF Lookup, HandlerType
<1>4. CASE InsertZero(c)
  BY <1>1, <1>4 DEF InsertZero, HandlerType
<1>5. CASE LookupAgain(c) /\ ~Advance(c)
  <2> DEFINE s == bucket[Op(c).map][KeyOf(event[c], Op(c))]
  <2>1. /\ step[c] = "again" /\ s # Null /\ todo' = todo
        /\ ptr' = [ptr EXCEPT ![c] = s] /\ step' = [step EXCEPT ![c] = "add"]
    BY <1>5 DEF LookupAgain
  <2> HIDE DEF s
  <2>2. /\ step'[c] = "add" /\ ptr'[c] = s
        /\ \A d \in CPUs : d # c => step'[d] = step[d] /\ ptr'[d] = ptr[d]
    BY <2>1 DEF HandlerType
  <2>3. QED
    BY <1>1, <1>5, <2>1, <2>2 DEF s
<1>6. QED
  BY <1>2, <1>3, <1>4, <1>5 DEF HandlerStep, Add, InsertAny, InsertNoExist

\* A handler that is in flight after a step was so before, or has just looked
\* its key up.
LEMMA Flight ==
  ASSUME Types, [Next]_vars, NEW c \in CPUs, NEW m, NEW k, InFlight(c, m, k)'
  PROVE  /\ event'[c] = event[c] /\ m \in Maps /\ k \in Keys \cup {Cell}
         /\ \/ InFlight(c, m, k) /\ step'[c] = step[c] /\ ptr'[c] = ptr[c]
            \/ /\ Lookup(c) /\ Op(c).map = m /\ KeyOf(event[c], Op(c)) = k
               /\ step[c] = "lookup" /\ ptr'[c] = bucket[m][k]
               /\ step'[c] = IF bucket[m][k] = Null THEN "insert" ELSE "add"
            \/ InFlight(c, m, k) /\ InsertZero(c) /\ step[c] = "insert" /\ step'[c] = "again"
            \/ /\ InFlight(c, m, k) /\ LookupAgain(c) /\ step[c] = "again"
               /\ step'[c] = "add" /\ bucket[m][k] # Null /\ ptr'[c] = bucket[m][k]
<1> USE DEF Types
<1>0. tool' = tool /\ attr' = attr
  BY ToolKept
<1>1. /\ step'[c] \in {"add", "insert", "again"} /\ Op(c)'.map = m
      /\ KeyOf(event[c], Op(c))' = k
  BY DEF InFlight
<1>2. ASSUME todo'[c] = todo[c], event'[c] = event[c], step[c] # "idle"
      PROVE  /\ Op(c).map = m /\ KeyOf(event[c], Op(c)) = k
             /\ m \in Maps /\ k \in Keys \cup {Cell}
  <2>1. Op(c)' = Op(c)
    BY <1>2 DEF Op
  <2>2. KeyOf(event[c], Op(c))' = KeyOf(event[c], Op(c))
    BY <1>0, <1>2, <2>1 DEF KeyOf
  <2>3. QED
    BY <1>1, <1>2, <2>1, <2>2, OpFacts DEF Target
<1>3. CASE todo'[c] = todo[c] /\ event'[c] = event[c] /\ step'[c] = step[c] /\ ptr'[c] = ptr[c]
  BY <1>1, <1>2, <1>3 DEF InFlight
<1>4. ASSUME NEW d \in CPUs, NEW e \in Events, NEW h \in tool.handlers, Fire(d, e, h)
      PROVE  todo'[c] = todo[c] /\ event'[c] = event[c] /\ step'[c] = step[c] /\ ptr'[c] = ptr[c]
  <2>1. /\ todo' = [todo EXCEPT ![d] = h] /\ event' = [event EXCEPT ![d] = e]
        /\ step' = [step EXCEPT ![d] = IF h = <<>> THEN "idle" ELSE "lookup"]
        /\ ptr' = ptr
    BY <1>4 DEF Fire
  <2>2. c # d
    BY <1>1, <2>1 DEF HandlerType
  <2>3. QED
    BY <2>1, <2>2 DEF HandlerType
<1>5. CASE HandlerStep(c)
  <2>1. event' = event /\ step[c] # "idle" /\ (todo' = todo \/ Advance(c))
    BY <1>5, StepMoves, HandlerHeld
  <2>2. todo' = todo
    BY <1>1, <1>5, <2>1, Advances
  <2>3. /\ Op(c).map = m /\ KeyOf(event[c], Op(c)) = k
        /\ m \in Maps /\ k \in Keys \cup {Cell}
    BY <1>2, <2>1, <2>2
  <2>4. QED
    BY <1>1, <1>5, <2>1, <2>3, StepMoves DEF InFlight
<1>6. CASE ReaderStep \/ UNCHANGED vars
  BY <1>3, <1>6, LoopFrame DEF vars
<1>7. QED
  BY <1>3, <1>4, <1>5, <1>6, StepMoves DEF Next

\* Races are remembered.
LEMMA RacedKept ==
  ASSUME [Next]_vars
  PROVE  \A m, e : /\ Raced(m, e) => Raced(m, e)'
                   /\ <<m, e, "full">> \in raced => <<m, e, "full">> \in raced'
BY HistoryGrows DEF Raced

\* A lookup notes whom it races with.
LEMMA LookupRaces ==
  ASSUME NEW c \in CPUs, Lookup(c), NEW m, NEW k, Op(c).map = m,
         KeyOf(event[c], Op(c)) = k
  PROVE  /\ ReadWindow(m, k) => Raced(m, event[c])'
         /\ \A d \in CPUs :
               d # c /\ InFlight(d, m, k) /\ (bucket[m][k] = Null \/ step[d] # "add") =>
                   Raced(m, event[c])' /\ Raced(m, event[d])'
<1> DEFINE rivals == {d \in CPUs \ {c} :
                        InFlight(d, m, k) /\ (bucket[m][k] = Null \/ step[d] # "add")}
<1>1. /\ event' = event
      /\ raced' = raced
            \cup (IF rivals = {} THEN {}
                  ELSE Races(m, {event[d] : d \in rivals \cup {c}}, "handler"))
            \cup (IF ReadWindow(m, k) THEN Races(m, {event[c]}, "reader") ELSE {})
  BY DEF Lookup
<1>2. ReadWindow(m, k) => Raced(m, event[c])'
  <2> HIDE DEF rivals
  <2> QED BY <1>1 DEF Races, Raced
<1>3. ASSUME NEW d \in rivals
      PROVE  Raced(m, event[c])' /\ Raced(m, event[d])'
  <2> HIDE DEF rivals
  <2>1. /\ event[c] \in {event[f] : f \in rivals \cup {c}}
        /\ event[d] \in {event[f] : f \in rivals \cup {c}}
    OBVIOUS
  <2>2. rivals # {}
    OBVIOUS
  <2>3. /\ <<m, event[c], "handler">> \in raced'
        /\ <<m, event[d], "handler">> \in raced'
    BY <1>1, <2>1, <2>2 DEF Races
  <2>4. QED
    BY <1>1, <2>3 DEF Raced
<1>4. QED
  BY <1>2, <1>3

\* The loop is about to clear a key: it has just printed it, or was so before.
LEMMA WindowMoves ==
  ASSUME Types, [Next]_vars, NEW m, NEW k, ReadWindow(m, k)'
  PROVE  \/ ReadWindow(m, k) /\ report' = report /\ ~Clear
         \/ /\ Look /\ m = Current.map /\ k = key
            /\ PrintCount(m, k, Held(m, k))
            /\ raced' = raced \cup Races(m, {event[c] : c \in
                           {d \in CPUs : InFlight(d, m, k)}}, "reader")
<1> USE DEF Types
<1>0. tool' = tool /\ phase' = "clear" /\ Current'.map = m /\ key' = k
  BY ToolKept DEF ReadWindow
<1>1. CASE Look
  <2>1. /\ PrintCount(Current.map, key, Held(Current.map, key))
        /\ raced' = raced \cup Races(Current.map, {event[c] : c \in
                           {d \in CPUs : InFlight(d, Current.map, key)}}, "reader")
        /\ UNCHANGED <<pass, key>>
    BY <1>0, <1>1, LookPrints, StopLoop
  <2>2. Current' = Current
    BY <1>0, <2>1 DEF Current
  <2>3. m = Current.map /\ k = key
    BY <1>0, <2>1, <2>2
  <2>4. QED
    BY <1>1, <2>1, <2>3
<1>2. CASE ~Look
  <2>1. phase = "clear"
    BY <1>0, <1>2, LoopTypeStep
  <2>2. ~Clear
    BY <1>0, StopLoop DEF Clear
  <2>3. ~ReaderStep
    BY <1>2, <2>1, <2>2 DEF ReaderStep, WakeUp, Diff, Walk, Peek
  <2>4. UNCHANGED readerVars /\ report' = report
    BY <2>3 DEF Next, HandlerStep, Fire, Lookup, Add, InsertAny, InsertNoExist,
       InsertZero, LookupAgain, vars, readerVars
  <2>5. ReadWindow(m, k)
    BY <1>0, <2>4 DEF ReadWindow, Current, readerVars
  <2>6. QED
    BY <2>2, <2>4, <2>5
<1>3. QED
  BY <1>1, <1>2

\* Who changes the slot of a key, or takes from it: a handler that creates it, or
\* the loop that clears it.
LEMMA SlotMoves ==
  ASSUME Types, [Next]_vars, NEW m \in Maps, NEW k \in Keys \cup {Cell}
  PROVE  \/ bucket'[m][k] = bucket[m][k] /\ Held(m, k) \subseteq Held(m, k)'
         \/ \E c \in CPUs : /\ HandlerStep(c) /\ InFlight(c, m, k)
                            /\ step[c] = "insert"
         \/ Clear /\ ReadWindow(m, k)
<1> USE DEF Types
<1>1. CASE bucket' = bucket /\ val' = val
  BY <1>1 DEF Held
<1>2. ASSUME NEW c \in CPUs, Add(c), Grow(Op(c).map, ptr[c], event[c])
      PROVE  bucket'[m][k] = bucket[m][k] /\ Held(m, k) \subseteq Held(m, k)'
  <2>1. Op(c).map \in Maps /\ ptr[c] \in Slots
    BY <1>2, OpFacts DEF Add, Grow
  <2>2. Held(m, k)' = IF m = Op(c).map /\ bucket[Op(c).map][k] = ptr[c]
                      THEN Held(m, k) \cup {event[c]} ELSE Held(m, k)
    BY <1>2, <2>1, GrowHeld
  <2>3. bucket' = bucket
    BY <1>2 DEF Grow
  <2>4. QED
    BY <2>2, <2>3
<1>3. ASSUME NEW c \in CPUs, NEW v, NEW s \in Slots,
             InsertAny(c) \/ InsertNoExist(c) \/ InsertZero(c),
             Put(Op(c).map, Target(c), v, s)
      PROVE  \/ bucket'[m][k] = bucket[m][k] /\ Held(m, k) \subseteq Held(m, k)'
             \/ HandlerStep(c) /\ InFlight(c, m, k) /\ step[c] = "insert"
  <2>1. step[c] = "insert" /\ HandlerStep(c)
    BY <1>3 DEF InsertAny, InsertNoExist, InsertZero, HandlerStep
  <2>2. Op(c).map \in Maps /\ Target(c) \in Keys
    BY <2>1, OpFacts
  <2>3. CASE m = Op(c).map /\ k = Target(c)
    BY <2>1, <2>3 DEF InFlight, Target
  <2>4. CASE m # Op(c).map \/ k # Target(c)
    <3>1. bucket'[m][k] = bucket[m][k]
      BY <1>3, <2>4 DEF Put
    <3>2. Held(m, k)' = Held(m, k)
      BY <1>3, <2>2, <2>4, PutHeld
    <3>3. QED
      BY <3>1, <3>2
  <2>5. QED
    BY <2>3, <2>4
<1>4. CASE Clear
  <2>1. CASE m = Current.map /\ k = key
    BY <1>4, <2>1 DEF ReadWindow, Clear
  <2>2. CASE ~(m = Current.map /\ k = key)
    <3>1. Held(m, k)' = Held(m, k)
      BY <1>4, <2>2, ClearHeld
    <3>2. bucket'[m][k] = bucket[m][k]
      BY <1>4, <2>2, Clearings DEF mapVars, Put, Drop
    <3>3. QED
      BY <3>1, <3>2
  <2>3. QED
    BY <2>1, <2>2
<1>5. QED
  BY <1>1, <1>2, <1>3, <1>4, MapMoves

\* Races are noted on all sides, and whoever has not raced finds what it expects.
LEMMA RaceStep ==
  ASSUME Types, RaceInv, [Next]_vars
  PROVE  RaceInv'
<1>0. tool' = tool /\ attr' = attr /\ Maps' = Maps
  BY ToolKept, SameTool
<1>1. ASSUME NEW c \in CPUs, NEW m \in Maps, NEW k \in Keys \cup {Cell},
             InFlight(c, m, k)', ~Raced(m, event[c])'
      PROVE  /\ step'[c] = "add" => bucket'[m][k] = ptr'[c]
             /\ step'[c] = "insert" => bucket'[m][k] = Null
             /\ step'[c] = "again" => \/ bucket'[m][k] # Null
                                      \/ <<m, event'[c], "full">> \in raced'
  <2>0. event'[c] = event[c]
    BY <1>1, Flight
  <2>1. ~Raced(m, event[c])
    BY <1>1, <2>0, HistoryGrows DEF Raced
  <2>2. CASE InFlight(c, m, k) /\ step'[c] = step[c] /\ ptr'[c] = ptr[c]
    <3>1. bucket'[m][k] = bucket[m][k]
      <4>1. ASSUME NEW d \in CPUs, HandlerStep(d), InFlight(d, m, k), step[d] = "insert"
            PROVE  FALSE
        <5>1. d # c
          BY <2>2, <4>1, StepMoves
        <5>2. QED
          BY <2>1, <2>2, <4>1, <5>1 DEF RaceInv
      <4>2. ~(Clear /\ ReadWindow(m, k))
        BY <2>1, <2>2 DEF RaceInv
      <4>3. QED
        BY <4>1, <4>2, SlotMoves
    <3>2. <<m, event[c], "full">> \in raced => <<m, event[c], "full">> \in raced'
      BY HistoryGrows
    <3>3. QED
      BY <2>0, <2>1, <2>2, <3>1, <3>2 DEF RaceInv
  <2>3. CASE /\ Lookup(c) /\ ptr'[c] = bucket[m][k]
             /\ step'[c] = IF bucket[m][k] = Null THEN "insert" ELSE "add"
    <3>1. bucket' = bucket
      BY <2>3 DEF Lookup, mapVars
    <3>2. QED
      BY <2>3, <3>1
  <2>4. CASE InFlight(c, m, k) /\ InsertZero(c) /\ step[c] = "insert" /\ step'[c] = "again"
    <3>1. m = Op(c).map /\ k = Target(c)
      BY <2>4 DEF InFlight, Target
    <3>2. \/ \E s \in Slots : Put(Op(c).map, Target(c), {}, s)
          \/ raced' = raced \cup {<<Op(c).map, event[c], "full">>}
      BY <2>4, ZeroInsertion DEF Types
    <3>3. QED
      BY <2>0, <2>4, <3>1, <3>2, SlotFacts DEF Put
  <2>5. CASE LookupAgain(c) /\ step'[c] = "add" /\ ptr'[c] = bucket[m][k]
    <3>1. bucket' = bucket
      BY <2>5 DEF LookupAgain, mapVars
    <3>2. QED
      BY <2>5, <3>1
  <2>6. QED
    BY <1>1, <2>2, <2>3, <2>4, <2>5, Flight
<1>2. ASSUME NEW c \in CPUs, NEW d \in CPUs, NEW m \in Maps, NEW k \in Keys \cup {Cell},
             c # d, InFlight(c, m, k)', InFlight(d, m, k)',
             ~(step'[c] = "add" /\ step'[d] = "add")
      PROVE  Raced(m, event[c])'
  <2>0. event'[c] = event[c] /\ event'[d] = event[d]
    BY <1>2, Flight
  <2>1. CASE InFlight(c, m, k) /\ InFlight(d, m, k)
    <3>1. /\ step'[c] = step[c] \/ step[c] # "add"
          /\ step'[d] = step[d] \/ step[d] # "add"
      BY <1>2, <2>1, Flight
    <3>2. Raced(m, event[c])
      BY <1>2, <2>1, <3>1 DEF RaceInv
    <3>3. QED
      BY <2>0, <3>2, HistoryGrows DEF Raced
  <2>2. CASE Lookup(c) /\ Op(c).map = m /\ KeyOf(event[c], Op(c)) = k
             /\ step'[c] = IF bucket[m][k] = Null THEN "insert" ELSE "add"
    <3>1. step'[d] = step[d]
      BY <1>2, <2>2, StepMoves DEF HandlerStep
    <3>2. InFlight(d, m, k)
      BY <1>2, <3>1, Flight
    <3>3. bucket[m][k] = Null \/ step[d] # "add"
      BY <1>2, <2>2, <3>1
    <3>4. QED
      BY <1>2, <2>2, <3>2, <3>3, LookupRaces
  <2>3. CASE Lookup(d) /\ Op(d).map = m /\ KeyOf(event[d], Op(d)) = k
             /\ step'[d] = IF bucket[m][k] = Null THEN "insert" ELSE "add"
    <3>1. step'[c] = step[c]
      BY <1>2, <2>3, StepMoves DEF HandlerStep
    <3>2. InFlight(c, m, k)
      BY <1>2, <3>1, Flight
    <3>3. bucket[m][k] = Null \/ step[c] # "add"
      BY <1>2, <2>3, <3>1
    <3>4. QED
      BY <1>2, <2>3, <3>2, <3>3, LookupRaces
  <2>4. QED
    BY <1>2, <2>1, <2>2, <2>3, Flight
<1>3. ASSUME NEW c \in CPUs, NEW m \in Maps, NEW k \in Keys \cup {Cell},
             InFlight(c, m, k)', ReadWindow(m, k)'
      PROVE  Raced(m, event[c])'
  <2>0. event'[c] = event[c]
    BY <1>3, Flight
  <2>1. CASE ReadWindow(m, k) /\ InFlight(c, m, k)
    BY <2>0, <2>1, HistoryGrows DEF RaceInv, Raced
  <2>2. CASE ReadWindow(m, k) /\ Lookup(c) /\ Op(c).map = m /\ KeyOf(event[c], Op(c)) = k
    BY <2>2, LookupRaces
  <2>3. CASE /\ Look
             /\ raced' = raced \cup Races(m, {event[d] : d \in
                            {f \in CPUs : InFlight(f, m, k)}}, "reader")
    <3>1. step' = step
      BY <2>3, LoopFrame DEF ReaderStep
    <3>2. InFlight(c, m, k)
      BY <1>3, <3>1, Flight
    <3>3. event[c] \in {event[d] : d \in {f \in CPUs : InFlight(f, m, k)}}
      BY <3>2
    <3>4. <<m, event[c], "reader">> \in raced'
      BY <2>3, <3>3 DEF Races
    <3>5. QED
      BY <2>0, <3>4 DEF Raced
  <2>4. QED
    BY <1>3, <2>1, <2>2, <2>3, Flight, WindowMoves
<1>4. QED
  BY <1>0, <1>1, <1>2, <1>3 DEF RaceInv

\* What appears under a key is the event of a handler that counts there, or that
\* raced.
LEMMA NewHeld ==
  ASSUME Types, SlotInv, RaceInv, NEW c \in CPUs, HandlerStep(c),
         NEW m \in Maps, NEW k \in Keys \cup {Cell}, NEW e,
         e \in Held(m, k)', e \notin Held(m, k)
  PROVE  /\ e = event[c] /\ m = Op(c).map /\ InFlight(c, m, Target(c))
         /\ k = Target(c) \/ Raced(m, e)
<1> USE DEF Types
<1>1. e = event[c] /\ m = Op(c).map /\ step[c] # "idle"
  BY HandlerHeld
<1>2. Target(c) \in Keys \cup {Cell}
  BY <1>1, OpFacts
<1>3. CASE bucket' = bucket /\ val' = val
  BY <1>3 DEF Held
<1>4. CASE Add(c)
  <2>1. ptr[c] \in Slots /\ Grow(m, ptr[c], e) /\ step[c] = "add"
    <3>1. Grow(Op(c).map, ptr[c], event[c]) /\ step[c] = "add"
      BY <1>4, AddGrows DEF Add
    <3>2. Grow(m, ptr[c], e)
      BY <1>1, <3>1
    <3>3. QED
      BY <3>1, <3>2 DEF Grow
  <2>2. bucket[m][k] = ptr[c]
    <3>1. Held(m, k)' = IF bucket[m][k] = ptr[c]
                        THEN Held(m, k) \cup {e} ELSE Held(m, k)
      BY <2>1, GrowHeld
    <3>2. QED
      BY <3>1
  <2>3. InFlight(c, m, Target(c))
    BY <1>1, <2>1 DEF InFlight, Target
  <2>4. ~Raced(m, e) => bucket[m][Target(c)] = ptr[c]
    BY <1>1, <1>2, <2>1, <2>3 DEF RaceInv
  <2>5. ~Raced(m, e) => k = Target(c)
    BY <1>2, <2>1, <2>2, <2>4, SlotFacts DEF SlotInv
  <2>6. QED
    BY <1>1, <2>3, <2>5
<1>5. CASE InsertAny(c) \/ InsertNoExist(c) \/ InsertZero(c)
  <2>1. step[c] = "insert"
    BY <1>5 DEF InsertAny, InsertNoExist, InsertZero
  <2>2. InFlight(c, m, Target(c))
    BY <1>1, <2>1 DEF InFlight, Target
  <2>3. CASE UNCHANGED mapVars
    BY <1>3, <2>3 DEF mapVars
  <2>4. ASSUME NEW v, NEW s \in Slots, Put(m, Target(c), v, s)
        PROVE  k = Target(c)
    <3>1. Target(c) \in Keys
      BY <2>1, OpFacts
    <3>2. QED
      BY <2>4, <3>1, PutHeld
  <2>5. QED
    BY <1>1, <1>5, <2>2, <2>3, <2>4, Insertions, ZeroInsertion
<1>6. CASE Lookup(c) \/ LookupAgain(c)
  BY <1>3, <1>6 DEF Lookup, LookupAgain, mapVars
<1>7. QED
  BY <1>4, <1>5, <1>6 DEF HandlerStep

\* What is printed stays printed.
LEMMA ReportKept ==
  ASSUME Types, [Next]_vars, NEW m \in Maps, NEW e \in Events, report[m][e] # <<>>
  PROVE  report'[m][e] # <<>>
<1> USE DEF Types
<1>0. Maps' = Maps
  BY ToolKept, SameTool
<1>1. CASE report' = report
  BY <1>1
<1>2. CASE Look
  <2>1. report' = report \/ Printing(Current.map, key, Held(Current.map, key))
    BY <1>0, <1>2, LookPrints, Prints
  <2>2. QED
    BY <2>1 DEF Printing
<1>3. CASE Diff
  <2>1. Printing(Current.map, Cell, Held(Current.map, Cell) \ prev[Current.map])
    BY <1>0, <1>3, DiffPrints, Prints
  <2>2. QED
    BY <2>1 DEF Printing
<1>4. QED
  BY <1>1, <1>2, <1>3, ReportMoves

\* Without a step of a handler, nothing new is held.
LEMMA OldHeld ==
  ASSUME Types, [Next]_vars, ~(\E c \in CPUs : HandlerStep(c)),
         NEW m \in Maps, NEW k \in Keys \cup {Cell}
  PROVE  Held(m, k)' \subseteq Held(m, k)
<1>1. CASE bucket' = bucket /\ val' = val
  BY <1>1 DEF Held
<1>2. CASE Clear
  BY <1>2, ClearHeld
<1>3. QED
  BY <1>1, <1>2, MapMoves DEF HandlerStep

\* Events are under their keys, and none that counts is under a key that is about
\* to be created or cleared.
LEMMA KeyStep ==
  ASSUME Types, SlotInv, RaceInv, KeyInv, [Next]_vars
  PROVE  KeyInv'
<1>0. tool' = tool /\ attr' = attr /\ Maps' = Maps /\ \A e, m : KeyIn(e, m)' = KeyIn(e, m)
  BY ToolKept, SameTool
<1>1. \A m, e : Raced(m, e) => Raced(m, e)'
  BY RacedKept
<1>2. ASSUME NEW m \in Maps, NEW k \in Keys \cup {Cell}, NEW e \in Held(m, k)'
      PROVE  k = KeyIn(e, m) \/ Raced(m, e)'
  <2>1. CASE e \in Held(m, k)
    BY <1>1, <2>1 DEF KeyInv
  <2>2. ASSUME NEW c \in CPUs, HandlerStep(c), e \notin Held(m, k)
        PROVE  k = KeyIn(e, m) \/ Raced(m, e)'
    <3>1. /\ e = event[c] /\ m = Op(c).map
          /\ k = Target(c) \/ Raced(m, e)
      BY <1>2, <2>2, NewHeld
    <3>2. KeyIn(event[c], Op(c).map) = Target(c)
      BY <2>2, HandlerHeld, OpFacts DEF Types
    <3>3. QED
      BY <1>1, <3>1, <3>2
  <2>3. QED
    BY <1>2, <2>1, <2>2, OldHeld
<1>3. ASSUME NEW d \in CPUs, NEW m \in Maps, NEW k \in Keys \cup {Cell},
             InFlight(d, m, k)', step'[d] = "insert", NEW e \in Held(m, k)'
      PROVE  Raced(m, e)' \/ report'[m][e] # <<>>
  <2>1. CASE Lookup(d) /\ step'[d] = IF bucket[m][k] = Null THEN "insert" ELSE "add"
    <3>1. bucket[m][k] = Null /\ bucket' = bucket
      BY <1>3, <2>1 DEF Lookup, mapVars
    <3>2. Held(m, k)' = {}
      BY <3>1 DEF Held
    <3>3. QED
      BY <1>3, <3>2
  <2>2. CASE InFlight(d, m, k) /\ step'[d] = step[d]
    <3>1. CASE e \in Held(m, k)
      <4>1. e \in Events
        BY <3>1, HeldFacts DEF Types
      <4>2. Raced(m, e) \/ report[m][e] # <<>>
        BY <1>3, <2>2, <3>1 DEF KeyInv
      <4>3. QED
        BY <1>1, <4>1, <4>2, ReportKept
    <3>2. ASSUME NEW c \in CPUs, HandlerStep(c), e \notin Held(m, k)
          PROVE  Raced(m, e)'
      <4>1. /\ e = event[c] /\ InFlight(c, m, Target(c))
            /\ k = Target(c) \/ Raced(m, e)
        BY <1>3, <3>2, NewHeld
      <4>2. c # d
        BY <2>2, <3>2, StepMoves
      <4>3. k = Target(c) => Raced(m, e)
        BY <1>3, <2>2, <4>1, <4>2 DEF RaceInv
      <4>4. QED
        BY <1>1, <4>1, <4>3
    <3>3. QED
      BY <1>3, <3>1, <3>2, OldHeld
  <2>3. QED
    BY <1>3, <2>1, <2>2, Flight
<1>4. ASSUME NEW m \in Maps, NEW k \in Keys \cup {Cell}, ReadWindow(m, k)',
             NEW e \in Held(m, k)'
      PROVE  Raced(m, e)' \/ report'[m][e] # <<>>
  <2>1. CASE ReadWindow(m, k) /\ report' = report
    <3>1. CASE e \in Held(m, k)
      BY <1>1, <2>1, <3>1 DEF KeyInv
    <3>2. ASSUME NEW c \in CPUs, HandlerStep(c), e \notin Held(m, k)
          PROVE  Raced(m, e)'
      <4>1. /\ e = event[c] /\ InFlight(c, m, Target(c))
            /\ k = Target(c) \/ Raced(m, e)
        BY <1>4, <3>2, NewHeld
      <4>2. k = Target(c) => Raced(m, e)
        BY <2>1, <4>1 DEF RaceInv
      <4>3. QED
        BY <1>1, <4>1, <4>2
    <3>3. QED
      BY <1>4, <3>1, <3>2, OldHeld
  <2>2. CASE Look /\ PrintCount(m, k, Held(m, k))
    <3>1. Held(m, k)' = Held(m, k)
      BY <2>2, LookPrints DEF Types, Held
    <3>2. Printing(m, k, Held(m, k)) /\ e \in Events
      BY <1>0, <1>4, <2>2, <3>1, Prints, HeldFacts DEF Types
    <3>3. QED
      BY <1>4, <3>1, <3>2 DEF Printing
  <2>3. QED
    BY <1>4, <2>1, <2>2, WindowMoves
<1>5. QED
  BY <1>0, <1>2, <1>3, <1>4 DEF KeyInv

\* An event that raced with nobody stays where it is until it is printed.
LEMMA Stays ==
  ASSUME Types, KeyInv, [Next]_vars, NEW m \in Maps, NEW k \in Keys \cup {Cell},
         NEW e \in Held(m, k), ~Raced(m, e)', report'[m][e] = <<>>
  PROVE  e \in Held(m, k)'
<1>1. e \in Events
  BY HeldFacts DEF Types
<1>2. ~Raced(m, e) /\ report[m][e] = <<>>
  BY <1>1, RacedKept, ReportKept
<1>3. QED
  BY <1>2, SlotMoves DEF KeyInv

\* The key of an event in a map is a key, or the cell of an array.
LEMMA KeyInType ==
  ASSUME MapType, NEW m \in Maps, NEW e \in Events
  PROVE  /\ KeyIn(e, m) \in Keys \cup {Cell}
         /\ ~IsArray(m) => KeyIn(e, m) \in Keys
         /\ IsArray(m) => KeyIn(e, m) = Cell
<1>1. PICK op \in Ops : m = op.map
  BY DEF Maps
<1>2. QED
  BY <1>1, KeyFacts DEF MapType

\* What is counted is kept until it is printed, and it is printed under its key.
LEMMA KeptStep ==
  ASSUME Types, SlotInv, RaceInv, KeyInv, KeptInv, [Next]_vars
  PROVE  KeptInv'
<1>0. tool' = tool /\ attr' = attr /\ Maps' = Maps /\ \A e, m : KeyIn(e, m)' = KeyIn(e, m)
  BY ToolKept, SameTool
<1>1. \A m, e : /\ Raced(m, e) => Raced(m, e)'
                /\ <<m, e, "full">> \in raced => <<m, e, "full">> \in raced'
  BY RacedKept
<1>2. ASSUME NEW m \in Maps, NEW e \in Events, <<m, e>> \in handled'
      PROVE  \/ Raced(m, e)' \/ <<m, e, "full">> \in raced'
             \/ report'[m][e] # <<>>
             \/ \A k : k = KeyIn(e, m) => e \in Held(m, k)'
  <2>1. CASE <<m, e>> \in handled
    <3>1. KeyIn(e, m) \in Keys \cup {Cell}
      BY KeyInType DEF Types
    <3>2. \/ Raced(m, e) \/ <<m, e, "full">> \in raced
          \/ report[m][e] # <<>> \/ e \in Held(m, KeyIn(e, m))
      BY <2>1 DEF KeptInv
    <3>3. QED
      BY <1>1, <3>1, <3>2, ReportKept, Stays
  <2>2. ASSUME NEW c \in CPUs, HandlerStep(c), Advance(c), <<m, e>> \notin handled
        PROVE  \/ Raced(m, e)' \/ <<m, e, "full">> \in raced'
               \/ \A k : k = KeyIn(e, m) => e \in Held(m, k)'
    <3>1. m = Op(c).map /\ e = event[c] /\ step[c] # "idle"
      BY <1>2, <2>2, HandlerHeld DEF Advance
    <3>2. KeyIn(e, m) = Target(c) /\ Target(c) \in Keys \cup {Cell}
      BY <3>1, OpFacts DEF Types
    <3>3. step[c] # "lookup" => InFlight(c, m, KeyIn(e, m))
      BY <3>1, <3>2 DEF InFlight, Target, Types, HandlerType
    <3>4. CASE Add(c)
      <4>1. step[c] = "add" /\ Grow(Op(c).map, ptr[c], event[c])
        BY <3>4, AddGrows DEF Types, Add
      <4>2. ptr[c] \in Slots /\ Grow(m, ptr[c], e)
        BY <3>1, <4>1 DEF Grow
      <4>3. ASSUME NEW k, k = KeyIn(e, m), ~Raced(m, e)
            PROVE  e \in Held(m, k)'
        <5>0. InFlight(c, m, k) /\ ~Raced(m, event[c]) /\ k \in Keys \cup {Cell}
          BY <3>1, <3>2, <3>3, <4>1, <4>3
        <5>1. bucket[m][k] = ptr[c] /\ k \in Keys \cup {Cell}
          BY <4>1, <5>0 DEF RaceInv
        <5>2. Held(m, k)' = IF bucket[m][k] = ptr[c]
                            THEN Held(m, k) \cup {e} ELSE Held(m, k)
          BY <4>2, <5>1, GrowHeld DEF Types
        <5>3. QED
          BY <5>1, <5>2
      <4>4. QED
        BY <1>1, <4>3
    <3>5. CASE InsertAny(c) \/ InsertNoExist(c)
      <4>1. step[c] = "insert" /\ Target(c) \in Keys
        BY <3>5, OpFacts DEF InsertAny, InsertNoExist, Types
      <4>2. ASSUME NEW s \in Slots, Put(Op(c).map, Target(c), {event[c]}, s),
                   NEW k, k = KeyIn(e, m)
            PROVE  e \in Held(m, k)'
        <5>1. Put(m, k, {e}, s) /\ k \in Keys
          BY <3>1, <3>2, <4>1, <4>2
        <5>2. Held(m, k)' = {e}
          BY <5>1, PutHeld DEF Types
        <5>3. QED
          BY <5>2
      <4>3. bucket[Op(c).map][Target(c)] # Null => Raced(m, e)
        BY <3>1, <3>2, <3>3, <4>1 DEF RaceInv
      <4>4. QED
        BY <1>1, <3>1, <3>5, <4>2, <4>3, Insertions DEF Types
    <3>6. CASE LookupAgain(c)
      <4>1. /\ step[c] = "again"
            /\ bucket[m][KeyIn(e, m)] = Null \/ ~Advance(c) \/ step'[c] = "add"
        BY <3>1, <3>2, <3>6 DEF LookupAgain, Target, Types, HandlerType
      <4>2. bucket[m][KeyIn(e, m)] = Null
        BY <2>2, <3>1, <4>1, Advances DEF Types
      <4>3. QED
        BY <1>1, <3>1, <3>2, <3>3, <4>1, <4>2 DEF RaceInv
    <3>7. ~(Lookup(c) \/ InsertZero(c))
      <4>1. CASE Lookup(c)
        BY <1>2, <2>2, <4>1 DEF Lookup
      <4>2. CASE InsertZero(c)
        BY <1>2, <2>2, <4>2 DEF InsertZero
      <4>3. QED
        BY <4>1, <4>2
    <3>8. QED
      BY <2>2, <3>4, <3>5, <3>6, <3>7 DEF HandlerStep
  <2>3. handled' = handled \/ \E c \in CPUs : HandlerStep(c) /\ Advance(c)
    BY LoopFrame DEF Next, vars, HandlerStep, Fire, Lookup, Add, InsertAny, InsertNoExist,
       InsertZero, LookupAgain
  <2>4. QED
    BY <1>2, <2>1, <2>2, <2>3
<1>3. ASSUME NEW m \in Maps, NEW e \in Events, NEW k \in Range(report'[m][e])
      PROVE  k = KeyIn(e, m) \/ Raced(m, e)'
  <2>0. k \in Range(report[m][e]) => k = KeyIn(e, m) \/ Raced(m, e)'
    BY <1>1 DEF KeptInv
  <2>1. ASSUME NEW l \in Keys \cup {Cell}, NEW v, Printing(Current.map, l, v),
               v \subseteq Held(Current.map, l), Current.map \in Maps
        PROVE  k = KeyIn(e, m) \/ Raced(m, e)'
    <3>1. CASE m = Current.map /\ e \in v
      <4>1. k = l \/ k \in Range(report[m][e])
        BY <1>3, <2>1, <3>1 DEF Printing
      <4>2. l = KeyIn(e, m) \/ Raced(m, e)
        BY <2>1, <3>1 DEF KeyInv
      <4>3. QED
        BY <1>1, <2>0, <4>1, <4>2
    <3>2. CASE ~(m = Current.map /\ e \in v)
      <4>1. report'[m][e] = report[m][e]
        BY <2>1, <3>2 DEF Printing
      <4>2. QED
        BY <1>3, <2>0, <4>1
    <3>3. QED
      BY <3>1, <3>2
  <2>2. CASE report' = report
    BY <1>3, <2>0, <2>2
  <2>3. CASE Look
    <3>1. Current.map \in Maps /\ key \in Keys
      BY <2>3, LookPrints DEF Types
    <3>2. report' = report \/ Printing(Current.map, key, Held(Current.map, key))
      BY <1>0, <2>3, LookPrints, Prints DEF Types
    <3>3. QED
      BY <2>1, <2>2, <3>1, <3>2
  <2>4. CASE Diff
    <3> DEFINE v == Held(Current.map, Cell) \ prev[Current.map]
    <3>1. Current.map \in Maps
      BY <2>4, DiffPrints DEF Types
    <3>2. Printing(Current.map, Cell, v)
      BY <1>0, <2>4, DiffPrints, Prints DEF Types
    <3>3. v \subseteq Held(Current.map, Cell)
      OBVIOUS
    <3> HIDE DEF v
    <3>4. QED
      BY <2>1, <3>1, <3>2, <3>3
  <2>5. QED
    BY <2>2, <2>3, <2>4, ReportMoves
<1>4. \A m \in Maps, e \in Events : <<m, e>> \in handled' =>
          \/ Raced(m, e)' \/ <<m, e, "full">> \in raced'
          \/ report'[m][e] # <<>>
          \/ e \in Held(m, KeyIn(e, m))'
  BY <1>0, <1>2 DEF Held
<1>5. QED
  BY <1>0, <1>3, <1>4 DEF KeptInv

-----------------------------------------------------------------------------
(* A pass prints all that it found *)

\* A pass begins with what its map holds, all of it ahead.
LEMMA EnterWalk ==
  ASSUME Types, KeyInv, [Next]_vars, NEW p \in 1..Len(tool.passes), EnterPass(p),
         missed' = {}
  PROVE  WalkInv'
<1>0. /\ tool' = tool /\ attr' = attr /\ Maps' = Maps
      /\ \A e, m : KeyIn(e, m)' = KeyIn(e, m)
  BY ToolKept, SameTool
<1>1. /\ Current' = tool.passes[p] /\ tool.passes[p].map \in Maps
      /\ phase' \in {"walk", "diff"} /\ cursor' = tool.passes[p].start
      /\ key' = Null /\ keys' = <<>> /\ due' = Counted(tool.passes[p].map)
  BY <1>0, EnterLoop, PassFacts DEF Types, MapType, EnterPass
<1>2. ASSUME NEW m \in Maps, NEW e \in Events, NEW k \in Keys \cup {Cell},
             Owes(m, e)', k = KeyIn(e, m)
      PROVE  e \in Held(m, k)' /\ Coming(k)'
  <2>1. e \in Counted(m) /\ ~Raced(m, e)' /\ report'[m][e] = <<>>
    BY <1>1, <1>2 DEF Owes
  <2>2. PICK l \in Keys \cup {Cell} : e \in Held(m, l)
    BY <2>1, DueType DEF Types
  <2>3. l = k
    BY <1>2, <2>1, <2>2, RacedKept DEF KeyInv
  <2>4. e \in Held(m, k)'
    BY <2>1, <2>2, <2>3, Stays
  <2>5. Coming(k)'
    BY <1>1 DEF Coming, First
  <2>6. QED
    BY <2>4, <2>5
<1>3. QED
  BY <1>0, <1>2 DEF WalkInv

\* What a pass has to print, once its first key is known.
LEMMA DueFacts ==
  /\ Due \subseteq due
  /\ ~First => Due = due
  /\ First /\ cursor \in Used(Current.map) =>
       \A e \in Due : \E j \in After(Current.map, cursor) : e \in Held(Current.map, j)
<1>1. Due \subseteq due /\ (~First => Due = due)
  BY DEF Due, First
<1>2. ASSUME First, cursor \in Used(Current.map), NEW e \in Due
      PROVE  \E j \in After(Current.map, cursor) : e \in Held(Current.map, j)
  <2>1. PICK j \in After(Current.map, cursor) :
            e \in val[Current.map][bucket[Current.map][j]]
    BY <1>2 DEF Due, First
  <2>2. bucket[Current.map][j] # Null
    BY DEF After, Used
  <2>3. QED
    BY <2>1, <2>2 DEF Held
<1>3. QED
  BY <1>1, <1>2

\* An owed key is not moved, and what comes before it in a walk stays before it.
LEMMA OrderKept ==
  ASSUME Types, KeyInv, [Next]_vars, NEW m \in Maps, NEW k \in Keys,
         NEW e \in Held(m, k), ~Raced(m, e)', report'[m][e] = <<>>,
         NEW j \in Keys, place[m][j] < place[m][k]
  PROVE  place'[m][j] < place'[m][k]
<1>0. ~Raced(m, e) /\ report[m][e] = <<>>
  <2>1. e \in Events
    BY HeldFacts DEF Types
  <2>2. QED
    BY <2>1, RacedKept, ReportKept
<1>1. ASSUME NEW n \in Maps, NEW l \in Keys, Moved(n, l), n = m => l # k
      PROVE  place'[m][j] < place'[m][k]
  <2>1. CASE n # m
    BY <1>1, <2>1 DEF Moved
  <2>2. CASE n = m /\ j = l
    BY <1>1, <2>2 DEF Moved
  <2>3. CASE n = m /\ j # l
    BY <1>1, <2>3 DEF Moved
  <2>4. QED
    BY <2>1, <2>2, <2>3
<1>2. ASSUME NEW c \in CPUs, step[c] = "insert", Moved(Op(c).map, Target(c))
      PROVE  place'[m][j] < place'[m][k]
  <2>1. Op(c).map \in Maps /\ Target(c) \in Keys
    BY <1>2, OpFacts DEF Types
  <2>2. InFlight(c, Op(c).map, Target(c))
    BY <1>2 DEF InFlight, Target
  <2>3. ~(m = Op(c).map /\ k = Target(c))
    BY <1>0, <1>2, <2>2 DEF KeyInv
  <2>4. QED
    BY <1>1, <1>2, <2>1, <2>3
<1>3. ASSUME Clear, Moved(Current.map, key)
      PROVE  place'[m][j] < place'[m][k]
  <2>1. phase = "clear" /\ Current.map \in Maps /\ key \in Keys
    BY <1>3, ClearHeld
  <2>2. ~(m = Current.map /\ k = key)
    BY <1>0, <2>1 DEF KeyInv, ReadWindow
  <2>3. QED
    BY <1>1, <1>3, <2>1, <2>2
<1>4. CASE place' = place
  BY <1>4
<1>5. QED
  BY <1>2, <1>3, <1>4, MapMoves DEF Put, Drop, Grow, InsertAny, InsertNoExist, InsertZero

\* The same for the pass: what comes before the key of an event that is owed.
LEMMA BeforeKept ==
  ASSUME Types, KeyInv, [Next]_vars, pass' = pass, NEW m \in Maps, NEW e \in Events,
         NEW k \in Keys, Owes(m, e), Owes(m, e)', e \in Held(m, k)
  PROVE  /\ cursor' = cursor /\ Before(cursor, k) => Before(cursor, k)'
         /\ key' = key /\ Before(key, k) => Before(key, k)'
         /\ ahead' = ahead /\ Before(ahead, k) => Before(ahead, k)'
<1>1. Current' = Current /\ Current.map = m
  BY ToolKept DEF Current, Owes
<1>2. ~Raced(m, e)' /\ report'[m][e] = <<>>
  BY DEF Owes
<1>3. \A j \in Keys : place[m][j] < place[m][k] => place'[m][j] < place'[m][k]
  BY <1>2, OrderKept
<1>4. QED
  BY <1>1, <1>3 DEF Before

\* A pass that owes nothing may end.
LEMMA LeaveWalk ==
  ASSUME Types, KeyInv, WalkInv, [Next]_vars, phase # "sleep", LeavePass,
         \A e \in Due : Raced(Current.map, e) \/ report'[Current.map][e] # <<>>
  PROVE  WalkInv'
<1>1. missed' = {}
  BY DEF LeavePass, WalkInv, Raced
<1>2. CASE phase' = "sleep"
  BY <1>1, <1>2 DEF WalkInv
<1>3. CASE phase' # "sleep"
  BY <1>1, <1>3, EnterWalk, LeaveLoop, ToolKept DEF Types
<1>4. QED
  BY <1>2, <1>3

\* Within a pass what is owed stays in its place.
LEMMA SamePass ==
  ASSUME Types, KeyInv, WalkInv, [Next]_vars, phase # "sleep",
         pass' = pass, due' \subseteq due, missed' = missed,
         \A m \in Maps, e \in Events, k \in Keys :
             Owes(m, e) /\ Owes(m, e)' /\ k = KeyIn(e, m) /\ e \in Held(m, k)
                 /\ phase # "diff" => Coming(k)',
         phase = "diff" => phase' = "diff"
  PROVE  WalkInv'
<1>0. /\ tool' = tool /\ attr' = attr /\ Maps' = Maps
      /\ \A e, m : KeyIn(e, m)' = KeyIn(e, m)
  BY ToolKept, SameTool
<1>1. Current' = Current
  BY <1>0 DEF Current
<1>2. ASSUME NEW m \in Maps, NEW e \in Events, NEW k \in Keys \cup {Cell},
             Owes(m, e)', k = KeyIn(e, m)
      PROVE  e \in Held(m, k)' /\ (phase' # "diff" => Coming(k)')
  <2>1. Owes(m, e)
    BY <1>1, <1>2, RacedKept, ReportKept DEF Owes
  <2>2. e \in Held(m, k)
    BY <1>2, <2>1 DEF WalkInv
  <2>3. e \in Held(m, k)'
    BY <1>2, <2>2, Stays DEF Owes
  <2>4. phase # "diff" => k \in Keys
    BY <1>2, <2>1, CurrentFacts, KeyInType DEF Owes, Types
  <2>5. QED
    BY <1>2, <2>1, <2>2, <2>3, <2>4
<1>3. QED
  BY <1>0, <1>2 DEF WalkInv

\* The collected keys: nothing is owed but under one of them.
LEMMA CollectWalk ==
  ASSUME Types, KeyInv, WalkInv, [Next]_vars, phase \notin {"sleep", "diff"}, raced' = raced,
         NextCollected,
         \A m \in Maps, e \in Events, k \in Keys :
             /\ Owes(m, e) /\ e \in Due /\ report'[m][e] = <<>>
             /\ k = KeyIn(e, m) /\ e \in Held(m, k)
             => \E i \in 1..Len(keys) : keys[i] = k
  PROVE  WalkInv'
<1>0. tool' = tool
  BY ToolKept
<1>1. keys \in Seq(Keys) /\ Current.map \in Maps /\ ~IsArray(Current.map)
  BY CurrentFacts DEF Types, LoopType
<1>2. CASE keys = <<>>
  <2>1. ASSUME NEW e \in Due, ~Raced(Current.map, e), report'[Current.map][e] = <<>>
        PROVE  FALSE
    <3>1. e \in Events /\ Owes(Current.map, e)
      BY <1>1, <2>1, ReportKept, DueFacts DEF Owes, Types, HistoryType
    <3>2. KeyIn(e, Current.map) \in Keys
      BY <1>1, <3>1, KeyInType DEF Types
    <3>3. e \in Held(Current.map, KeyIn(e, Current.map))
      BY <1>1, <3>1, <3>2 DEF WalkInv
    <3>4. QED
      BY <1>1, <1>2, <2>1, <3>1, <3>2, <3>3, EmptySeq
  <2>2. QED
    BY <1>2, <2>1, LeaveWalk DEF NextCollected
<1>3. CASE keys # <<>>
  <2>1. /\ phase' = "look" /\ key' = Head(keys) /\ keys' = Tail(keys)
        /\ pass' = pass /\ due' = due /\ missed' = missed /\ Current' = Current
    BY <1>0, <1>3 DEF NextCollected, Current
  <2>2. /\ Len(Tail(keys)) = Len(keys) - 1 /\ Head(keys) = keys[1]
        /\ \A i \in 1..Len(Tail(keys)) : Tail(keys)[i] = keys[i + 1]
        /\ Len(keys) \in Nat
    BY <1>1, <1>3, HeadTailProperties, LenProperties
  <2>3. Current.style = "collect"
    BY <1>3 DEF Types, LoopType
  <2>4. ASSUME NEW m \in Maps, NEW e \in Events, NEW k \in Keys, Owes(m, e), Owes(m, e)',
               k = KeyIn(e, m), e \in Held(m, k)
        PROVE  Coming(k)'
    <3>1. report'[m][e] = <<>>
      BY <2>4 DEF Owes
    <3>2. PICK i \in 1..Len(keys) : keys[i] = k
      <4>1. e \in Due
        BY <1>3, <2>4, DueFacts DEF First, Owes
      <4>2. QED
        BY <2>4, <3>1, <4>1
    <3>3. CASE i = 1
      BY <2>1, <2>2, <3>2, <3>3 DEF Coming
    <3>4. CASE i # 1
      <4>1. i - 1 \in 1..Len(keys') /\ keys'[i - 1] = keys[(i - 1) + 1] /\ (i - 1) + 1 = i
        BY <2>1, <2>2, <3>4
      <4>2. Onward(k)'
        BY <2>1, <2>3, <3>2, <4>1 DEF Onward
      <4>3. QED
        BY <2>1, <4>2 DEF Coming
    <3>5. QED
      BY <3>3, <3>4
  <2>5. QED
    BY <2>1, <2>4, SamePass
<1>4. QED
  BY <1>2, <1>3

\* After a key: nothing is owed but further on.
LEMMA StopWalk ==
  ASSUME Types, KeyInv, WalkInv, [Next]_vars, phase \in {"look", "clear"}, raced' = raced,
         NextStop,
         \A m \in Maps, e \in Events, k \in Keys :
             Owes(m, e) /\ report'[m][e] = <<>> /\ k = KeyIn(e, m) /\ e \in Held(m, k) =>
                 Onward(k)
  PROVE  WalkInv'
<1>0. tool' = tool
  BY ToolKept
<1>1. Current.map \in Maps /\ ~IsArray(Current.map)
  BY CurrentFacts DEF Types
<1>2. CASE Current.style = "collect"
  <2>1. NextCollected
    BY <1>2 DEF NextStop
  <2>2. QED
    BY <1>2, <2>1, CollectWalk DEF Onward
<1>3. CASE Current.style = "ahead" /\ ahead = Null
  <2>1. ASSUME NEW e \in Due, ~Raced(Current.map, e), report'[Current.map][e] = <<>>
        PROVE  FALSE
    <3>1. e \in Events /\ Owes(Current.map, e)
      BY <1>1, <2>1, ReportKept, DueFacts DEF Owes, Types, HistoryType
    <3>2. KeyIn(e, Current.map) \in Keys
      BY <1>1, <3>1, KeyInType DEF Types
    <3>3. e \in Held(Current.map, KeyIn(e, Current.map))
      BY <1>1, <3>1, <3>2 DEF WalkInv
    <3>4. Onward(KeyIn(e, Current.map))
      BY <1>1, <2>1, <3>1, <3>2, <3>3
    <3>5. QED
      BY <1>3, <3>4 DEF Onward
  <2>2. QED
    BY <1>3, <2>1, LeaveWalk DEF NextStop
<1>4. CASE Current.style = "ahead" /\ ahead # Null
  <2>1. /\ phase' = "peek" /\ key' = ahead /\ ahead' = ahead
        /\ pass' = pass /\ due' = due /\ missed' = missed
    BY <1>4 DEF NextStop
  <2>2. ASSUME NEW m \in Maps, NEW e \in Events, NEW k \in Keys, Owes(m, e), Owes(m, e)',
               k = KeyIn(e, m), e \in Held(m, k)
        PROVE  Coming(k)'
    <3>1. Onward(k)
      BY <2>2 DEF Owes
    <3>2. ahead = k \/ Before(ahead, k)'
      BY <1>4, <2>1, <2>2, <3>1, BeforeKept DEF Onward
    <3>3. QED
      BY <1>4, <2>1, <3>2 DEF Coming, Before
  <2>3. QED
    BY <2>1, <2>2, SamePass
<1>5. CASE Current.style \notin {"ahead", "collect"}
  <2>1. /\ phase' = "walk" /\ cursor' = cursor
        /\ pass' = pass /\ due' = due /\ missed' = missed
    BY <1>5 DEF NextStop
  <2>2. ASSUME NEW m \in Maps, NEW e \in Events, NEW k \in Keys, Owes(m, e), Owes(m, e)',
               k = KeyIn(e, m), e \in Held(m, k)
        PROVE  Coming(k)'
    <3>1. Onward(k)
      BY <2>2 DEF Owes
    <3>2. Before(cursor, k)'
      BY <1>5, <2>1, <2>2, <3>1, BeforeKept DEF Onward
    <3>3. QED
      BY <2>1, <3>2 DEF Coming, Before
  <2>3. QED
    BY <2>1, <2>2, SamePass
<1>6. QED
  BY <1>2, <1>3, <1>4, <1>5

\* An owed event is under a key the walk meets, and the pass comes to it.
LEMMA Owed ==
  ASSUME Types, WalkInv, phase \notin {"sleep", "diff"}, NEW m \in Maps, NEW e \in Events,
         NEW k \in Keys, Owes(m, e), k = KeyIn(e, m)
  PROVE  m = Current.map /\ e \in Held(m, k) /\ k \in Used(m) /\ Coming(k)
<1>1. m = Current.map /\ e \in Held(m, k) /\ Coming(k)
  BY DEF WalkInv, Owes
<1>2. QED
  BY <1>1 DEF Held, Used

\* A step of the walk.
LEMMA WalkWalk ==
  ASSUME Types, KeyInv, WalkInv, [Next]_vars, Walk
  PROVE  WalkInv'
<1> DEFINE n == NextKey(Current.map, cursor)
<1>0. /\ tool' = tool /\ phase = "walk" /\ report' = report /\ raced' = raced
      /\ place' = place
  BY ToolKept DEF Walk, mapVars
<1>1. /\ Current.map \in Maps /\ n \in Keys \cup {Null}
      /\ n = Null => \A u \in Used(Current.map) :
            cursor \in Used(Current.map) /\ u \notin After(Current.map, cursor)
      /\ n # Null => \A u \in Used(Current.map) :
            cursor \notin Used(Current.map) \/ u \in After(Current.map, cursor) =>
                n = u \/ place[Current.map][n] < place[Current.map][u]
  BY <1>0, CurrentFacts, NextKeyFacts DEF Types
<1>2. \/ n = Null /\ NextCollected
      \/ /\ n # Null /\ Current.style = "collect"
         /\ keys' = Append(keys, n) /\ cursor' = n /\ due' = Due
         /\ UNCHANGED <<pass, phase, key, ahead, missed>>
      \/ /\ n # Null /\ Current.style # "collect"
         /\ key' = n /\ cursor' = n /\ due' = Due
         /\ phase' = IF Current.style = "ahead" THEN "peek" ELSE "look"
         /\ UNCHANGED <<pass, ahead, keys, missed>>
  BY DEF Walk
<1> HIDE DEF n
<1>3. keys \in Seq(Keys) /\ (Current.style # "collect" => keys = <<>>)
  BY <1>0 DEF Types, LoopType
<1>4. ASSUME NEW m \in Maps, NEW e \in Events, NEW k \in Keys, Owes(m, e), e \in Due,
             k = KeyIn(e, m)
      PROVE  \/ \E i \in 1..Len(keys) : keys[i] = k
             \/ n # Null /\ (n = k \/ Before(n, k))
  <2>1. /\ k \in Used(Current.map) /\ m = Current.map /\ ~Raced(m, e)
        /\ First \/ Before(cursor, k) \/ \E i \in 1..Len(keys) : keys[i] = k
    BY <1>0, <1>4, Owed DEF Coming, Owes
  <2>2. CASE cursor \notin Used(Current.map) \/ k \in After(Current.map, cursor)
    BY <1>1, <2>1, <2>2 DEF Before
  <2>3. CASE Before(cursor, k)
    <3>1. cursor \notin Used(Current.map) \/ k \in After(Current.map, cursor)
      BY <2>1, <2>3 DEF Before, After
    <3>2. QED
      BY <2>2, <3>1
  <2>4. CASE First /\ cursor \in Used(Current.map)
    <3>1. PICK j \in After(Current.map, cursor) : e \in Held(Current.map, j)
      BY <1>4, <2>4, DueFacts
    <3>2. j \in Keys
      BY DEF After, Used
    <3>3. j = k
      BY <1>4, <2>1, <3>1, <3>2 DEF KeyInv
    <3>4. QED
      BY <2>2, <3>3
  <2>5. QED
    BY <2>1, <2>2, <2>3, <2>4
<1>5. CASE n = Null
  <2>1. \A m \in Maps, e \in Events, k \in Keys :
            /\ Owes(m, e) /\ e \in Due /\ report'[m][e] = <<>>
            /\ k = KeyIn(e, m) /\ e \in Held(m, k)
            => \E i \in 1..Len(keys) : keys[i] = k
    BY <1>4, <1>5
  <2>2. QED
    BY <1>0, <1>2, <1>5, <2>1, CollectWalk
<1>6. CASE n # Null /\ Current.style = "collect"
  <2>1. /\ keys' = Append(keys, n) /\ cursor' = n /\ phase' = "walk" /\ Current' = Current
        /\ pass' = pass /\ due' = Due /\ missed' = missed
    BY <1>0, <1>2, <1>6 DEF Current
  <2>2. /\ Len(keys) \in Nat /\ Len(keys') = Len(keys) + 1 /\ keys'[Len(keys) + 1] = n
        /\ \A i \in 1..Len(keys) : keys'[i] = keys[i]
    BY <1>1, <1>3, <1>6, <2>1, AppendProperties, LenProperties
  <2>3. ASSUME NEW m \in Maps, NEW e \in Events, NEW k \in Keys, Owes(m, e), Owes(m, e)',
               k = KeyIn(e, m)
        PROVE  Coming(k)'
    <3>0. e \in Due
      BY <2>1, <2>3 DEF Owes
    <3>1. CASE \E i \in 1..Len(keys) : keys[i] = k
      <4>1. \E i \in 1..Len(keys') : keys'[i] = k
        BY <2>2, <3>1
      <4>2. QED
        BY <2>1, <4>1 DEF Coming
    <3>2. CASE n = k
      <4>1. \E i \in 1..Len(keys') : keys'[i] = k
        BY <2>2, <3>2
      <4>2. QED
        BY <2>1, <4>1 DEF Coming
    <3>3. CASE Before(n, k)
      <4>1. Before(cursor, k)'
        BY <1>0, <2>1, <3>3 DEF Before
      <4>2. QED
        BY <2>1, <4>1 DEF Coming
    <3>4. QED
      BY <1>4, <2>3, <3>0, <3>1, <3>2, <3>3
  <2>4. QED
    BY <1>0, <2>1, <2>3, SamePass, DueFacts
<1>7. CASE n # Null /\ Current.style # "collect"
  <2>1. /\ key' = n /\ cursor' = n /\ Current' = Current
        /\ phase' = IF Current.style = "ahead" THEN "peek" ELSE "look"
        /\ pass' = pass /\ due' = Due /\ missed' = missed
    BY <1>0, <1>2, <1>7 DEF Current
  <2>2. ASSUME NEW m \in Maps, NEW e \in Events, NEW k \in Keys, Owes(m, e), Owes(m, e)',
               k = KeyIn(e, m)
        PROVE  Coming(k)'
    <3>0. e \in Due
      BY <2>1, <2>2 DEF Owes
    <3>1. n = k \/ Before(n, k)
      BY <1>3, <1>4, <1>7, <2>2, <3>0, EmptySeq
    <3>2. n = k \/ (Before(key, k)' /\ Before(cursor, k)')
      BY <1>0, <2>1, <3>1 DEF Before
    <3>3. CASE Current.style = "ahead"
      BY <2>1, <3>2, <3>3 DEF Coming
    <3>4. CASE Current.style # "ahead"
      BY <1>7, <2>1, <3>2, <3>4 DEF Coming, Onward
    <3>5. QED
      BY <3>3, <3>4
  <2>3. QED
    BY <1>0, <2>1, <2>2, SamePass, DueFacts
<1>8. QED
  BY <1>5, <1>6, <1>7

\* Fetching the next key before the current one is deleted.
LEMMA PeekWalk ==
  ASSUME Types, KeyInv, WalkInv, [Next]_vars, Peek
  PROVE  WalkInv'
<1> DEFINE n == NextKey(Current.map, key)
<1>0. /\ phase = "peek" /\ phase' = "look" /\ key' = key /\ pass' = pass /\ due' = due
      /\ missed' = missed /\ ahead' = n /\ Current' = Current /\ place' = place
  BY ToolKept DEF Peek, Current, mapVars
<1>1. /\ n \in Keys \cup {Null}
      /\ n = Null => \A u \in Used(Current.map) :
            key \in Used(Current.map) /\ u \notin After(Current.map, key)
      /\ n # Null => \A u \in Used(Current.map) :
            key \notin Used(Current.map) \/ u \in After(Current.map, key) =>
                n = u \/ place[Current.map][n] < place[Current.map][u]
  BY <1>0, CurrentFacts, NextKeyFacts DEF Types
<1> HIDE DEF n
<1>2. Current.style = "ahead" /\ key \in Keys
  BY <1>0 DEF Types, LoopType
<1>3. ASSUME NEW m \in Maps, NEW e \in Events, NEW k \in Keys, Owes(m, e), k = KeyIn(e, m)
      PROVE  Coming(k)'
  <2>1. k \in Used(Current.map) /\ (key = k \/ Before(key, k))
    BY <1>0, <1>3, Owed DEF Coming
  <2>2. Before(key, k) =>
           key \notin Used(Current.map) \/ k \in After(Current.map, key)
    BY <2>1 DEF Before, After
  <2>3. key = k \/ (n # Null /\ (n = k \/ Before(n, k)))
    BY <1>1, <2>1, <2>2 DEF Before
  <2>4. key = k \/ (ahead' # Null /\ (ahead' = k \/ Before(ahead, k)'))
    BY <1>0, <2>3 DEF Before
  <2>5. QED
    BY <1>0, <1>2, <2>4 DEF Coming, Onward
<1>4. QED
  BY <1>0, <1>3, SamePass

\* Looking a key up prints all that is owed under it.
LEMMA LookWalk ==
  ASSUME Types, KeyInv, WalkInv, [Next]_vars, Look
  PROVE  WalkInv'
<1>0. /\ Maps' = Maps /\ tool' = tool /\ phase = "look" /\ Current.map \in Maps
      /\ key \in Keys
  BY ToolKept, SameTool, LookPrints DEF Types
<1>1. \/ report' = report /\ Held(Current.map, key) = {}
      \/ Printing(Current.map, key, Held(Current.map, key))
  BY <1>0, LookPrints, Prints DEF Types
<1>2. ASSUME NEW m \in Maps, NEW e \in Events, NEW k \in Keys, Owes(m, e),
             report'[m][e] = <<>>, k = KeyIn(e, m)
      PROVE  Onward(k)
  <2>1. m = Current.map /\ e \in Held(m, k) /\ (k = key \/ Onward(k))
    BY <1>0, <1>2, Owed DEF Coming
  <2>2. e \notin Held(Current.map, key)
    BY <1>1, <1>2, <2>1 DEF Printing
  <2>3. QED
    BY <2>1, <2>2
<1>3. CASE NextStop /\ raced' = raced
  BY <1>0, <1>2, <1>3, StopWalk
<1>4. CASE phase' = "clear" /\ UNCHANGED <<pass, cursor, key, ahead, keys, due, missed>>
  <2>1. /\ pass' = pass /\ due' = due /\ missed' = missed
        /\ \A k : Onward(k)' <=> Onward(k)
    BY <1>0, <1>4 DEF Onward, Before, Current, Look, mapVars
  <2>2. ASSUME NEW m \in Maps, NEW e \in Events, NEW k \in Keys, Owes(m, e), Owes(m, e)',
               k = KeyIn(e, m)
        PROVE  Coming(k)'
    <3>1. report'[m][e] = <<>>
      BY <2>2 DEF Owes
    <3>2. Onward(k)'
      BY <1>2, <2>1, <2>2, <3>1
    <3>3. QED
      BY <1>4, <3>2 DEF Coming
  <2>3. QED
    BY <1>0, <2>1, <2>2, SamePass
<1>5. QED
  BY <1>3, <1>4, LookPrints DEF Types

\* Every step of the loop and of the handlers keeps the walk complete.
LEMMA WalkStep ==
  ASSUME Types, PrintInv, KeyInv, WalkInv, [Next]_vars
  PROVE  WalkInv'
<1>0. tool' = tool /\ Maps' = Maps
  BY ToolKept, SameTool
<1>1. CASE UNCHANGED <<pass, phase, cursor, key, ahead, keys, due, missed>>
  <2>1. CASE phase = "sleep"
    BY <1>1, <2>1 DEF WalkInv
  <2>2. CASE phase # "sleep"
    <3>1. Current' = Current /\ (First => First')
      BY <1>0, <1>1 DEF Current, First
    <3>2. ASSUME NEW m \in Maps, NEW e \in Events, NEW k \in Keys, Owes(m, e),
                 Owes(m, e)', k = KeyIn(e, m), phase # "diff"
          PROVE  Coming(k)'
      <4>1. Coming(k) /\ e \in Held(m, k)
        BY <2>2, <3>2, Owed
      <4>2. /\ Before(cursor, k) => Before(cursor, k)'
            /\ Before(key, k) => Before(key, k)'
            /\ Before(ahead, k) => Before(ahead, k)'
        BY <1>1, <3>2, <4>1, BeforeKept DEF Before
      <4>3. Onward(k) => Onward(k)'
        BY <1>1, <3>1, <4>2 DEF Onward
      <4>4. QED
        BY <1>1, <3>1, <4>1, <4>2, <4>3 DEF Coming
    <3>3. QED
      BY <1>1, <2>2, <3>2, SamePass
  <2>3. QED
    BY <2>1, <2>2
<1>2. CASE WakeUp
  <2>1. EnterPass(1) /\ missed' = {} /\ 1 \in 1..Len(tool.passes)
    BY <1>2, PassFacts DEF WakeUp, WalkInv, Types, MapType
  <2>2. QED
    BY <2>1, EnterWalk
<1>3. CASE Clear
  <2>1. /\ phase = "clear" /\ raced' = raced /\ NextStop
    BY <1>3 DEF Clear
  <2>2. ASSUME NEW m \in Maps, NEW e \in Events, NEW k \in Keys, Owes(m, e), k = KeyIn(e, m)
        PROVE  Onward(k)
    BY <2>1, <2>2, Owed DEF Coming
  <2>3. QED
    BY <2>1, <2>2, StopWalk
<1>4. CASE Diff
  <2>1. /\ phase = "diff" /\ Current.map \in Maps /\ IsArray(Current.map) /\ LeavePass
        /\ Printing(Current.map, Cell, Held(Current.map, Cell) \ prev[Current.map])
    BY <1>0, <1>4, DiffPrints, Prints DEF Types
  <2>2. Current.map \in Incremental
    <3>1. pass \in DOMAIN tool.passes /\ tool.passes[pass].style # "snapshot"
      BY <2>1, CurrentFacts, PassFacts DEF Types, MapType, LoopType, Current
    <3>2. QED
      BY <3>1 DEF Incremental, Current
  <2>3. ASSUME NEW e \in Due, ~Raced(Current.map, e), report'[Current.map][e] = <<>>
        PROVE  FALSE
    <3>1. e \in due /\ e \in Events /\ report[Current.map][e] = <<>>
      BY <2>1, <2>3, ReportKept, DueFacts DEF Types, HistoryType
    <3>2. e \in Held(Current.map, Cell)
      BY <2>1, <2>3, <3>1, KeyInType DEF WalkInv, Owes, Types
    <3>3. e \notin prev[Current.map]
      BY <2>1, <2>2, <3>1 DEF PrintInv
    <3>4. QED
      BY <2>1, <2>3, <3>1, <3>2, <3>3 DEF Printing
  <2>4. QED
    BY <2>1, <2>3, LeaveWalk
<1>5. CASE Walk \/ Peek \/ Look
  BY <1>5, WalkWalk, PeekWalk, LookWalk
<1>6. CASE \E c \in CPUs, e \in Events : \E h \in tool.handlers : Fire(c, e, h)
  BY <1>1, <1>6 DEF Fire, readerVars
<1>7. CASE \E c \in CPUs : HandlerStep(c)
  BY <1>1, <1>7, HandlerHeld DEF readerVars
<1>8. CASE UNCHANGED vars
  BY <1>1, <1>8 DEF vars
<1>9. QED
  BY <1>2, <1>3, <1>4, <1>5, <1>6, <1>7, <1>8 DEF Next, ReaderStep

-----------------------------------------------------------------------------
(* The invariant and the theorems *)

\* The invariant holds when the tool starts: nothing is counted yet.
LEMMA CounterInvInit ==
  ASSUME Init
  PROVE  CounterInv
<1>1. Types
  BY TypesInit
<1> DEFINE cell == CHOOSE s \in Slots : TRUE
<1>2. /\ bucket = [m \in Maps |-> [k \in Keys \cup {Cell} |->
                      IF k = Cell /\ IsArray(m) THEN cell ELSE Null]]
      /\ val = [m \in Maps |-> [s \in Slots |-> {}]]
      /\ todo = [c \in CPUs |-> <<>>] /\ step = [c \in CPUs |-> "idle"]
      /\ phase = "sleep" /\ prev = [m \in Maps |-> {}]
      /\ handled = {} /\ raced = {} /\ missed = {}
      /\ report = [m \in Maps |-> [e \in Events |-> <<>>]]
  BY DEF Init
<1> HIDE DEF cell
<1>3. ASSUME NEW m \in Maps, NEW k \in Keys \cup {Cell} PROVE Held(m, k) = {}
  <2>1. bucket[m][k] = Null \/ bucket[m][k] \in Slots
    BY <1>1 DEF Types, MapType
  <2>2. QED
    BY <1>2, <2>1 DEF Held
<1>4. \A m \in Maps, e \in Events : report[m][e] = <<>>
  BY <1>2
<1>5. QueueInv
  <2>1. \A c \in CPUs : todo[c] = <<>> /\ step[c] = "idle"
    BY <1>2
  <2>2. QED
    BY <1>2, <2>1, EmptySeq DEF QueueInv
<1>6. PlaceInv
  BY <1>2, <1>4 DEF PlaceInv
<1>7. SlotInv
  <2>1. \A m \in Maps, k \in Keys \cup {Cell} : bucket[m][k] # Null => k = Cell
    BY <1>2
  <2>2. \A m \in Maps, s \in Slots : val[m][s] = {}
    BY <1>2
  <2>3. QED
    BY <2>1, <2>2 DEF SlotInv
<1>8. PrintInv
  <2>1. Incremental \subseteq Maps
    BY <1>1, IncrementalFacts
  <2>2. \A m \in Incremental, e \in Events : Len(report[m][e]) <= 1
    BY <1>4, <2>1, EmptySeq
  <2>3. QED
    BY <1>2, <1>3, <1>4, <2>1, <2>2 DEF PrintInv
<1>9. RaceInv
  BY <1>2 DEF RaceInv, InFlight
<1>10. KeyInv
  BY <1>2, <1>3 DEF KeyInv, InFlight, ReadWindow
<1>11. KeptInv
  <2>1. \A m \in Maps, e \in Events : Range(report[m][e]) = {}
    BY <1>4, EmptySeq DEF Range
  <2>2. QED
    BY <1>2, <2>1 DEF KeptInv
<1>12. WalkInv
  BY <1>2 DEF WalkInv
<1>13. QED
  BY <1>1, <1>5, <1>6, <1>7, <1>8, <1>9, <1>10, <1>11, <1>12 DEF CounterInv, Types

\* Every step keeps it.
LEMMA CounterInvStep ==
  ASSUME CounterInv, [Next]_vars
  PROVE  CounterInv'
<1>1. /\ Types /\ QueueInv /\ PlaceInv /\ SlotInv /\ PrintInv
      /\ RaceInv /\ KeyInv /\ KeptInv /\ WalkInv
  BY DEF CounterInv, Types
<1>2. Types'
  BY <1>1, TypesStep
<1>3. QueueInv'
  BY <1>1, QueueStep
<1>4. PlaceInv'
  BY <1>1, PlaceStep
<1>5. SlotInv'
  BY <1>1, SlotStep
<1>6. PrintInv'
  BY <1>1, PrintStep
<1>7. RaceInv'
  BY <1>1, RaceStep
<1>8. KeyInv'
  BY <1>1, KeyStep
<1>9. KeptInv'
  BY <1>1, KeptStep
<1>10. WalkInv'
  BY <1>1, WalkStep
<1>11. QED
  BY <1>2, <1>3, <1>4, <1>5, <1>6, <1>7, <1>8, <1>9, <1>10 DEF CounterInv, Types

\* The inductive invariant: what the maps, the handlers, the loop and the printed
\* counts have to do with each other in every reachable state.
THEOREM CounterInvariant == Spec => []CounterInv
BY CounterInvInit, CounterInvStep, PTL DEF Spec

\* The loop prints no event twice, in any interleaving of the handlers' lookups,
\* adds and inserts, the reuse of slots, and the loop's reading and clearing.
THEOREM ReportedOnceCorrect == Spec => []ReportedAtMostOnce
<1>1. CounterInv => ReportedAtMostOnce
  BY DEF CounterInv, PrintInv, ReportedAtMostOnce
<1>2. QED
  BY <1>1, CounterInvariant, PTL

\* A count is lost only to another handler that creates the same key, to the
\* loop between reading and clearing the key, or to a full map: in every other
\* case an event whose handler is past a map is in the map, or was printed.
THEOREM LostCorrect == Spec => []LostOnlyToRaces
<1>1. ASSUME CounterInv PROVE LostOnlyToRaces
  <2>1. ASSUME NEW x \in handled
        PROVE  \/ \E why \in {"handler", "reader", "full"} : <<x[1], x[2], why>> \in raced
               \/ x[2] \in Counted(x[1]) \/ report[x[1]][x[2]] # <<>>
    <3>1. PICK m \in Maps, e \in Events : x = <<m, e>>
      BY <1>1 DEF CounterInv, HistoryType
    <3>2. \/ Raced(m, e) \/ <<m, e, "full">> \in raced
          \/ report[m][e] # <<>> \/ e \in Held(m, KeyIn(e, m))
      BY <1>1, <2>1, <3>1 DEF CounterInv, KeptInv
    <3>3. e \in Held(m, KeyIn(e, m)) => e \in Counted(m)
      <4>1. KeyIn(e, m) \in Keys \cup {Cell}
        BY <1>1, KeyInType DEF CounterInv
      <4>2. ASSUME NEW k \in Keys \cup {Cell}, e \in Held(m, k) PROVE e \in Counted(m)
        <5>1. bucket[m][k] \in Slots /\ e \in val[m][bucket[m][k]]
          BY <1>1, <4>2, HeldFacts DEF CounterInv
        <5>2. bucket[m][k] \in Resident(m)
          BY <1>1, <5>1 DEF CounterInv, MapType, Resident
        <5>3. QED
          BY <5>1, <5>2 DEF Counted
      <4>3. QED
        BY <4>1, <4>2
    <3>4. QED
      BY <3>1, <3>2, <3>3 DEF Raced
  <2>2. QED
    BY <2>1, Zenon DEF LostOnlyToRaces
<1>2. QED
  BY <1>1, CounterInvariant, PTL

\* An event is printed under its own key, unless a race let its handler add
\* through the pointer to a slot that was by then another key's.
THEOREM OwnKeyCorrect == Spec => []PrintedUnderOwnKey
<1>1. ASSUME CounterInv PROVE PrintedUnderOwnKey
  <2>1. \A m, e : Raced(m, e) => \E why \in {"handler", "reader"} : <<m, e, why>> \in raced
    BY DEF Raced
  <2>2. QED
    BY <1>1, <2>1 DEF CounterInv, KeptInv, PrintedUnderOwnKey
<1>2. QED
  BY <1>1, CounterInvariant, PTL

\* A pass of the loop prints all that was in its map when it began (but for the
\* known races), whichever way the tool walks the map, although the pass deletes
\* keys and the handlers insert keys while it walks, and although every update
\* puts its key at the head of a bucket.  A walk whose start key is in the map (PID
\* 0) owes only what it has after that key.
THEOREM PassCompleteCorrect == Spec => []PassComplete
<1>1. CounterInv => PassComplete
  BY DEF CounterInv, WalkInv, PassComplete
<1>2. QED
  BY <1>1, CounterInvariant, PTL

=============================================================================
