---------------------------- MODULE OutputParser ----------------------------
(***************************************************************************)
(* parse_output_metrics and summarize_tool_metrics of client/main.py.  A   *)
(* line is the sequence of its key-value pairs: one for "key: value", one  *)
(* per member of a JSON object (whose keys differ), none for other text.   *)
(* A pair is usable if its key is a string of at most 128 characters and   *)
(* its value a finite number; numbers are integers here.  A Python dict is *)
(* the sequence of its entries, which keeps the order of insertion.        *)
(***************************************************************************)
EXTENDS Naturals, SequencesExt

CONSTANT TopKeys        \* top_keys holds this many entries at most (5)

ASSUME TopKeysAssumption == TopKeys \in Nat

\* A pair of a line.
Pair(key, value, usable) == [key |-> key, value |-> value, usable |-> usable]

\* out[key] = out.get(key, 0.0) + val
Enter(out, p) ==
    LET entry == [key |-> p.key, value |-> p.value]
        at    == {i \in DOMAIN out : out[i].key = p.key}
    IN  CASE ~p.usable -> out
          [] p.usable /\ at = {} -> Append(out, entry)
          [] p.usable /\ at # {} ->
               [i \in DOMAIN out |->
                   IF i \in at THEN [entry EXCEPT !.value = @ + out[i].value]
                              ELSE out[i]]

parse_output_metrics(output) ==
    FoldLeft(LAMBDA out, ln : FoldLeft(Enter, out, ln), <<>>, output)

\* sorted(..., reverse=True): decreasing, equal values in their old order.
SortedDecreasing(entries) ==
    FoldLeft(LAMBDA sorted, e :
                 SelectSeq(sorted, LAMBDA x : x.value >= e.value)
                 \o <<e>> \o SelectSeq(sorted, LAMBDA x : x.value < e.value),
             <<>>, entries)

\* The summary of no metrics, {} in the code, is the one that counts none.
summarize_tool_metrics(metrics) ==
    LET top == SortedDecreasing(metrics)
    IN  [count |-> Len(metrics),
         sum   |-> FoldLeft(LAMBDA s, e : s + e.value, 0, metrics),
         top   |-> SubSeq(top, 1, IF Len(top) < TopKeys THEN Len(top) ELSE TopKeys)]

Summary(output) == summarize_tool_metrics(parse_output_metrics(output))

-----------------------------------------------------------------------------
(* What a summary says, without a word on how it is computed *)

\* The places of an output where a usable pair stands, and those of one key.
Places(output) ==
    UNION {{i} \X {j \in DOMAIN output[i] : output[i][j].usable} : i \in DOMAIN output}
KeyAt(output, p) == output[p[1]][p[2]].key
KeysIn(output) == {KeyAt(output, p) : p \in Places(output)}
Total(output, k) ==
    MapThenSumSet(LAMBDA p : output[p[1]][p[2]].value,
                  {p \in Places(output) : KeyAt(output, p) = k})

\* k is mentioned before l.
Before(output, k, l) ==
    \E p \in Places(output) :
        /\ KeyAt(output, p) = k
        /\ \A q \in Places(output) :
             KeyAt(output, q) = l => p[1] < q[1] \/ (p[1] = q[1] /\ p[2] < q[2])

\* s counts the keys of the output, adds up all their values, and lists those
\* with the largest totals, the largest first and equal ones as they came.
Summarizes(s, output) ==
    LET keys  == KeysIn(output)
        Ahead(k) == {l \in keys : \/ Total(output, l) > Total(output, k)
                                  \/ /\ Total(output, l) = Total(output, k)
                                     /\ Before(output, l, k)}
    IN  /\ s.count = Cardinality(keys)
        /\ s.sum = MapThenSumSet(LAMBDA k : Total(output, k), keys)
        /\ \A k \in keys :
             LET rank == Cardinality(Ahead(k) \ {k}) + 1
             IN  rank <= TopKeys =>
                     rank <= Len(s.top)
                     /\ s.top[rank] = [key |-> k, value |-> Total(output, k)]
        /\ Len(s.top) <= TopKeys

=============================================================================
