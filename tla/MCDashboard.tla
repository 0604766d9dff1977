---------------------------- MODULE MCDashboard ----------------------------
(* Instance of Dashboard for TLC. *)
EXTENDS Dashboard, TLC

\* "a: 1", and an object with a new key, the same key again and no number.
ShortLines ==
    {<<Pair("a", 1, TRUE)>>,
     <<Pair("b", 1, TRUE), Pair("a", 1, TRUE), Pair("c", 5, FALSE)>>}

\* Lines with three keys, so that totals can meet and pass each other.
MoreLines ==
    ShortLines \cup {<<Pair("c", 2, TRUE)>>, <<Pair("b", 3, TRUE), Pair("c", 0, TRUE)>>}

\* The parser of the server agrees with what a summary should say, for all outputs
\* of up to four of these lines: what DashboardProofs!SummaryCorrect asks of it.
ASSUME ParserChecked ==
    \A output \in SeqOf(MoreLines, 4) : Summarizes(Summary(output), output)

=============================================================================
