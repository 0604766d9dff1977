--------------------------- MODULE DashboardProofs ---------------------------
(***************************************************************************)
(* Theorems about Dashboard, for any tools, any number of requests and so  *)
(* of clicks, any limit on the output, any lines, and any connection.      *)
(***************************************************************************)
EXTENDS Dashboard, TLAPS, FiniteSetTheorems, SequenceTheorems

-----------------------------------------------------------------------------
(* The inductive invariant *)

Kinds == {"line", "notice", "success", "error", "end"}

\* What an event carries: the number of a line, a summary, or nothing to speak of.
EventType == [kind : Kinds, data : Nat \cup {s.summary : s \in Summaries}]

ServerType ==
    /\ phase \in [Requests -> {"waiting", "running", "reported", "over"}]
    /\ job \in [Requests -> Tools \cup {Nobody}]
    /\ conn \in [Requests -> BOOLEAN]
    /\ log_content \in [Requests -> Seq(Lines)]
    /\ truncated \in [Requests -> BOOLEAN]

PageType ==
    /\ options \subseteq Tools
    /\ currentEs \in Requests \cup {NoStream}
    /\ asked \in [Requests -> Tools \cup {Nobody}]
    /\ badge \in {"IDLE", "OFFLINE", "RUNNING", "SUCCESS", "ERROR"}
    /\ wire \in Seq(EventType)
    /\ shown \in Seq(Requests \X Nat)

HistoryType ==
    /\ last \in Requests \cup {NoStream}
    /\ clicks \in Nat
    /\ logged \in Seq(Lines)
    /\ result \in {"none", "success", "error"}

\* A request that was not sent has done nothing, one that waits has no output, and
\* the notice comes when the log is full.
RequestOk(r) ==
    /\ asked[r] = Nobody => phase[r] = "waiting" /\ conn[r]
    /\ phase[r] = "waiting" => log_content[r] = <<>> /\ ~truncated[r]
    /\ Len(log_content[r]) <= MAX_OUTPUT_LINES
    /\ truncated[r] => Len(log_content[r]) = MAX_OUTPUT_LINES

RequestInv == \A r \in Requests : RequestOk(r)

\* The open stream is that of the latest request, whose log and outcome the history
\* variables have.
StreamInv ==
    /\ last # NoStream => asked[last] # Nobody
    /\ currentEs # NoStream => currentEs = last
    /\ currentEs = NoStream => wire = <<>>
    /\ last # NoStream /\ phase[last] # "over" => logged = log_content[last]
    /\ result # "none" => last # NoStream /\ phase[last] \in {"reported", "over"}

\* The server can still send to the page.
Live == currentEs # NoStream /\ conn[currentEs]

OnWire(kind) == \E i \in 1..Len(wire) : wire[i].kind = kind

\* Events are in order: lines with consecutive numbers, then the rest, the end last.
OrderInv ==
    /\ \A i, j \in 1..Len(wire) : i < j =>
          /\ wire[i].kind # "end"
          /\ wire[j].kind = "line" =>
                wire[i].kind = "line" /\ wire[j].data = wire[i].data + (j - i)
    /\ \A i \in 1..Len(wire) : wire[i].kind = "line" => wire[i].data \in Nat

\* What is on the wire agrees with the server, and it is not too much.
WireInv ==
    /\ OnWire("success") => result = "success"
    /\ Live => /\ phase[currentEs] = "waiting" => wire = <<>>
               /\ phase[currentEs] = "running" => \A i \in 1..Len(wire) :
                     \/ wire[i].kind = "line"
                     \/ wire[i].kind = "notice" /\ truncated[currentEs]
               /\ phase[currentEs] = "reported" => ~OnWire("end")
    /\ Len(wire) <= WireCap + 2
    /\ ~OnWire("end") => Len(wire) <= WireCap + 1

\* The lines on the wire go on where the output box ends.
ShownInv ==
    /\ \A i \in 1..Len(shown) :
          shown[i][1] = last /\ (i > 1 => shown[i][2] = shown[i - 1][2] + 1)
    /\ shown # <<>> /\ wire # <<>> /\ wire[1].kind = "line" =>
          wire[1].data = shown[Len(shown)][2] + 1
    /\ badge = "SUCCESS" => result = "success" /\ ~OnWire("line")

\* No line was cut off.
Whole == Live \/ badge = "SUCCESS" \/ OnWire("success")

\* Then the last line that was sent is the last of the log.
LastInv == Whole =>
    /\ \A i \in 1..Len(wire) :
          wire[i].kind = "line" /\ (i = Len(wire) \/ wire[i + 1].kind # "line") =>
            wire[i].data = Len(logged)
    /\ shown # <<>> /\ (wire = <<>> \/ wire[1].kind # "line") =>
          shown[Len(shown)][2] = Len(logged)

Types == ServerType /\ PageType /\ HistoryType

DashboardInv ==
    /\ Types /\ OneRequestPerClick /\ RequestInv /\ StreamInv
    /\ OrderInv /\ WireInv /\ ShownInv /\ LastInv

-----------------------------------------------------------------------------
(* What a step does to the wire *)

LEMMA ConstantFacts ==
  /\ IsFiniteSet(Requests) /\ NoStream \notin Requests /\ Nobody \notin Tools
  /\ WireCap \in Nat /\ MAX_OUTPUT_LINES \in Nat /\ Available \subseteq Tools
BY DashboardAssumption

LEMMA EventFacts ==
  /\ \A kind \in Kinds, n \in Nat :
        Event(kind, n) \in EventType /\ Event(kind, n).kind = kind /\ Event(kind, n).data = n
  /\ \A s \in Summaries : Event("success", s.summary) \in EventType
                          /\ Event("success", s.summary).kind = "success"
  /\ ErrorEvent \in EventType /\ ErrorEvent.kind = "error"
  /\ EndEvent \in EventType /\ EndEvent.kind = "end"
BY DEF Event, EventType, Kinds, ErrorEvent, EndEvent

\* An event was put on the wire,
Grown(e) ==
    /\ wire' \in Seq(EventType) /\ Len(wire') = Len(wire) + 1
    /\ \A i \in 1..Len(wire) : wire'[i] = wire[i]
    /\ wire'[Len(wire) + 1] = e

\* or taken from it,
Dropped ==
    /\ wire # <<>> /\ Len(wire) > 0
    /\ wire' \in Seq(EventType) /\ Len(wire') = Len(wire) - 1
    /\ \A i \in 1..Len(wire') : wire'[i] = wire[i + 1]

\* or the stream was cut off after n events.
Cut(n) ==
    /\ wire' \in Seq(EventType) /\ Len(wire') = n + 1
    /\ \A i \in 1..n : wire'[i] = wire[i]
    /\ wire'[n + 1] = EndEvent

LEMMA GrownFacts ==
  ASSUME wire \in Seq(EventType), NEW e \in EventType, wire' = wire \o <<e>>
  PROVE  Grown(e)
<1>1. <<e>> \in Seq(EventType) /\ Len(<<e>>) = 1 /\ <<e>>[1] = e
  OBVIOUS
<1>2. wire' \in Seq(EventType) /\ Len(wire') = Len(wire) + 1
  BY <1>1, ConcatProperties
<1>3. Len(wire) \in Nat
  BY LenProperties
<1>4. \A i \in 1..Len(wire) : wire'[i] = wire[i]
  BY <1>1, <1>3, ConcatProperties
<1>5. wire'[Len(wire) + 1] = e
  BY <1>1, <1>3, ConcatProperties
<1>6. QED
  BY <1>2, <1>4, <1>5 DEF Grown

LEMMA DroppedFacts ==
  ASSUME wire \in Seq(EventType), wire # <<>>, wire' = Tail(wire)
  PROVE  Dropped /\ Head(wire) = wire[1] /\ 1 \in 1..Len(wire)
<1>1. Len(wire) \in Nat \ {0}
  BY LenProperties, EmptySeq
<1>2. QED
  BY <1>1, HeadTailProperties DEF Dropped

LEMMA CutFacts ==
  ASSUME wire \in Seq(EventType), NEW n \in 0..Len(wire),
         wire' = Append(SubSeq(wire, 1, n), EndEvent)
  PROVE  Cut(n)
<1>0. EndEvent \in EventType /\ Len(wire) \in Nat /\ n \in Nat
  BY EventFacts, LenProperties
<1> DEFINE s == SubSeq(wire, 1, n)
<1>1. s \in Seq(EventType) /\ Len(s) = n /\ \A i \in 1..n : s[i] = wire[i]
  BY <1>0
<1>2. QED
  <2> HIDE DEF s
  <2>1. wire' = Append(s, EndEvent)
    BY DEF s
  <2>2. QED
    BY <1>0, <1>1, <2>1, AppendProperties DEF Cut

-----------------------------------------------------------------------------
(* Types *)

\* What the server yields reaches the page or is lost.
LEMMA YieldFacts ==
  ASSUME Types, NEW r \in Requests, NEW events \in Seq(EventType), Yield(r, events)
  PROVE  wire' \in Seq(EventType)
<1>1. wire \in Seq(EventType)
  BY DEF Types, PageType
<1>2. wire \o events \in Seq(EventType)
  BY <1>1, ConcatProperties
<1>3. QED
  BY <1>1, <1>2 DEF Yield

\* The wire holds events.
LEMMA WireTypeStep ==
  ASSUME Types, [DashboardNext]_allVars
  PROVE  wire' \in Seq(EventType)
<1>0. wire \in Seq(EventType)
  BY DEF Types, PageType
<1>a. /\ <<EndEvent>> \in Seq(EventType) /\ <<ErrorEvent>> \in Seq(EventType)
      /\ <<ErrorEvent, EndEvent>> \in Seq(EventType)
  BY EventFacts
<1>b. ASSUME KeepStream, wire # <<>> PROVE wire' \in Seq(EventType)
  BY <1>0, <1>b, DroppedFacts DEF KeepStream, Dropped
<1>c. ASSUME cleanupConnection PROVE wire' \in Seq(EventType)
  BY <1>c, EmptySeq DEF cleanupConnection
<1>1. CASE LoadTools \/ ClearOutput \/ UNCHANGED allVars
  BY <1>0, <1>1 DEF LoadTools, ClearOutput, allVars
<1>2. CASE Reload
  BY <1>2, EmptySeq DEF Reload
<1>3. CASE OnLine
  BY <1>3, <1>b DEF OnLine, Incoming
<1>4. CASE OnSuccess
  BY <1>4, <1>b, <1>c DEF OnSuccess, Incoming
<1>5. CASE OnFailure \/ onerror
  BY <1>5, <1>c DEF OnFailure, onerror
<1>6. CASE Break
  <2>1. PICK n \in 0..Len(wire) : wire' = Append(SubSeq(wire, 1, n), EndEvent)
    BY <1>6 DEF Break
  <2>2. Cut(n)
    BY <1>0, <2>1, CutFacts
  <2>3. QED
    BY <2>2 DEF Cut
<1>7. CASE \E t \in Tools : Click(t)
  BY <1>7, EmptySeq DEF Click
<1>8. ASSUME NEW r \in Requests, Accept(r) \/ Hangup(r) PROVE wire' \in Seq(EventType)
  BY <1>0, <1>8 DEF Accept, Hangup
<1>9. ASSUME NEW r \in Requests, TurnDown(r) PROVE wire' \in Seq(EventType)
  BY <1>a, <1>9, YieldFacts DEF TurnDown
<1>10. ASSUME NEW r \in Requests, Output(r) PROVE wire' \in Seq(EventType)
  <2>1. log_content[r] \in Seq(Lines)
    BY DEF Types, ServerType
  <2>2. Len(log_content[r]) + 1 \in Nat
    BY <2>1, LenProperties
  <2>3. Event("line", Len(log_content[r]) + 1) \in EventType /\ Event("notice", 0) \in EventType
    BY <2>2, EventFacts DEF Kinds
  <2>4. /\ <<Event("line", Len(log_content[r]) + 1)>> \in Seq(EventType)
        /\ <<Event("notice", 0)>> \in Seq(EventType)
    BY <2>3
  <2>5. QED
    BY <1>10, <2>4, YieldFacts DEF Output
<1>11. ASSUME NEW r \in Requests, Finally(r) PROVE wire' \in Seq(EventType)
  BY <1>a, <1>11, YieldFacts DEF Finally
<1>12. ASSUME NEW r \in Requests, NEW kind, ReportRun(r, kind) PROVE wire' \in Seq(EventType)
  <2>1. CASE Yield(r, <<ErrorEvent>>)
    BY <1>a, <2>1, YieldFacts
  <2>2. ASSUME NEW s \in Summaries, Yield(r, <<Event("success", s.summary)>>)
        PROVE  wire' \in Seq(EventType)
    <3>1. <<Event("success", s.summary)>> \in Seq(EventType)
      BY EventFacts
    <3>2. QED
      BY <2>2, <3>1, YieldFacts
  <2>3. QED
    BY <1>12, <2>1, <2>2 DEF ReportRun
<1>13. QED
  BY <1>1, <1>2, <1>3, <1>4, <1>5, <1>6, <1>7, <1>8, <1>9, <1>10, <1>11, <1>12
     DEF DashboardNext, Receive

\* What the server keeps has its type.
LEMMA ServerTypeStep ==
  ASSUME Types, [DashboardNext]_allVars
  PROVE  ServerType'
<1>0. ServerType /\ asked \in [Requests -> Tools \cup {Nobody}]
  BY DEF Types, PageType
<1>1. CASE UNCHANGED serverVars
  BY <1>0, <1>1 DEF ServerType, serverVars, ledgerVars
<1>2. CASE Break
  BY <1>0, <1>2, ConstantFacts DEF Break, ServerType, ledgerVars
<1>3. ASSUME NEW r \in Requests, Accept(r) PROVE ServerType'
  BY <1>0, <1>3 DEF Accept, Take, ServerType
<1>4. ASSUME NEW r \in Requests, Hangup(r) PROVE ServerType'
  BY <1>0, <1>4 DEF Hangup, ServerType, ledgerVars
<1>5. ASSUME NEW r \in Requests, TurnDown(r) PROVE ServerType'
  BY <1>0, <1>5 DEF TurnDown, Decline, ServerType
<1>6. ASSUME NEW r \in Requests, Output(r) PROVE ServerType'
  <2>1. UNCHANGED <<ledgerVars, conn>>
    BY <1>6 DEF Output
  <2>2. CASE UNCHANGED log_content
    <3>1. truncated' \in [Requests -> BOOLEAN]
      BY <1>0, <1>6 DEF Output, ServerType
    <3>2. QED
      BY <1>0, <2>1, <2>2, <3>1 DEF ServerType, ledgerVars
  <2>3. CASE UNCHANGED truncated /\ \E line \in Lines :
               log_content' = [log_content EXCEPT ![r] = Append(@, line)]
    <3>1. PICK line \in Lines : log_content' = [log_content EXCEPT ![r] = Append(@, line)]
      BY <2>3
    <3>2. Append(log_content[r], line) \in Seq(Lines)
      BY <1>0, AppendProperties DEF ServerType
    <3>3. log_content' \in [Requests -> Seq(Lines)]
      BY <1>0, <3>1, <3>2 DEF ServerType
    <3>4. QED
      BY <1>0, <2>1, <2>3, <3>3 DEF ServerType, ledgerVars
  <2>4. QED
    BY <1>6, <2>2, <2>3 DEF Output
<1>7. ASSUME NEW r \in Requests, Finally(r) PROVE ServerType'
  <2>1. log_content' \in [Requests -> Seq(Lines)]
    BY <1>0, <1>7, EmptySeq DEF Finally, ServerType
  <2>2. QED
    BY <1>0, <1>7, <2>1 DEF Finally, Release, ServerType
<1>8. ASSUME NEW r \in Requests, NEW kind, ReportRun(r, kind) PROVE ServerType'
  BY <1>0, <1>8 DEF ReportRun, Report, ServerType
<1>9. CASE LoadTools \/ ClearOutput \/ Reload \/ Receive \/ UNCHANGED allVars
  BY <1>1, <1>9 DEF LoadTools, ClearOutput, Reload, Receive, OnLine, OnSuccess, OnFailure,
     onerror, allVars
<1>10. ASSUME NEW t \in Tools, Click(t) PROVE ServerType'
  BY <1>1, <1>10 DEF Click
<1>11. QED
  BY <1>2, <1>3, <1>4, <1>5, <1>6, <1>7, <1>8, <1>9, <1>10 DEF DashboardNext

\* A click uses a request that was not sent before.
LEMMA FreshFacts ==
  ASSUME Fresh # {}
  PROVE  NextRequest \in Requests /\ asked[NextRequest] = Nobody
<1>1. NextRequest \in Fresh
  BY DEF NextRequest
<1>2. QED
  BY <1>1 DEF Fresh

\* The output box holds numbered lines.
LEMMA ShownTypeStep ==
  ASSUME Types, StreamInv, [DashboardNext]_allVars,
         OnLine => (Head(wire).kind = "line" => Head(wire).data \in Nat)
  PROVE  shown' \in Seq(Requests \X Nat)
<1>0. shown \in Seq(Requests \X Nat)
  BY DEF Types, PageType
<1>1. CASE shown' = shown
  BY <1>0, <1>1
<1>2. CASE shown' = <<>>
  BY <1>2, EmptySeq
<1>3. CASE OnLine
  <2>1. CASE Head(wire).kind = "line"
    <3>1. currentEs \in Requests
      BY <1>3 DEF Types, PageType, StreamInv, OnLine, Incoming
    <3>2. <<currentEs, Head(wire).data>> \in Requests \X Nat
      BY <1>3, <2>1, <3>1
    <3>3. shown' = Append(shown, <<currentEs, Head(wire).data>>)
      BY <1>3, <2>1 DEF OnLine
    <3>4. QED
      BY <1>0, <3>2, <3>3, AppendProperties
  <2>2. QED
    BY <1>1, <1>3, <2>1 DEF OnLine
<1>4. CASE LoadTools \/ ClearOutput \/ Reload \/ OnSuccess \/ OnFailure \/ onerror \/ Break
           \/ UNCHANGED allVars
  BY <1>1, <1>2, <1>4 DEF LoadTools, ClearOutput, Reload, OnSuccess, OnFailure, onerror,
     Break, allVars, pageVars
<1>5. ASSUME NEW t \in Tools, Click(t) PROVE shown' = <<>>
  BY <1>5 DEF Click
<1>6. ASSUME NEW r \in Requests, \/ Accept(r) \/ TurnDown(r) \/ Output(r) \/ Finally(r)
                                 \/ Hangup(r)
      PROVE  shown' = shown
  BY <1>6 DEF Accept, TurnDown, Output, Finally, Hangup, pageVars
<1>7. ASSUME NEW r \in Requests, NEW kind, ReportRun(r, kind) PROVE shown' = shown
  BY <1>7 DEF ReportRun, pageVars
<1>8. QED
  BY <1>1, <1>2, <1>3, <1>4, <1>5, <1>6, <1>7 DEF DashboardNext, Receive

\* What the page keeps has its type.
LEMMA PageTypeStep ==
  ASSUME Types, StreamInv, OrderInv, [DashboardNext]_allVars
  PROVE  PageType'
<1>0. PageType
  BY DEF Types
<1>a. wire' \in Seq(EventType)
  BY WireTypeStep
<1>b. shown' \in Seq(Requests \X Nat)
  <2>1. ASSUME OnLine, Head(wire).kind = "line" PROVE Head(wire).data \in Nat
    <3>1. wire # <<>>
      BY <2>1 DEF OnLine, Incoming
    <3>2. Head(wire) = wire[1] /\ 1 \in 1..Len(wire)
      BY <1>0, <2>1, <3>1, DroppedFacts DEF OnLine, KeepStream, PageType
    <3>3. QED
      BY <2>1, <3>2 DEF OrderInv
  <2>2. QED
    BY <2>1, ShownTypeStep
<1>1. CASE UNCHANGED pageVars
  BY <1>0, <1>1, <1>a, <1>b DEF PageType, pageVars
<1>2. CASE LoadTools
  BY <1>0, <1>2, <1>a, <1>b, ConstantFacts DEF LoadTools, PageType
<1>3. CASE ClearOutput \/ Reload
  BY <1>0, <1>3, <1>a, <1>b DEF ClearOutput, Reload, PageType
<1>4. CASE Receive
  BY <1>0, <1>4, <1>a, <1>b DEF Receive, OnLine, OnSuccess, OnFailure, onerror, KeepStream,
     cleanupConnection, PageType
<1>5. ASSUME NEW t \in Tools, Click(t) PROVE PageType'
  <2>1. NextRequest \in Requests
    BY <1>5, FreshFacts DEF Click
  <2>2. QED
    BY <1>0, <1>5, <2>1, <1>a, <1>b DEF Click, PageType
<1>6. CASE Break
  BY <1>1, <1>6 DEF Break
<1>7. ASSUME NEW r \in Requests, \/ Accept(r) \/ TurnDown(r) \/ Output(r) \/ Finally(r)
                                 \/ Hangup(r)
      PROVE  PageType'
  BY <1>1, <1>7 DEF Accept, TurnDown, Output, Finally, Hangup
<1>8. ASSUME NEW r \in Requests, NEW kind, ReportRun(r, kind) PROVE PageType'
  BY <1>1, <1>8 DEF ReportRun
<1>9. CASE UNCHANGED allVars
  BY <1>1, <1>9 DEF allVars
<1>10. QED
  BY <1>2, <1>3, <1>4, <1>5, <1>6, <1>7, <1>8, <1>9 DEF DashboardNext

\* And so do the history variables.
LEMMA HistoryTypeStep ==
  ASSUME Types, [DashboardNext]_allVars
  PROVE  HistoryType'
<1>0. HistoryType
  BY DEF Types
<1>1. CASE UNCHANGED history
  BY <1>0, <1>1 DEF HistoryType, history
<1>2. ASSUME NEW t \in Tools, Click(t) PROVE HistoryType'
  <2>1. NextRequest \in Requests /\ <<>> \in Seq(Lines)
    BY <1>2, FreshFacts, EmptySeq DEF Click
  <2>2. QED
    BY <1>0, <1>2, <2>1 DEF Click, HistoryType
<1>3. ASSUME NEW r \in Requests, Output(r) PROVE HistoryType'
  <2>1. log_content'[r] \in Seq(Lines)
    BY ServerTypeStep DEF ServerType
  <2>2. QED
    BY <1>0, <1>3, <2>1 DEF Output, HistoryType
<1>4. ASSUME NEW r \in Requests, NEW kind \in {"success", "error"}, ReportRun(r, kind)
      PROVE  HistoryType'
  BY <1>0, <1>4 DEF ReportRun, HistoryType
<1>5. CASE LoadTools \/ ClearOutput \/ Reload \/ Receive \/ Break \/ UNCHANGED allVars
  BY <1>1, <1>5 DEF LoadTools, ClearOutput, Reload, Receive, OnLine, OnSuccess, OnFailure,
     onerror, Break, allVars
<1>6. ASSUME NEW r \in Requests, Accept(r) \/ TurnDown(r) \/ Finally(r) \/ Hangup(r)
      PROVE  HistoryType'
  BY <1>1, <1>6 DEF Accept, TurnDown, Finally, Hangup
<1>7. QED
  BY <1>2, <1>3, <1>4, <1>5, <1>6 DEF DashboardNext

-----------------------------------------------------------------------------
(* Requests and clicks *)

\* Only a click sends a request, and it sends one.
LEMMA OneRequestStep ==
  ASSUME Types, OneRequestPerClick, [DashboardNext]_allVars
  PROVE  OneRequestPerClick'
<1>1. CASE UNCHANGED <<asked, clicks>>
  BY <1>1 DEF OneRequestPerClick, Fresh
<1>2. ASSUME NEW t \in Tools, Click(t) PROVE OneRequestPerClick'
  <2> DEFINE r == NextRequest
             sent == Requests \ Fresh
  <2>1. r \in Requests /\ asked[r] = Nobody
    BY <1>2, FreshFacts DEF Click
  <2>2. asked' = [asked EXCEPT ![r] = t] /\ clicks' = clicks + 1
    BY <1>2 DEF Click
  <2>3. t # Nobody /\ IsFiniteSet(sent) /\ r \notin sent
    <3>1. sent \subseteq Requests /\ IsFiniteSet(Requests)
      BY ConstantFacts
    <3>2. IsFiniteSet(sent)
      BY <3>1, FS_Subset
    <3>3. QED
      BY <2>1, <3>2, ConstantFacts DEF Fresh
  <2>4. (Requests \ Fresh)' = sent \cup {r}
    <3>1. asked \in [Requests -> Tools \cup {Nobody}]
      BY DEF Types, PageType
    <3>2. QED
      BY <2>1, <2>2, <2>3, <3>1 DEF Fresh
  <2>5. Cardinality(sent \cup {r}) = Cardinality(sent) + 1
    BY <2>3, FS_AddElement
  <2>6. QED
    BY <2>2, <2>4, <2>5 DEF OneRequestPerClick
<1>3. CASE LoadTools \/ ClearOutput \/ Reload \/ Receive \/ Break \/ UNCHANGED allVars
  BY <1>1, <1>3 DEF LoadTools, ClearOutput, Reload, Receive, OnLine, OnSuccess, OnFailure,
     onerror, Break, allVars, pageVars, history
<1>4. ASSUME NEW r \in Requests, \/ Accept(r) \/ TurnDown(r) \/ Output(r) \/ Finally(r)
                                 \/ Hangup(r)
      PROVE  UNCHANGED <<asked, clicks>>
  BY <1>4 DEF Accept, TurnDown, Output, Finally, Hangup, pageVars, history
<1>5. ASSUME NEW r \in Requests, NEW kind, ReportRun(r, kind)
      PROVE  UNCHANGED <<asked, clicks>>
  BY <1>5 DEF ReportRun, pageVars
<1>6. QED
  BY <1>1, <1>2, <1>3, <1>4, <1>5 DEF DashboardNext

\* No step spoils what holds of every request.
LEMMA RequestInvStep ==
  ASSUME Types, RequestInv, StreamInv, [DashboardNext]_allVars
  PROVE  RequestInv'
<1> SUFFICES ASSUME NEW q \in Requests PROVE RequestOk(q)'
  BY DEF RequestInv
<1>0. RequestOk(q) /\ ServerType /\ asked \in [Requests -> Tools \cup {Nobody}]
  BY DEF RequestInv, Types, PageType
<1>1. CASE /\ phase'[q] = phase[q] /\ conn'[q] = conn[q] /\ log_content'[q] = log_content[q]
           /\ truncated'[q] = truncated[q] /\ asked'[q] = asked[q]
  BY <1>0, <1>1 DEF RequestOk
<1>2. ASSUME NEW t \in Tools, Click(t) PROVE RequestOk(q)'
  <2>1. UNCHANGED serverVars /\ asked' = [asked EXCEPT ![NextRequest] = t] /\ t # Nobody
    BY <1>2, ConstantFacts DEF Click
  <2>2. asked'[q] = Nobody => asked[q] = Nobody
    BY <1>0, <2>1
  <2>3. QED
    BY <1>0, <2>1, <2>2 DEF RequestOk, serverVars, ledgerVars
<1>3. ASSUME NEW r \in Requests, Accept(r) PROVE RequestOk(q)'
  <2>1. CASE q = r
    BY <1>0, <1>3, <2>1 DEF Accept, Take, RequestOk, ServerType, pageVars
  <2>2. QED
    BY <1>0, <1>1, <1>3, <2>1 DEF Accept, Take, ServerType, pageVars
<1>4. ASSUME NEW r \in Requests, TurnDown(r) PROVE RequestOk(q)'
  <2>1. CASE q = r
    BY <1>0, <1>4, <2>1 DEF TurnDown, Decline, RequestOk, ServerType, pageVars
  <2>2. QED
    BY <1>0, <1>1, <1>4, <2>1 DEF TurnDown, Decline, ServerType, pageVars
<1>5. ASSUME NEW r \in Requests, Output(r) PROVE RequestOk(q)'
  <2>0. /\ UNCHANGED <<phase, conn, asked>> /\ phase[r] = "running"
        /\ log_content[q] \in Seq(Lines) /\ MAX_OUTPUT_LINES \in Nat
    BY <1>0, <1>5, ConstantFacts DEF Output, ledgerVars, pageVars, ServerType
  <2>1. CASE q = r /\ UNCHANGED truncated
    <3>1. PICK line \in Lines : log_content' = [log_content EXCEPT ![r] = Append(@, line)]
      BY <1>0, <1>5, <2>1 DEF Output, ServerType
    <3>2. log_content'[q] = Append(log_content[q], line)
      BY <1>0, <2>1, <3>1 DEF ServerType
    <3>3. Len(log_content'[q]) = Len(log_content[q]) + 1 /\ Len(log_content[q]) \in Nat
      BY <2>0, <3>2, AppendProperties, LenProperties
    <3>4. Len(log_content[q]) < MAX_OUTPUT_LINES
      BY <1>0, <1>5, <2>1 DEF Output, ServerType
    <3>5. QED
      BY <1>0, <2>0, <2>1, <3>3, <3>4 DEF RequestOk
  <2>2. CASE q = r /\ ~UNCHANGED truncated
    <3>1. /\ UNCHANGED log_content /\ Len(log_content[q]) = MAX_OUTPUT_LINES
      BY <1>5, <2>2 DEF Output
    <3>2. QED
      BY <1>0, <2>0, <2>2, <3>1 DEF RequestOk
  <2>3. CASE q # r
    <3>1. log_content'[q] = log_content[q] /\ truncated'[q] = truncated[q]
      BY <1>0, <1>5, <2>3 DEF Output, ServerType
    <3>2. QED
      BY <1>1, <2>0, <3>1
  <2>4. QED
    BY <2>1, <2>2, <2>3
<1>6. ASSUME NEW r \in Requests, Finally(r) PROVE RequestOk(q)'
  <2>1. CASE q = r
    <3>1. /\ log_content'[q] = <<>> /\ ~truncated'[q] /\ phase'[q] = "over"
          /\ asked'[q] = asked[q] /\ phase[q] # "waiting"
      BY <1>0, <1>6, <2>1 DEF Finally, Release, InProgress, ServerType, pageVars
    <3>2. Len(<<>>) <= MAX_OUTPUT_LINES
      BY ConstantFacts
    <3>3. QED
      BY <1>0, <3>1, <3>2 DEF RequestOk
  <2>2. QED
    BY <1>0, <1>1, <1>6, <2>1 DEF Finally, Release, ServerType, pageVars
<1>7. ASSUME NEW r \in Requests, Hangup(r) PROVE RequestOk(q)'
  <2>1. CASE q = r
    BY <1>0, <1>7, <2>1 DEF Hangup, RequestOk, ServerType, ledgerVars, pageVars
  <2>2. QED
    BY <1>0, <1>1, <1>7, <2>1 DEF Hangup, ServerType, ledgerVars, pageVars
<1>8. ASSUME NEW r \in Requests, NEW kind, ReportRun(r, kind) PROVE RequestOk(q)'
  <2>1. CASE q = r
    BY <1>0, <1>8, <2>1 DEF ReportRun, Report, RequestOk, ServerType, pageVars
  <2>2. QED
    BY <1>0, <1>1, <1>8, <2>1 DEF ReportRun, Report, ServerType, pageVars
<1>9. CASE Break
  <2>1. CASE q = currentEs
    BY <1>0, <1>9, <2>1 DEF Break, RequestOk, StreamInv, ServerType, ledgerVars, pageVars
  <2>2. QED
    BY <1>0, <1>1, <1>9, <2>1 DEF Break, ServerType, ledgerVars, pageVars
<1>10. CASE LoadTools \/ ClearOutput \/ Reload \/ Receive \/ UNCHANGED allVars
  BY <1>1, <1>10 DEF LoadTools, ClearOutput, Reload, Receive, OnLine, OnSuccess, OnFailure,
     onerror, allVars, pageVars, serverVars, ledgerVars
<1>11. QED
  BY <1>2, <1>3, <1>4, <1>5, <1>6, <1>7, <1>8, <1>9, <1>10 DEF DashboardNext

\* The open stream stays that of the latest request.
LEMMA StreamInvStep ==
  ASSUME Types, RequestInv, StreamInv, [DashboardNext]_allVars
  PROVE  StreamInv'
<1>0. /\ ServerType /\ asked \in [Requests -> Tools \cup {Nobody}]
      /\ last \in Requests \cup {NoStream} /\ NoStream \notin Requests
      /\ currentEs \in Requests \cup {NoStream}
  BY ConstantFacts DEF Types, PageType, HistoryType
<1>1. CASE UNCHANGED <<serverVars, asked, history, currentEs>> /\ (wire = <<>> => wire' = <<>>)
  BY <1>1 DEF StreamInv, serverVars, ledgerVars, history
<1>2. CASE UNCHANGED <<serverVars, asked, history>> /\ currentEs' = NoStream /\ wire' = <<>>
  BY <1>2 DEF StreamInv, serverVars, ledgerVars, history
<1>3. ASSUME NEW t \in Tools, Click(t) PROVE StreamInv'
  <2>1. NextRequest \in Requests /\ asked[NextRequest] = Nobody
    BY <1>3, FreshFacts DEF Click
  <2>2. RequestOk(NextRequest)
    BY <2>1 DEF RequestInv
  <2>3. log_content[NextRequest] = <<>>
    BY <2>1, <2>2 DEF RequestOk
  <2>4. QED
    BY <1>0, <1>3, <2>1, <2>3, ConstantFacts DEF Click, StreamInv, serverVars, ledgerVars
<1>4. ASSUME NEW r \in Requests,
             UNCHANGED <<asked, currentEs, last>>,
             currentEs = NoStream => wire' = wire,
             last # NoStream /\ phase'[last] # "over" => logged' = log_content'[last],
             result' # "none" => last # NoStream /\ phase'[last] \in {"reported", "over"}
      PROVE  StreamInv'
  BY <1>4 DEF StreamInv
<1>5. ASSUME NEW r \in Requests, NEW events, Yield(r, events) PROVE currentEs = NoStream => wire' = wire
  BY <1>0, <1>5 DEF Yield
<1>6. ASSUME NEW r \in Requests, Accept(r) PROVE StreamInv'
  <2>1. UNCHANGED <<asked, currentEs, last, wire, logged, result, log_content>>
    BY <1>6 DEF Accept, pageVars, history
  <2>2. phase' = [phase EXCEPT ![r] = "running"] /\ phase[r] = "waiting"
    BY <1>6 DEF Accept, Take
  <2>3. last # NoStream /\ phase'[last] # "over" => logged' = log_content'[last]
    BY <1>0, <2>1, <2>2 DEF StreamInv, ServerType
  <2>4. result' # "none" => last # NoStream /\ phase'[last] \in {"reported", "over"}
    BY <1>0, <2>1, <2>2 DEF StreamInv, ServerType
  <2>5. QED
    BY <1>4, <2>1, <2>3, <2>4
<1>7. ASSUME NEW r \in Requests, TurnDown(r) PROVE StreamInv'
  <2>1. UNCHANGED <<asked, currentEs, last, logged, result, log_content>>
    BY <1>7 DEF TurnDown, pageVars, history
  <2>2. phase' = [phase EXCEPT ![r] = "over"]
    BY <1>7 DEF TurnDown, Decline
  <2>3. last # NoStream /\ phase'[last] # "over" => logged' = log_content'[last]
    BY <1>0, <2>1, <2>2 DEF StreamInv, ServerType
  <2>4. result' # "none" => last # NoStream /\ phase'[last] \in {"reported", "over"}
    BY <1>0, <2>1, <2>2 DEF StreamInv, ServerType
  <2>5. currentEs = NoStream => wire' = wire
    BY <1>5, <1>7 DEF TurnDown
  <2>6. QED
    BY <1>4, <2>1, <2>3, <2>4, <2>5
<1>8. ASSUME NEW r \in Requests, Output(r) PROVE StreamInv'
  <2>1. UNCHANGED <<asked, currentEs, last, result, phase>> /\ phase[r] = "running"
    BY <1>8 DEF Output, pageVars, ledgerVars
  <2>2. last # r => log_content'[last] = log_content[last] \/ last = NoStream
    BY <1>0, <1>8 DEF Output, ServerType
  <2>3. last # NoStream /\ phase'[last] # "over" => logged' = log_content'[last]
    <3>1. logged' = IF r = last THEN log_content'[r] ELSE logged
      BY <1>8 DEF Output
    <3>2. QED
      BY <2>1, <2>2, <3>1 DEF StreamInv
  <2>4. result' # "none" => last # NoStream /\ phase'[last] \in {"reported", "over"}
    BY <2>1 DEF StreamInv
  <2>5. currentEs = NoStream => wire' = wire
    BY <1>5, <1>8 DEF Output
  <2>6. QED
    BY <1>4, <2>1, <2>3, <2>4, <2>5
<1>9. ASSUME NEW r \in Requests, Finally(r) PROVE StreamInv'
  <2>1. UNCHANGED <<asked, currentEs, last, logged, result>>
    BY <1>9 DEF Finally, pageVars, history
  <2>2. phase' = [phase EXCEPT ![r] = "over"] /\ log_content' = [log_content EXCEPT ![r] = <<>>]
    BY <1>9 DEF Finally, Release
  <2>3. last # NoStream /\ phase'[last] # "over" => logged' = log_content'[last]
    BY <1>0, <2>1, <2>2 DEF StreamInv, ServerType
  <2>4. result' # "none" => last # NoStream /\ phase'[last] \in {"reported", "over"}
    BY <1>0, <2>1, <2>2 DEF StreamInv, ServerType
  <2>5. currentEs = NoStream => wire' = wire
    BY <1>5, <1>9 DEF Finally
  <2>6. QED
    BY <1>4, <2>1, <2>3, <2>4, <2>5
<1>10. ASSUME NEW r \in Requests, NEW kind, ReportRun(r, kind) PROVE StreamInv'
  <2>1. UNCHANGED <<asked, currentEs, last, logged, log_content>>
    BY <1>10 DEF ReportRun, pageVars
  <2>2. /\ phase' = [phase EXCEPT ![r] = "reported"] /\ phase[r] = "running"
        /\ result' = IF r = last THEN kind ELSE result
    BY <1>10 DEF ReportRun, Report
  <2>3. last # NoStream /\ phase'[last] # "over" => logged' = log_content'[last]
    BY <1>0, <2>1, <2>2 DEF StreamInv, ServerType
  <2>4. result' # "none" => last # NoStream /\ phase'[last] \in {"reported", "over"}
    BY <1>0, <2>1, <2>2 DEF StreamInv, ServerType
  <2>5. currentEs = NoStream => wire' = wire
    BY <1>5, <1>10 DEF ReportRun
  <2>6. QED
    BY <1>4, <2>1, <2>3, <2>4, <2>5
<1>11. ASSUME NEW r \in Requests, Hangup(r) PROVE StreamInv'
  BY <1>11 DEF Hangup, StreamInv, ledgerVars, pageVars, history
<1>12. CASE Break
  BY <1>12 DEF Break, StreamInv, ledgerVars, pageVars, history
<1>13. CASE LoadTools \/ ClearOutput \/ UNCHANGED allVars
  BY <1>1, <1>13 DEF LoadTools, ClearOutput, allVars, pageVars
<1>14. CASE Reload \/ OnFailure \/ onerror
  BY <1>2, <1>14 DEF Reload, OnFailure, onerror, cleanupConnection
<1>15. CASE OnLine \/ OnSuccess
  <2>1. CASE KeepStream
    BY <1>1, <1>15, <2>1 DEF OnLine, OnSuccess, KeepStream, Incoming
  <2>2. CASE cleanupConnection
    BY <1>2, <1>15, <2>2 DEF OnLine, OnSuccess, KeepStream, cleanupConnection
  <2>3. QED
    BY <1>15, <2>1, <2>2 DEF OnLine, OnSuccess
<1>16. QED
  BY <1>3, <1>6, <1>7, <1>8, <1>9, <1>10, <1>11, <1>12, <1>13, <1>14, <1>15
     DEF DashboardNext, Receive

-----------------------------------------------------------------------------
(* The steps, as the page sees them *)

\* A step that neither puts an event on the wire nor takes one.
Unseen ==
    /\ UNCHANGED <<wire, currentEs, last>>
    /\ shown' = shown \/ shown' = <<>>
    /\ badge' = "SUCCESS" => badge = "SUCCESS"
    /\ Live' => /\ Live /\ truncated'[currentEs] = truncated[currentEs]
                /\ phase'[currentEs] = phase[currentEs] \/ wire = <<>>
    /\ result' = result \/ result = "none"
    /\ logged' = logged \/ (result = "none" /\ ~Live')

\* The page closes its stream,
Closed ==
    /\ wire' = <<>> /\ currentEs' = NoStream
    /\ UNCHANGED <<last, logged, result>>
    /\ shown' = shown \/ shown' = <<>>
    /\ badge' = "SUCCESS" => wire # <<>> /\ wire[1].kind = "success"

\* or opens a new one,
Opened == wire' = <<>> /\ shown' = <<>> /\ badge' = "RUNNING"

\* or takes the event that is next.
Took(page) ==
    /\ Dropped
    /\ UNCHANGED <<phase, conn, truncated, currentEs, last, logged, result>>
    /\ \/ wire[1].kind = "line" /\ page = Append(shown, <<last, wire[1].data>>)
          /\ badge' = badge
       \/ wire[1].kind # "line" /\ page = shown
          /\ (badge' = badge \/ wire[1].kind = "success")
    /\ shown' = page

\* The server sends a line,
SentLine ==
    /\ Live /\ phase[currentEs] = "running" /\ result = "none"
    /\ Len(wire) <= WireCap /\ Len(logged) \in Nat
    /\ \A i \in 1..Len(wire) : wire[i].kind = "line"
    /\ Grown(Event("line", Len(logged) + 1)) /\ Len(logged') = Len(logged) + 1
    /\ UNCHANGED <<phase, conn, currentEs, last, result, shown, badge>>

\* or another event,
SentOther(e) ==
    /\ Live /\ ~OnWire("end") /\ Len(wire) <= WireCap
    /\ Grown(e) /\ UNCHANGED <<conn, currentEs, last, logged, shown, badge>>
    /\ \/ e.kind = "notice" /\ truncated'[currentEs] /\ phase'[currentEs] = "running"
          /\ phase[currentEs] = "running" /\ result' = result
       \/ e.kind \in {"success", "error"} /\ phase'[currentEs] = "reported"
          /\ result = "none" /\ result' = e.kind
          /\ (e.kind = "success" => e.data = Summary(logged))
       \/ e.kind = "end" /\ phase'[currentEs] = "over" /\ result' = result

\* or turns the request down.
Refused ==
    /\ Live /\ wire = <<>> /\ phase'[currentEs] = "over"
    /\ wire' = <<EndEvent>> \/ wire' = <<ErrorEvent, EndEvent>>
    /\ UNCHANGED <<conn, currentEs, last, logged, result, shown, badge>>

\* The connection breaks.
BrokenOff(n) ==
    /\ Live /\ ~Live' /\ ~OnWire("end") /\ n \in 0..Len(wire) /\ Cut(n)
    /\ UNCHANGED <<currentEs, last, logged, result, shown, badge>>

SeenByPage ==
    \/ Unseen \/ Closed \/ Opened \/ \E page : Took(page)
    \/ SentLine \/ (\E e \in EventType : SentOther(e)) \/ Refused
    \/ \E n \in Nat : BrokenOff(n)

\* Nothing ends a stream before its run.
LEMMA NoEndYet ==
  ASSUME Types, WireInv, Live, phase[currentEs] # "over"
  PROVE  ~OnWire("end")
<1>0. Len(wire) \in Nat
  BY LenProperties DEF Types, PageType
<1>1. CASE phase[currentEs] = "waiting"
  BY <1>0, <1>1 DEF WireInv, OnWire
<1>2. CASE phase[currentEs] = "running"
  BY <1>2 DEF WireInv, OnWire
<1>3. CASE phase[currentEs] = "reported"
  BY <1>3 DEF WireInv
<1>4. currentEs \in Requests
  BY DEF Types, PageType, Live
<1>5. QED
  BY <1>1, <1>2, <1>3, <1>4 DEF Types, ServerType

\* The steps of the page.
LEMMA PageKinds ==
  ASSUME Types, StreamInv, LoadTools \/ ClearOutput \/ Reload \/ Receive
  PROVE  Unseen \/ Closed \/ \E page : Took(page)
<1>0. wire \in Seq(EventType)
  BY DEF Types, PageType
<1>1. CASE LoadTools \/ ClearOutput
  <2>1. /\ UNCHANGED <<wire, currentEs, last, conn, phase, truncated, result, logged>>
        /\ shown' = shown \/ shown' = <<>>
        /\ badge' = badge \/ badge' = "OFFLINE"
    BY <1>1 DEF LoadTools, ClearOutput, serverVars, ledgerVars, history
  <2>2. QED
    BY <2>1 DEF Unseen, Live
<1>2. CASE Reload \/ OnFailure \/ onerror
  BY <1>2 DEF Reload, OnFailure, onerror, cleanupConnection, history, Closed
<1>3. CASE OnLine
  <2>1. Dropped /\ Head(wire) = wire[1]
    BY <1>0, <1>3, DroppedFacts DEF OnLine, Incoming, KeepStream
  <2>2. currentEs = last
    BY <1>3 DEF OnLine, Incoming, StreamInv
  <2>3. UNCHANGED <<phase, conn, truncated, currentEs, last, logged, result, badge>>
    BY <1>3 DEF OnLine, KeepStream, serverVars, ledgerVars, history
  <2>4. Took(shown')
    BY <1>3, <2>1, <2>2, <2>3 DEF OnLine, Took
  <2>5. QED
    BY <2>4
<1>4. CASE OnSuccess
  <2>1. UNCHANGED <<phase, conn, truncated, last, logged, result, shown>>
    BY <1>4 DEF OnSuccess, serverVars, ledgerVars, history
  <2>2. wire # <<>> /\ Head(wire).kind = "success"
    BY <1>4 DEF OnSuccess, Incoming
  <2>3. Head(wire) = wire[1]
    BY <1>0, <2>2, HeadTailProperties
  <2>4. CASE KeepStream
    <3>1. Dropped /\ UNCHANGED currentEs
      BY <1>0, <2>2, <2>4, DroppedFacts DEF KeepStream
    <3>2. Took(shown)
      BY <2>1, <2>2, <2>3, <3>1 DEF Took
    <3>3. QED
      BY <3>2
  <2>5. CASE cleanupConnection
    BY <2>1, <2>2, <2>3, <2>5 DEF cleanupConnection, Closed
  <2>6. QED
    BY <1>4, <2>4, <2>5 DEF OnSuccess
<1>5. QED
  BY <1>1, <1>2, <1>3, <1>4 DEF Receive

\* The steps of a request whose events do not reach the page.
LEMMA AwayKinds ==
  ASSUME Types, StreamInv, NEW r \in Requests, ~(r = currentEs /\ conn[r]),
         \/ Accept(r) \/ TurnDown(r) \/ Output(r) \/ Finally(r) \/ Hangup(r)
         \/ \E kind \in {"success", "error"} : ReportRun(r, kind)
  PROVE  Unseen
<1>0. ServerType
  BY DEF Types
<1>1. wire' = wire
  BY DEF Accept, TurnDown, Output, Finally, Hangup, ReportRun, Yield
<1>2. UNCHANGED <<currentEs, last, shown, badge>>
  BY DEF Accept, TurnDown, Output, Finally, Hangup, ReportRun, pageVars, history
<1>3. Live' => Live /\ currentEs # r
  <2>1. conn' = conn \/ conn' = [conn EXCEPT ![r] = FALSE]
    BY DEF Accept, TurnDown, Output, Finally, Hangup, ReportRun
  <2>2. currentEs \in Requests \cup {NoStream} /\ conn \in [Requests -> BOOLEAN]
    BY <1>0 DEF Types, PageType, ServerType
  <2>3. CASE conn' = conn
    BY <1>2, <2>3 DEF Live
  <2>4. CASE conn' = [conn EXCEPT ![r] = FALSE]
    BY <1>2, <2>2, <2>4 DEF Live
  <2>5. QED
    BY <2>1, <2>3, <2>4
<1>4. ASSUME NEW q \in Requests, q # r PROVE truncated'[q] = truncated[q]
  <2>1. truncated' = truncated \/ \E x \in BOOLEAN : truncated' = [truncated EXCEPT ![r] = x]
    BY DEF Accept, TurnDown, Output, Finally, Hangup, ReportRun
  <2>2. QED
    BY <1>0, <1>4, <2>1 DEF ServerType
<1>5. ASSUME NEW q \in Requests, q # r PROVE phase'[q] = phase[q]
  <2>1. phase' = phase \/ \E x : phase' = [phase EXCEPT ![r] = x]
    BY DEF Accept, Take, TurnDown, Decline, Output, Finally, Release, Hangup, ReportRun,
       Report, ledgerVars
  <2>2. QED
    BY <1>0, <1>5, <2>1 DEF ServerType
<1>a. Live => currentEs \in Requests
  BY DEF Live, Types, PageType
<1>6. r = last /\ phase[r] = "running" => result = "none"
  BY DEF StreamInv
<1>7. result' = result \/ result = "none"
  BY <1>6 DEF Accept, TurnDown, Output, Finally, Hangup, ReportRun, Report, history
<1>8. logged' = logged \/ (result = "none" /\ ~Live')
  <2>1. CASE Output(r) /\ r = last
    BY <1>3, <1>6, <2>1 DEF Output, StreamInv, Live
  <2>2. QED
    BY <2>1 DEF Accept, TurnDown, Output, Finally, Hangup, ReportRun, history
<1>9. QED
  BY <1>1, <1>2, <1>3, <1>4, <1>5, <1>7, <1>8, <1>a DEF Unseen

\* The steps of the request of the open stream.
LEMMA HereKinds ==
  ASSUME Types, RequestInv, StreamInv, WireInv, NEW r \in Requests, r = currentEs, conn[r],
         \/ Accept(r) \/ TurnDown(r) \/ Output(r) \/ Finally(r) \/ Hangup(r)
         \/ \E kind \in {"success", "error"} : ReportRun(r, kind)
  PROVE  Unseen \/ SentLine \/ (\E e \in EventType : SentOther(e)) \/ Refused
<1>0. ServerType /\ wire \in Seq(EventType) /\ Len(wire) \in Nat /\ RequestOk(r)
  BY LenProperties DEF Types, PageType, RequestInv
<1>1. Live /\ r = last
  BY ConstantFacts DEF Live, StreamInv
<1>2. phase[r] = "running" => result = "none" /\ ~OnWire("end") /\ logged = log_content[r]
  <2> SUFFICES ASSUME phase[r] = "running"
               PROVE  result = "none" /\ ~OnWire("end") /\ logged = log_content[r]
    OBVIOUS
  <2>1. ~OnWire("end")
    BY <1>1, NoEndYet
  <2>2. last # NoStream
    BY <1>1, ConstantFacts
  <2>3. QED
    BY <1>1, <2>1, <2>2 DEF StreamInv
<1>3. ASSUME NEW e \in EventType, Yield(r, <<e>>) PROVE Grown(e)
  BY <1>0, <1>3, GrownFacts DEF Yield
<1>4. CASE Accept(r)
  <2>1. phase[r] = "waiting"
    BY <1>4 DEF Accept, Take
  <2>2. wire = <<>>
    BY <1>1, <2>1 DEF WireInv
  <2>3. QED
    BY <1>1, <1>4, <2>2 DEF Accept, pageVars, history, Unseen, Live
<1>5. CASE TurnDown(r)
  <2>1. phase[r] = "waiting" /\ phase' = [phase EXCEPT ![r] = "over"]
    BY <1>5 DEF TurnDown, Decline
  <2>2. wire = <<>> /\ phase'[currentEs] = "over"
    BY <1>0, <1>1, <2>1 DEF WireInv, ServerType
  <2>3. wire' = wire \o <<EndEvent>> \/ wire' = wire \o <<ErrorEvent, EndEvent>>
    BY <1>5 DEF TurnDown, Yield
  <2>4. wire' = <<EndEvent>> \/ wire' = <<ErrorEvent, EndEvent>>
    <3>1. <<EndEvent>> \in Seq(EventType) /\ <<ErrorEvent, EndEvent>> \in Seq(EventType)
      BY EventFacts
    <3>2. QED
      BY <2>2, <2>3, <3>1, ConcatEmptySeq
  <2>5. QED
    BY <1>1, <1>5, <2>2, <2>4 DEF TurnDown, pageVars, history, Refused
<1>6. CASE Output(r)
  <2>1. /\ phase[r] = "running" /\ Len(wire) <= WireCap
        /\ UNCHANGED <<phase, conn, currentEs, last, shown, badge, result>>
        /\ logged' = log_content'[r]
    BY <1>1, <1>6 DEF Output, Sent, ledgerVars, pageVars
  <2>2. log_content[r] \in Seq(Lines) /\ Len(log_content[r]) \in Nat
    BY <1>0, LenProperties DEF ServerType
  <2>3. CASE Len(log_content[r]) < MAX_OUTPUT_LINES
    <3>1. PICK line \in Lines : log_content' = [log_content EXCEPT ![r] = Append(@, line)]
      BY <1>6, <2>2, <2>3, ConstantFacts DEF Output
    <3>2. log_content'[r] = Append(log_content[r], line)
      BY <1>0, <3>1 DEF ServerType
    <3>3. Len(logged') = Len(logged) + 1
      BY <1>2, <2>1, <2>2, <3>2, AppendProperties
    <3>4. ~truncated[r]
      BY <1>0, <2>2, <2>3, ConstantFacts DEF RequestOk
    <3>5. \A i \in 1..Len(wire) : wire[i].kind = "line"
      BY <1>1, <2>1, <3>4 DEF WireInv
    <3>6. Yield(r, <<Event("line", Len(logged) + 1)>>)
      BY <1>2, <1>6, <2>1, <2>2, <2>3, ConstantFacts DEF Output
    <3>7. Event("line", Len(logged) + 1) \in EventType
      BY <1>2, <2>1, <2>2, EventFacts DEF Kinds
    <3>8. Grown(Event("line", Len(logged) + 1))
      BY <1>3, <3>6, <3>7
    <3>9. QED
      BY <1>1, <1>2, <2>1, <2>2, <3>3, <3>5, <3>8 DEF SentLine
  <2>4. CASE ~(Len(log_content[r]) < MAX_OUTPUT_LINES)
    <3>1. /\ truncated' = [truncated EXCEPT ![r] = TRUE] /\ UNCHANGED log_content
          /\ Yield(r, <<Event("notice", 0)>>)
      BY <1>6, <2>4 DEF Output
    <3>2. Event("notice", 0) \in EventType /\ Event("notice", 0).kind = "notice"
      BY EventFacts DEF Kinds
    <3>3. Grown(Event("notice", 0))
      BY <1>3, <3>1, <3>2
    <3>4. truncated'[currentEs]
      BY <1>0, <3>1 DEF ServerType
    <3>5. logged' = logged
      BY <1>2, <2>1, <3>1
    <3>6. SentOther(Event("notice", 0))
      BY <1>1, <1>2, <2>1, <3>2, <3>3, <3>4, <3>5 DEF SentOther
    <3>7. QED
      BY <3>2, <3>6
  <2>5. QED
    BY <2>3, <2>4
<1>7. CASE Finally(r)
  <2>1. /\ phase[r] = "reported" /\ Len(wire) <= WireCap
        /\ phase' = [phase EXCEPT ![r] = "over"]
        /\ Yield(r, <<EndEvent>>)
    BY <1>7 DEF Finally, Sent, Release
  <2>2. UNCHANGED <<conn, currentEs, last, logged, shown, badge, result>>
    BY <1>7 DEF Finally, pageVars, history
  <2>3. EndEvent \in EventType /\ EndEvent.kind = "end"
    BY EventFacts
  <2>4. Grown(EndEvent) /\ ~OnWire("end")
    BY <1>1, <1>3, <2>1, <2>3, NoEndYet
  <2>5. phase'[currentEs] = "over"
    BY <1>0, <2>1 DEF ServerType
  <2>6. SentOther(EndEvent)
    BY <1>1, <2>1, <2>2, <2>3, <2>4, <2>5 DEF SentOther
  <2>7. QED
    BY <2>3, <2>6
<1>8. ASSUME NEW kind \in {"success", "error"}, ReportRun(r, kind)
      PROVE  \E e \in EventType : SentOther(e)
  <2>1. /\ phase[r] = "running" /\ Len(wire) <= WireCap
        /\ phase' = [phase EXCEPT ![r] = "reported"] /\ result' = kind
        /\ UNCHANGED <<conn, currentEs, last, logged, shown, badge>>
    BY <1>1, <1>8 DEF ReportRun, Report, Sent, pageVars
  <2>2. phase'[currentEs] = "reported"
    BY <1>0, <2>1 DEF ServerType
  <2>3. PICK e \in EventType : /\ e.kind = kind /\ Yield(r, <<e>>)
                               /\ e.kind = "success" => e.data = Summary(logged)
    <3>1. CASE kind = "error"
      BY <1>8, <3>1, EventFacts DEF ReportRun
    <3>2. CASE kind = "success"
      <4>1. PICK s \in Summaries : /\ s.log = log_content[r]
                                   /\ Yield(r, <<Event("success", s.summary)>>)
        BY <1>8, <3>2 DEF ReportRun
      <4>2. s.summary = Summary(s.log) /\ logged = log_content[r]
        BY <1>2, <2>1 DEF Summaries
      <4>3. Event("success", s.summary).data = Summary(logged)
        BY <4>1, <4>2 DEF Event
      <4>4. QED
        BY <3>2, <4>1, <4>3, EventFacts
    <3>3. QED
      BY <3>1, <3>2
  <2>4. Grown(e)
    BY <1>3, <2>3
  <2>5. SentOther(e)
    BY <1>1, <1>2, <2>1, <2>2, <2>3, <2>4 DEF SentOther
  <2>6. QED
    BY <2>5
<1>9. ~Hangup(r)
  BY DEF Hangup
<1>10. QED
  BY <1>4, <1>5, <1>6, <1>7, <1>8, <1>9

\* Every step is of one of these kinds.
LEMMA SeenStep ==
  ASSUME Types, RequestInv, StreamInv, WireInv, [DashboardNext]_allVars
  PROVE  SeenByPage
<1>1. CASE LoadTools \/ ClearOutput \/ Reload \/ Receive
  BY <1>1, PageKinds DEF SeenByPage
<1>2. CASE Break
  <2>0. wire \in Seq(EventType) /\ Len(wire) \in Nat /\ conn \in [Requests -> BOOLEAN]
    BY LenProperties DEF Types, PageType, ServerType
  <2>1. PICK n \in 0..Len(wire) : wire' = Append(SubSeq(wire, 1, n), EndEvent)
    BY <1>2 DEF Break
  <2>2. Cut(n) /\ n \in Nat
    BY <2>0, <2>1, CutFacts
  <2>3. currentEs \in Requests /\ Live
    BY <1>2 DEF Break, Types, PageType, Live
  <2>4. UNCHANGED <<currentEs, last, logged, result, shown, badge>>
    BY <1>2 DEF Break, pageVars, history
  <2>5. ~Live'
    BY <1>2, <2>0, <2>3, <2>4 DEF Break, Live
  <2>6. ~OnWire("end")
    BY <1>2, <2>0, LenProperties DEF Break, OnWire
  <2>7. BrokenOff(n)
    BY <2>2, <2>3, <2>4, <2>5, <2>6 DEF BrokenOff
  <2>8. QED
    BY <2>2, <2>7 DEF SeenByPage
<1>3. ASSUME NEW t \in Tools, Click(t) PROVE SeenByPage
  BY <1>3 DEF Click, Opened, SeenByPage
<1>4. ASSUME NEW r \in Requests,
             \/ Accept(r) \/ TurnDown(r) \/ Output(r) \/ Finally(r) \/ Hangup(r)
             \/ \E kind \in {"success", "error"} : ReportRun(r, kind)
      PROVE  SeenByPage
  BY <1>4, AwayKinds, HereKinds DEF SeenByPage
<1>5. CASE UNCHANGED allVars
  BY <1>5 DEF allVars, serverVars, ledgerVars, pageVars, history, Unseen, Live, SeenByPage
<1>6. QED
  BY <1>1, <1>2, <1>3, <1>4, <1>5 DEF DashboardNext

-----------------------------------------------------------------------------
(* The wire *)

\* Events stay in order.
LEMMA OrderInvStep ==
  ASSUME Types, OrderInv, WireInv, LastInv, SeenByPage
  PROVE  OrderInv'
<1>0. Len(wire) \in Nat
  BY LenProperties DEF Types, PageType
<1> DEFINE InOrder(w, i, j) ==
      /\ w[i].kind # "end"
      /\ w[j].kind = "line" => w[i].kind = "line" /\ w[j].data = w[i].data + (j - i)
<1>a. /\ \A i, j \in 1..Len(wire) : i < j => InOrder(wire, i, j)
      /\ \A i \in 1..Len(wire) : wire[i].kind = "line" => wire[i].data \in Nat
  BY DEF OrderInv
<1>b. ASSUME /\ \A i, j \in 1..Len(wire') : i < j => InOrder(wire', i, j)
             /\ \A i \in 1..Len(wire') : wire'[i].kind = "line" => wire'[i].data \in Nat
      PROVE  OrderInv'
  BY <1>b DEF OrderInv
<1>1. CASE Unseen
  BY <1>1 DEF Unseen, OrderInv
<1>2. CASE Closed \/ Opened
  <2>1. wire' = <<>>
    BY <1>2 DEF Closed, Opened
  <2>2. Len(wire') = 0
    BY <2>1, EmptySeq
  <2>3. QED
    BY <1>b, <2>2
<1>3. ASSUME NEW page, Took(page) PROVE OrderInv'
  <2>1. Len(wire') = Len(wire) - 1 /\ \A i \in 1..Len(wire') : wire'[i] = wire[i + 1]
    BY <1>3 DEF Took, Dropped
  <2>2. ASSUME NEW i \in 1..Len(wire'), NEW j \in 1..Len(wire'), i < j
        PROVE  InOrder(wire', i, j)
    <3>1. i + 1 \in 1..Len(wire) /\ j + 1 \in 1..Len(wire) /\ i + 1 < j + 1
          /\ (j + 1) - (i + 1) = j - i
      BY <1>0, <2>1, <2>2
    <3>2. InOrder(wire, i + 1, j + 1)
      BY <1>a, <3>1
    <3>3. QED
      BY <2>1, <3>1, <3>2
  <2>3. ASSUME NEW i \in 1..Len(wire'), wire'[i].kind = "line" PROVE wire'[i].data \in Nat
    <3>1. i + 1 \in 1..Len(wire)
      BY <1>0, <2>1
    <3>2. QED
      BY <1>a, <2>1, <2>3, <3>1
  <2>4. QED
    BY <1>b, <2>2, <2>3
<1>4. CASE SentLine
  <2> DEFINE e == Event("line", Len(logged) + 1)
             n == Len(wire)
  <2>1. /\ Len(wire') = n + 1 /\ \A i \in 1..n : wire'[i] = wire[i]
        /\ wire'[n + 1] = e /\ Len(logged) \in Nat
        /\ \A i \in 1..n : wire[i].kind = "line"
    BY <1>4 DEF SentLine, Grown
  <2>2. e.kind = "line" /\ e.data = Len(logged) + 1
    BY <2>1, EventFacts DEF Kinds
  <2>3. n # 0 => wire[n].data = Len(logged)
    <3>1. Whole
      BY <1>4 DEF SentLine, Whole
    <3>2. n # 0 => n \in 1..Len(wire) /\ wire[n].kind = "line"
      BY <1>0, <2>1
    <3>3. QED
      BY <3>1, <3>2 DEF LastInv
  <2> HIDE DEF e
  <2>4. ASSUME NEW i \in 1..Len(wire'), NEW j \in 1..Len(wire'), i < j
        PROVE  InOrder(wire', i, j)
    <3>1. i \in 1..n
      BY <1>0, <2>1, <2>4
    <3>2. CASE j \in 1..n
      <4>1. InOrder(wire, i, j)
        BY <1>a, <2>4, <3>1, <3>2
      <4>2. QED
        BY <2>1, <3>1, <3>2, <4>1
    <3>3. CASE j = n + 1
      <4>1. wire[i].data \in Nat /\ wire[i].kind = "line"
        BY <1>a, <2>1, <3>1
      <4>2. wire[n].data = wire[i].data + (n - i)
        <5>1. CASE i = n
          BY <1>0, <4>1, <5>1
        <5>2. CASE i < n
          <6>1. n \in 1..n
            BY <1>0, <3>1
          <6>2. InOrder(wire, i, n) /\ wire[n].kind = "line"
            BY <1>a, <2>1, <3>1, <5>2, <6>1
          <6>3. QED
            BY <6>2
        <5>3. QED
          BY <1>0, <3>1, <5>1, <5>2
      <4>3. e.data = wire[i].data + (j - i)
        BY <1>0, <2>1, <2>2, <2>3, <3>1, <3>3, <4>1, <4>2
      <4>4. QED
        BY <2>1, <2>2, <3>1, <3>3, <4>1, <4>3
    <3>4. QED
      BY <1>0, <2>1, <3>2, <3>3
  <2>5. ASSUME NEW i \in 1..Len(wire'), wire'[i].kind = "line" PROVE wire'[i].data \in Nat
    <3>1. CASE i \in 1..n
      BY <1>a, <2>1, <2>5, <3>1
    <3>2. CASE i = n + 1
      BY <2>1, <2>2, <3>2
    <3>3. QED
      BY <1>0, <2>1, <3>1, <3>2
  <2>6. QED
    BY <1>b, <2>4, <2>5
<1>5. ASSUME NEW e \in EventType, NEW n \in Nat, n <= Len(wire), e.kind # "line",
             Len(wire') = n + 1, \A i \in 1..n : wire'[i] = wire[i], wire'[n + 1] = e,
             ~OnWire("end")
      PROVE  OrderInv'
  <2>1. \A i \in 1..n : i \in 1..Len(wire)
    BY <1>0, <1>5
  <2>2. ASSUME NEW i \in 1..Len(wire'), NEW j \in 1..Len(wire'), i < j
        PROVE  InOrder(wire', i, j)
    <3>1. i \in 1..n
      BY <1>5, <2>2
    <3>2. wire[i].kind # "end"
      BY <1>5, <2>1, <3>1 DEF OnWire
    <3>3. CASE j \in 1..n
      <4>1. InOrder(wire, i, j)
        BY <1>a, <2>1, <2>2, <3>1, <3>3
      <4>2. QED
        BY <1>5, <3>1, <3>3, <4>1
    <3>4. CASE j = n + 1
      BY <1>5, <3>1, <3>2, <3>4
    <3>5. QED
      BY <1>5, <3>3, <3>4
  <2>3. ASSUME NEW i \in 1..Len(wire'), wire'[i].kind = "line" PROVE wire'[i].data \in Nat
    <3>1. i \in 1..n
      BY <1>5, <2>3
    <3>2. QED
      BY <1>5, <1>a, <2>1, <2>3, <3>1
  <2>4. QED
    BY <1>b, <2>2, <2>3
<1>6. ASSUME NEW e \in EventType, SentOther(e) PROVE OrderInv'
  <2>1. /\ Len(wire') = Len(wire) + 1 /\ \A i \in 1..Len(wire) : wire'[i] = wire[i]
        /\ wire'[Len(wire) + 1] = e /\ e.kind # "line" /\ ~OnWire("end")
    BY <1>6 DEF SentOther, Grown
  <2>2. Len(wire) <= Len(wire)
    BY <1>0
  <2>3. QED
    BY <1>0, <1>5, <2>1, <2>2
<1>7. CASE Refused
  <2>1. CASE wire' = <<EndEvent>>
    <3>1. Len(wire') = 1 /\ wire'[1].kind = "end"
      BY <2>1, EventFacts
    <3>2. QED
      BY <1>b, <3>1
  <2>2. CASE wire' = <<ErrorEvent, EndEvent>>
    <3>1. Len(wire') = 2 /\ wire'[1].kind = "error" /\ wire'[2].kind = "end"
      BY <2>2, EventFacts
    <3>2. QED
      BY <1>b, <3>1
  <2>3. QED
    BY <1>7, <2>1, <2>2 DEF Refused
<1>8. ASSUME NEW n \in Nat, BrokenOff(n) PROVE OrderInv'
  <2>1. /\ n <= Len(wire) /\ Len(wire') = n + 1 /\ \A i \in 1..n : wire'[i] = wire[i]
        /\ wire'[n + 1] = EndEvent /\ ~OnWire("end")
    BY <1>8 DEF BrokenOff, Cut
  <2>2. EndEvent \in EventType /\ EndEvent.kind # "line"
    BY EventFacts
  <2>3. QED
    BY <1>5, <2>1, <2>2
<1>9. QED
  BY <1>1, <1>2, <1>3, <1>4, <1>6, <1>7, <1>8 DEF SeenByPage

\* What WireInv says of an open connection.
WireAgrees ==
    /\ phase[currentEs] = "waiting" => wire = <<>>
    /\ phase[currentEs] = "running" => \A i \in 1..Len(wire) :
          wire[i].kind = "line" \/ (wire[i].kind = "notice" /\ truncated[currentEs])
    /\ phase[currentEs] = "reported" => ~OnWire("end")

\* The wire goes on agreeing with the server, and within its bound.
LEMMA WireInvStep ==
  ASSUME Types, StreamInv, WireInv, SeenByPage
  PROVE  WireInv'
<1>0. /\ Len(wire) \in Nat /\ WireCap \in Nat
      /\ OnWire("success") => result = "success"
      /\ Live => WireAgrees
      /\ Len(wire) <= WireCap + 2 /\ (~OnWire("end") => Len(wire) <= WireCap + 1)
  BY LenProperties, ConstantFacts DEF Types, PageType, WireInv, WireAgrees
<1>a. ASSUME OnWire("success")' => result' = "success",
             Live' => WireAgrees',
             Len(wire') <= WireCap + 2,
             ~OnWire("end")' => Len(wire') <= WireCap + 1
      PROVE  WireInv'
  BY <1>a DEF WireInv, WireAgrees
<1>1. CASE Unseen
  <2>1. wire' = wire /\ currentEs' = currentEs
    BY <1>1 DEF Unseen
  <2>2. OnWire("success")' => result' = "success"
    BY <1>0, <1>1, <2>1 DEF Unseen, OnWire
  <2>3. Live' => WireAgrees'
    <3> SUFFICES ASSUME Live' PROVE WireAgrees'
      OBVIOUS
    <3>1. /\ Live /\ truncated'[currentEs] = truncated[currentEs]
          /\ phase'[currentEs] = phase[currentEs] \/ wire = <<>>
      BY <1>1 DEF Unseen
    <3>2. CASE wire = <<>>
      <4>1. Len(wire') = 0
        BY <2>1, <3>2, EmptySeq
      <4>2. QED
        BY <2>1, <3>2, <4>1 DEF WireAgrees, OnWire
    <3>3. CASE phase'[currentEs] = phase[currentEs]
      BY <1>0, <2>1, <3>1, <3>3 DEF WireAgrees, OnWire
    <3>4. QED
      BY <3>1, <3>2, <3>3
  <2>4. QED
    BY <1>0, <1>a, <2>1, <2>2, <2>3 DEF OnWire
<1>2. CASE Closed \/ Opened
  <2>1. wire' = <<>>
    BY <1>2 DEF Closed, Opened
  <2>2. Len(wire') = 0
    BY <2>1, EmptySeq
  <2>3. QED
    BY <1>0, <1>a, <2>1, <2>2 DEF WireAgrees, OnWire
<1>3. ASSUME NEW page, Took(page) PROVE WireInv'
  <2>1. /\ Len(wire') = Len(wire) - 1 /\ \A i \in 1..Len(wire') : wire'[i] = wire[i + 1]
        /\ wire # <<>> /\ Len(wire) > 0
        /\ UNCHANGED <<phase, conn, truncated, currentEs, result>>
    BY <1>3 DEF Took, Dropped
  <2>2. \A i \in 1..Len(wire') : i + 1 \in 1..Len(wire)
    BY <1>0, <2>1
  <2>3. ASSUME NEW kind, OnWire(kind)' PROVE OnWire(kind)
    BY <2>1, <2>2, <2>3 DEF OnWire
  <2>4. Live' => WireAgrees'
    <3> SUFFICES ASSUME Live' PROVE WireAgrees'
      OBVIOUS
    <3>1. Live
      BY <2>1 DEF Live
    <3>2. phase'[currentEs'] # "waiting"
      BY <1>0, <2>1, <3>1 DEF WireAgrees
    <3>3. phase'[currentEs'] = "running" => \A i \in 1..Len(wire') :
            wire'[i].kind = "line" \/ (wire'[i].kind = "notice" /\ truncated'[currentEs'])
      BY <1>0, <2>1, <2>2, <3>1 DEF WireAgrees
    <3>4. phase'[currentEs'] = "reported" => ~OnWire("end")'
      BY <1>0, <2>1, <2>3, <3>1 DEF WireAgrees
    <3>5. QED
      BY <3>2, <3>3, <3>4 DEF WireAgrees
  <2>5. QED
    BY <1>0, <1>a, <2>1, <2>3, <2>4
<1>4. CASE SentLine
  <2> DEFINE e == Event("line", Len(logged) + 1)
             n == Len(wire)
  <2>1. /\ Len(wire') = n + 1 /\ \A i \in 1..n : wire'[i] = wire[i]
        /\ wire'[n + 1] = e /\ Len(logged) \in Nat /\ n <= WireCap
        /\ \A i \in 1..n : wire[i].kind = "line"
    BY <1>4 DEF SentLine, Grown
  <2>2. e.kind = "line"
    BY <2>1, EventFacts DEF Kinds
  <2> HIDE DEF e
  <2>3. \A i \in 1..Len(wire') : wire'[i].kind = "line"
    BY <1>0, <2>1, <2>2
  <2>4. ~OnWire("success")' /\ ~OnWire("end")'
    BY <2>3 DEF OnWire
  <2>5. Live /\ UNCHANGED <<phase, conn, currentEs>>
    BY <1>4 DEF SentLine
  <2>6. WireAgrees'
    <3>1. phase[currentEs] = "running"
      BY <1>4 DEF SentLine
    <3>2. QED
      BY <2>3, <2>4, <2>5, <3>1 DEF WireAgrees
  <2>7. QED
    BY <1>0, <1>a, <2>1, <2>4, <2>6
<1>5. ASSUME NEW e \in EventType, SentOther(e) PROVE WireInv'
  <2> DEFINE n == Len(wire)
  <2>1. /\ Len(wire') = n + 1 /\ \A i \in 1..n : wire'[i] = wire[i]
        /\ wire'[n + 1] = e /\ n <= WireCap /\ Live /\ ~OnWire("end")
        /\ UNCHANGED <<conn, currentEs>>
    BY <1>5 DEF SentOther, Grown
  <2>2. \A i \in 1..Len(wire') : i \in 1..n \/ i = n + 1
    BY <1>0, <2>1
  <2>3. ASSUME NEW kind, OnWire(kind)' PROVE OnWire(kind) \/ e.kind = kind
    BY <2>1, <2>2, <2>3 DEF OnWire
  <2>4. OnWire("success")' => result' = "success"
    <3>1. e.kind = "success" => result' = "success"
      BY <1>5 DEF SentOther
    <3>2. OnWire("success") => result' = result
      BY <1>0, <1>5 DEF SentOther
    <3>3. QED
      BY <1>0, <2>3, <3>1, <3>2
  <2>5. WireAgrees'
    <3>1. CASE e.kind = "notice"
      <4>1. phase'[currentEs'] = "running" /\ truncated'[currentEs'] /\ phase[currentEs] = "running"
        BY <1>5, <2>1, <3>1 DEF SentOther
      <4>2. \A i \in 1..n : wire[i].kind = "line" \/ wire[i].kind = "notice"
        BY <1>0, <2>1, <4>1 DEF WireAgrees
      <4>3. \A i \in 1..Len(wire') : wire'[i].kind = "line" \/ wire'[i].kind = "notice"
        BY <2>1, <2>2, <3>1, <4>2
      <4>4. QED
        BY <4>1, <4>3 DEF WireAgrees
    <3>2. CASE e.kind \in {"success", "error"}
      <4>1. phase'[currentEs'] = "reported"
        BY <1>5, <2>1, <3>2 DEF SentOther
      <4>2. ~OnWire("end")'
        BY <2>1, <2>3, <3>2
      <4>3. QED
        BY <4>1, <4>2 DEF WireAgrees
    <3>3. CASE e.kind = "end"
      <4>1. phase'[currentEs'] = "over"
        BY <1>5, <2>1, <3>3 DEF SentOther
      <4>2. QED
        BY <4>1 DEF WireAgrees
    <3>4. QED
      BY <1>5, <3>1, <3>2, <3>3 DEF SentOther
  <2>6. Len(wire') <= WireCap + 1
    BY <1>0, <2>1
  <2>7. QED
    BY <1>0, <1>a, <2>4, <2>5, <2>6
<1>6. CASE Refused
  <2>1. /\ Len(wire') \in 1..2 /\ wire'[Len(wire')].kind = "end"
        /\ \A i \in 1..Len(wire') : wire'[i].kind # "success"
    <3>1. CASE wire' = <<EndEvent>>
      BY <3>1, EventFacts
    <3>2. CASE wire' = <<ErrorEvent, EndEvent>>
      <4>1. Len(wire') = 2 /\ wire'[1].kind = "error" /\ wire'[2].kind = "end"
        BY <3>2, EventFacts
      <4>2. QED
        BY <4>1
    <3>3. QED
      BY <1>6, <3>1, <3>2 DEF Refused
  <2>2. OnWire("end")' /\ ~OnWire("success")'
    BY <2>1 DEF OnWire
  <2>3. phase'[currentEs'] = "over"
    BY <1>6 DEF Refused
  <2>4. WireAgrees'
    BY <2>3 DEF WireAgrees
  <2>5. QED
    BY <1>0, <1>a, <2>1, <2>2, <2>4
<1>7. ASSUME NEW n \in Nat, BrokenOff(n) PROVE WireInv'
  <2>1. /\ n <= Len(wire) /\ Len(wire') = n + 1 /\ \A i \in 1..n : wire'[i] = wire[i]
        /\ wire'[n + 1].kind = "end" /\ ~OnWire("end") /\ ~Live' /\ result' = result
    BY <1>7, EventFacts DEF BrokenOff, Cut
  <2>2. OnWire("end")'
    BY <2>1 DEF OnWire
  <2>3. OnWire("success")' => OnWire("success")
    <3>1. \A i \in 1..Len(wire') : (i \in 1..Len(wire) /\ i \in 1..n) \/ i = n + 1
      BY <1>0, <2>1
    <3>2. QED
      BY <2>1, <3>1 DEF OnWire
  <2>4. QED
    BY <1>0, <1>a, <2>1, <2>2, <2>3
<1>8. QED
  BY <1>1, <1>2, <1>3, <1>4, <1>5, <1>6, <1>7 DEF SeenByPage

\* What a line taken from the wire adds to the output box.
LEMMA TookLineFacts ==
  ASSUME Types, StreamInv, OrderInv, NEW page, Took(page), wire[1].kind = "line"
  PROVE  /\ Len(shown) \in Nat /\ Len(shown') = Len(shown) + 1
         /\ \A i \in 1..Len(shown) : shown'[i] = shown[i]
         /\ shown'[Len(shown) + 1] = <<last, wire[1].data>> /\ wire[1].data \in Nat
         /\ shown' # <<>> /\ badge' = badge
<1>1. shown \in Seq(Requests \X Nat) /\ Len(shown) \in Nat
  BY LenProperties DEF Types, PageType
<1>2. wire # <<>> /\ Len(wire) \in Nat \ {0}
  BY LenProperties DEF Took, Dropped, Types, PageType
<1>3. wire[1].data \in Nat
  <2>1. 1 \in 1..Len(wire)
    BY <1>2
  <2>2. QED
    BY <2>1 DEF OrderInv
<1>4. last \in Requests
  BY <1>2 DEF StreamInv, Types, PageType, HistoryType
<1>5. <<last, wire[1].data>> \in Requests \X Nat
  BY <1>3, <1>4
<1>6. shown' = Append(shown, <<last, wire[1].data>>) /\ badge' = badge
  BY DEF Took
<1>7. QED
  BY <1>1, <1>3, <1>5, <1>6, AppendProperties

\* The lines on the page stay without gaps, and the wire goes on from there.
LEMMA ShownInvStep ==
  ASSUME Types, StreamInv, OrderInv, WireInv, ShownInv, LastInv, SeenByPage
  PROVE  ShownInv'
<1> DEFINE Rows == \A i \in 1..Len(shown) :
                     shown[i][1] = last /\ (i > 1 => shown[i][2] = shown[i - 1][2] + 1)
           Joined == shown # <<>> /\ wire # <<>> /\ wire[1].kind = "line" =>
                       wire[1].data = shown[Len(shown)][2] + 1
           Done == badge = "SUCCESS" => result = "success" /\ ~OnWire("line")
<1>0. /\ Rows /\ Joined /\ Done
      /\ Len(wire) \in Nat /\ Len(shown) \in Nat
      /\ wire # <<>> => Len(wire) > 0
  BY LenProperties, EmptySeq DEF ShownInv, Types, PageType
<1>a. ASSUME Rows', Joined', Done' PROVE ShownInv'
  BY <1>a DEF ShownInv
<1>b. ASSUME shown' = shown \/ shown' = <<>>, last' = last PROVE Rows'
  <2>1. CASE shown' = shown
    BY <1>0, <1>b, <2>1
  <2>2. CASE shown' = <<>>
    <3>1. Len(shown') = 0
      BY <2>2, EmptySeq
    <3>2. QED
      BY <3>1
  <2>3. QED
    BY <1>b, <2>1, <2>2
<1>1. CASE Unseen
  <2>1. UNCHANGED <<wire, last>> /\ (shown' = shown \/ shown' = <<>>)
    BY <1>1 DEF Unseen
  <2>2. Rows'
    BY <1>b, <2>1
  <2>3. Joined'
    BY <1>0, <2>1
  <2>4. Done'
    BY <1>0, <1>1, <2>1 DEF Unseen, OnWire
  <2>5. QED
    BY <1>a, <2>2, <2>3, <2>4
<1>2. CASE Closed
  <2>1. wire' = <<>> /\ UNCHANGED <<last, result>> /\ (shown' = shown \/ shown' = <<>>)
    BY <1>2 DEF Closed
  <2>2. Len(wire') = 0
    BY <2>1, EmptySeq
  <2>3. Rows'
    BY <1>b, <2>1
  <2>4. Done'
    <3>1. badge' = "SUCCESS" => OnWire("success")
      BY <1>0, <1>2 DEF Closed, OnWire
    <3>2. QED
      BY <2>1, <2>2, <3>1 DEF OnWire, WireInv
  <2>5. QED
    BY <1>a, <2>1, <2>3, <2>4
<1>3. CASE Opened
  <2>1. wire' = <<>> /\ shown' = <<>> /\ badge' = "RUNNING"
    BY <1>3 DEF Opened
  <2>2. Len(shown') = 0
    BY <2>1, EmptySeq
  <2>3. QED
    BY <1>a, <2>1, <2>2
<1>4. ASSUME NEW page, Took(page) PROVE ShownInv'
  <2>1. /\ Len(wire') = Len(wire) - 1 /\ \A i \in 1..Len(wire') : wire'[i] = wire[i + 1]
        /\ UNCHANGED <<last, result>> /\ Len(wire) > 0 /\ wire # <<>>
        /\ wire' \in Seq(EventType)
    BY <1>4 DEF Took, Dropped
  <2>2. \A i \in 1..Len(wire') : i + 1 \in 1..Len(wire) /\ 1 < i + 1 /\ 1 \in 1..Len(wire)
    BY <1>0, <2>1
  <2>3. wire' # <<>> => 1 \in 1..Len(wire')
    BY <2>1, EmptySeq
  <2>4. CASE wire[1].kind = "line"
    <3>1. /\ Len(shown') = Len(shown) + 1 /\ \A i \in 1..Len(shown) : shown'[i] = shown[i]
          /\ shown'[Len(shown) + 1] = <<last, wire[1].data>> /\ wire[1].data \in Nat
          /\ shown' # <<>> /\ badge' = badge
      BY <1>4, <2>4, TookLineFacts
    <3>2. Rows'
      <4> SUFFICES ASSUME NEW i \in 1..Len(shown')
                   PROVE  shown'[i][1] = last /\ (i > 1 => shown'[i][2] = shown'[i - 1][2] + 1)
        BY <2>1
      <4>1. CASE i \in 1..Len(shown)
        <5>1. i > 1 => i - 1 \in 1..Len(shown)
          BY <1>0, <4>1
        <5>2. QED
          BY <1>0, <3>1, <4>1, <5>1
      <4>2. CASE i = Len(shown) + 1
        <5>1. shown'[i][1] = last /\ shown'[i][2] = wire[1].data
          BY <3>1, <4>2
        <5>2. i > 1 => i - 1 = Len(shown) /\ Len(shown) \in 1..Len(shown) /\ shown # <<>>
          BY <1>0, <4>2
        <5>3. i > 1 => wire[1].data = shown[Len(shown)][2] + 1
          BY <1>0, <2>1, <2>4, <5>2
        <5>4. i > 1 => shown'[i - 1] = shown[Len(shown)]
          BY <3>1, <5>2
        <5>5. QED
          BY <5>1, <5>3, <5>4
      <4>3. QED
        BY <1>0, <3>1, <4>1, <4>2
    <3>3. Joined'
      <4> SUFFICES ASSUME wire' # <<>>, wire'[1].kind = "line"
                   PROVE  wire'[1].data = shown'[Len(shown')][2] + 1
        OBVIOUS
      <4>1. wire'[1] = wire[2] /\ 2 \in 1..Len(wire) /\ 1 \in 1..Len(wire)
        BY <2>1, <2>2, <2>3
      <4>2. wire[2].data = wire[1].data + (2 - 1)
        BY <4>1 DEF OrderInv
      <4>3. shown'[Len(shown')][2] = wire[1].data
        BY <3>1
      <4>4. QED
        BY <3>1, <4>1, <4>2, <4>3
    <3>4. Done'
      <4>1. OnWire("line")
        BY <1>0, <2>1, <2>4 DEF OnWire
      <4>2. badge # "SUCCESS"
        BY <1>0, <4>1
      <4>3. QED
        BY <3>1, <4>2
    <3>5. QED
      BY <1>a, <3>2, <3>3, <3>4
  <2>5. CASE wire[1].kind # "line"
    <3>1. shown' = shown /\ (badge' = badge \/ wire[1].kind = "success")
      BY <1>4, <2>5 DEF Took
    <3>2. \A i \in 1..Len(wire') : wire'[i].kind # "line"
      BY <2>1, <2>2, <2>5 DEF OrderInv
    <3>3. ~OnWire("line")'
      BY <3>2 DEF OnWire
    <3>4. Rows'
      BY <1>b, <2>1, <3>1
    <3>5. Joined'
      BY <2>3, <3>2
    <3>6. wire[1].kind = "success" => result = "success"
      BY <1>0, <2>1 DEF WireInv, OnWire
    <3>7. Done'
      BY <1>0, <2>1, <3>1, <3>3, <3>6
    <3>8. QED
      BY <1>a, <3>4, <3>5, <3>7
  <2>6. QED
    BY <2>4, <2>5
<1>5. CASE SentLine
  <2> DEFINE e == Event("line", Len(logged) + 1)
             n == Len(wire)
  <2>1. /\ Len(wire') = n + 1 /\ \A i \in 1..n : wire'[i] = wire[i]
        /\ wire'[n + 1] = e /\ Len(logged) \in Nat
        /\ UNCHANGED <<last, result, shown, badge>> /\ result = "none" /\ Live
    BY <1>5 DEF SentLine, Grown
  <2>2. e.data = Len(logged) + 1
    BY <2>1, EventFacts DEF Kinds
  <2> HIDE DEF e
  <2>3. Joined'
    <3>1. CASE wire = <<>>
      <4>1. n = 0
        BY <3>1, EmptySeq
      <4>2. shown # <<>> => shown[Len(shown)][2] = Len(logged)
        BY <2>1, <3>1 DEF LastInv, Whole
      <4>3. QED
        BY <2>1, <2>2, <4>1, <4>2
    <3>2. CASE wire # <<>>
      <4>1. 1 \in 1..n
        BY <1>0, <3>2
      <4>2. wire'[1] = wire[1]
        BY <2>1, <4>1
      <4>3. QED
        BY <1>0, <2>1, <3>2, <4>2
    <3>3. QED
      BY <3>1, <3>2
  <2>4. badge # "SUCCESS"
    BY <1>0, <2>1
  <2>5. QED
    BY <1>a, <1>b, <2>1, <2>3, <2>4
<1>6. ASSUME NEW e \in EventType, NEW n \in Nat, n <= Len(wire), e.kind # "line",
             Len(wire') = n + 1, \A i \in 1..n : wire'[i] = wire[i], wire'[n + 1] = e,
             UNCHANGED <<last, shown, badge>>, result' = result \/ result = "none"
      PROVE  ShownInv'
  <2>1. \A i \in 1..Len(wire') : (i \in 1..Len(wire) /\ i \in 1..n) \/ i = n + 1
    BY <1>0, <1>6
  <2>2. OnWire("line")' => OnWire("line")
    BY <1>6, <2>1 DEF OnWire
  <2>3. Joined'
    <3>1. CASE n = 0
      BY <1>6, <3>1
    <3>2. CASE n # 0
      <4>1. wire'[1] = wire[1] /\ Len(wire) # 0
        BY <1>0, <1>6, <3>2
      <4>2. wire # <<>>
        BY <4>1, EmptySeq
      <4>3. QED
        BY <1>0, <1>6, <4>1, <4>2
    <3>3. QED
      BY <3>1, <3>2
  <2>4. QED
    BY <1>0, <1>a, <1>b, <1>6, <2>2, <2>3
<1>7. ASSUME NEW e \in EventType, SentOther(e) PROVE ShownInv'
  <2>1. /\ Len(wire') = Len(wire) + 1 /\ \A i \in 1..Len(wire) : wire'[i] = wire[i]
        /\ wire'[Len(wire) + 1] = e /\ e.kind # "line"
        /\ UNCHANGED <<last, shown, badge>> /\ (result' = result \/ result = "none")
    BY <1>7 DEF SentOther, Grown
  <2>2. Len(wire) <= Len(wire)
    BY <1>0
  <2>3. QED
    BY <1>0, <1>6, <2>1, <2>2
<1>8. CASE Refused
  <2>1. /\ UNCHANGED <<last, shown, badge, result>>
        /\ wire' = <<EndEvent>> \/ wire' = <<ErrorEvent, EndEvent>>
    BY <1>8 DEF Refused
  <2>2. \A i \in 1..Len(wire') : wire'[i].kind # "line"
    <3>1. CASE wire' = <<EndEvent>>
      BY <3>1, EventFacts
    <3>2. CASE wire' = <<ErrorEvent, EndEvent>>
      <4>1. Len(wire') = 2 /\ wire'[1].kind = "error" /\ wire'[2].kind = "end"
        BY <3>2, EventFacts
      <4>2. QED
        BY <4>1
    <3>3. QED
      BY <2>1, <3>1, <3>2
  <2>3. 1 \in 1..Len(wire')
    BY <2>1
  <2>4. QED
    BY <1>0, <1>a, <1>b, <2>1, <2>2, <2>3 DEF OnWire
<1>9. ASSUME NEW n \in Nat, BrokenOff(n) PROVE ShownInv'
  <2>1. /\ n <= Len(wire) /\ Len(wire') = n + 1 /\ \A i \in 1..n : wire'[i] = wire[i]
        /\ wire'[n + 1] = EndEvent /\ UNCHANGED <<last, shown, badge, result>>
    BY <1>9 DEF BrokenOff, Cut
  <2>2. EndEvent \in EventType /\ EndEvent.kind # "line"
    BY EventFacts
  <2>3. QED
    BY <1>6, <2>1, <2>2
<1>10. QED
  BY <1>1, <1>2, <1>3, <1>4, <1>5, <1>7, <1>8, <1>9 DEF SeenByPage

\* The last line sent stays the last of the log, unless lines were cut off.
LEMMA LastInvStep ==
  ASSUME Types, StreamInv, OrderInv, WireInv, ShownInv, LastInv, SeenByPage
  PROVE  LastInv'
<1> DEFINE SentAll == \A i \in 1..Len(wire) :
              wire[i].kind = "line" /\ (i = Len(wire) \/ wire[i + 1].kind # "line") =>
                wire[i].data = Len(logged)
           ShownAll == shown # <<>> /\ (wire = <<>> \/ wire[1].kind # "line") =>
                         shown[Len(shown)][2] = Len(logged)
<1>0. /\ Len(wire) \in Nat /\ Len(shown) \in Nat
      /\ wire # <<>> => Len(wire) > 0
      /\ Whole => SentAll /\ ShownAll
  BY LenProperties, EmptySeq DEF LastInv, Types, PageType
<1>a. ASSUME Whole' => SentAll' /\ ShownAll' PROVE LastInv'
  BY <1>a DEF LastInv
<1>b. OnWire("success") => result = "success"
  BY DEF WireInv
<1>c. badge = "SUCCESS" => result = "success" /\ ~OnWire("line")
  BY DEF ShownInv
<1>1. CASE Unseen
  <2> SUFFICES ASSUME Whole' PROVE SentAll' /\ ShownAll'
    BY <1>a
  <2>1. wire' = wire /\ (shown' = shown \/ shown' = <<>>)
    BY <1>1 DEF Unseen
  <2>2. Whole
    BY <1>1, <2>1 DEF Unseen, Whole, OnWire
  <2>3. logged' = logged
    <3>1. CASE Live'
      BY <1>1, <3>1 DEF Unseen
    <3>2. CASE ~Live'
      <4>1. result = "success"
        BY <1>1, <1>b, <1>c, <2>1, <3>2 DEF Unseen, Whole, OnWire
      <4>2. QED
        BY <1>1, <4>1 DEF Unseen
    <3>3. QED
      BY <3>1, <3>2
  <2>4. QED
    BY <1>0, <2>1, <2>2, <2>3
<1>2. CASE Closed
  <2> SUFFICES ASSUME Whole' PROVE SentAll' /\ ShownAll'
    BY <1>a
  <2>1. /\ wire' = <<>> /\ currentEs' = NoStream /\ logged' = logged
        /\ shown' = shown \/ shown' = <<>>
    BY <1>2 DEF Closed
  <2>2. Len(wire') = 0
    BY <2>1, EmptySeq
  <2>3. badge' = "SUCCESS"
    BY <2>1, <2>2 DEF Whole, Live, OnWire
  <2>4. wire # <<>> /\ wire[1].kind = "success"
    BY <1>2, <2>3 DEF Closed
  <2>5. Whole
    BY <1>0, <2>4 DEF Whole, OnWire
  <2>6. QED
    BY <1>0, <2>1, <2>2, <2>4, <2>5
<1>3. CASE Opened
  <2>1. wire' = <<>> /\ shown' = <<>>
    BY <1>3 DEF Opened
  <2>2. Len(wire') = 0
    BY <2>1, EmptySeq
  <2>3. QED
    BY <1>a, <2>1, <2>2
<1>4. ASSUME NEW page, Took(page) PROVE LastInv'
  <2> SUFFICES ASSUME Whole' PROVE SentAll' /\ ShownAll'
    BY <1>a
  <2>1. /\ Len(wire') = Len(wire) - 1 /\ \A i \in 1..Len(wire') : wire'[i] = wire[i + 1]
        /\ UNCHANGED <<conn, currentEs, last, result, logged>> /\ Len(wire) > 0
        /\ wire # <<>> /\ wire' \in Seq(EventType) /\ 1 \in 1..Len(wire)
    BY <1>0, <1>4 DEF Took, Dropped
  <2>2. \A i \in 1..Len(wire') :
          i + 1 \in 1..Len(wire) /\ (i = Len(wire') => i + 1 = Len(wire))
          /\ (i # Len(wire') => i + 1 \in 1..Len(wire'))
    BY <1>0, <2>1
  <2>3. OnWire("success")' => OnWire("success")
    BY <2>1, <2>2 DEF OnWire
  <2>4. badge' = badge \/ wire[1].kind = "success"
    BY <1>4 DEF Took
  <2>5. Whole
    BY <2>1, <2>3, <2>4 DEF Whole, Live, OnWire
  <2>6. SentAll /\ ShownAll
    BY <1>0, <2>5
  <2>7. SentAll'
    <3> SUFFICES ASSUME NEW i \in 1..Len(wire'), wire'[i].kind = "line",
                        i = Len(wire') \/ wire'[i + 1].kind # "line"
                 PROVE  wire'[i].data = Len(logged)
      BY <2>1
    <3>1. wire'[i] = wire[i + 1] /\ i + 1 \in 1..Len(wire)
      BY <2>1, <2>2
    <3>2. i + 1 = Len(wire) \/ wire[(i + 1) + 1].kind # "line"
      BY <2>1, <2>2
    <3>3. QED
      BY <2>6, <3>1, <3>2
  <2>8. wire' # <<>> => 1 \in 1..Len(wire') /\ wire'[1] = wire[1 + 1]
    BY <2>1, EmptySeq
  <2>9. wire' = <<>> => Len(wire') = 0 /\ Len(wire) = 1
    BY <1>0, <2>1, EmptySeq
  <2>10. ShownAll'
    <3>1. CASE wire[1].kind = "line"
      <4>1. /\ Len(shown') = Len(shown) + 1
            /\ shown'[Len(shown) + 1] = <<last, wire[1].data>>
        BY <1>4, <3>1, TookLineFacts
      <4>2. wire' = <<>> \/ wire'[1].kind # "line" => wire[1].data = Len(logged)
        BY <2>1, <2>6, <2>8, <2>9, <3>1
      <4>3. QED
        BY <2>1, <4>1, <4>2
    <3>2. CASE wire[1].kind # "line"
      <4>1. shown' = shown
        BY <1>4, <3>2 DEF Took
      <4>2. QED
        BY <2>1, <2>6, <3>2, <4>1
    <3>3. QED
      BY <3>1, <3>2
  <2>11. QED
    BY <2>7, <2>10
<1>5. CASE SentLine
  <2> DEFINE e == Event("line", Len(logged) + 1)
             n == Len(wire)
  <2>1. /\ Len(wire') = n + 1 /\ \A i \in 1..n : wire'[i] = wire[i]
        /\ wire'[n + 1] = e /\ Len(logged) \in Nat /\ Len(logged') = Len(logged) + 1
        /\ \A i \in 1..n : wire[i].kind = "line"
        /\ wire' \in Seq(EventType)
    BY <1>5 DEF SentLine, Grown
  <2>2. e.kind = "line" /\ e.data = Len(logged) + 1
    BY <2>1, EventFacts DEF Kinds
  <2> HIDE DEF e
  <2>3. \A i \in 1..n + 1 : wire'[i].kind = "line"
    BY <1>0, <2>1, <2>2
  <2>4. SentAll'
    <3> SUFFICES ASSUME NEW i \in 1..Len(wire'), wire'[i].kind = "line",
                        i = Len(wire') \/ wire'[i + 1].kind # "line"
                 PROVE  wire'[i].data = Len(logged')
      OBVIOUS
    <3>1. i = n + 1
      <4>1. i # n + 1 => i + 1 \in 1..n + 1
        BY <1>0, <2>1
      <4>2. QED
        BY <2>1, <2>3, <4>1
    <3>2. QED
      BY <2>1, <2>2, <3>1
  <2>5. wire' # <<>> /\ wire'[1].kind = "line"
    <3>1. 1 \in 1..n + 1 /\ Len(wire') # 0
      BY <1>0, <2>1
    <3>2. QED
      BY <2>3, <3>1, EmptySeq
  <2>6. QED
    BY <1>a, <2>4, <2>5
<1>6. ASSUME NEW e \in EventType, SentOther(e) PROVE LastInv'
  <2> DEFINE n == Len(wire)
  <2>1. /\ Len(wire') = n + 1 /\ \A i \in 1..n : wire'[i] = wire[i]
        /\ wire'[n + 1] = e /\ e.kind # "line" /\ UNCHANGED <<shown, logged>> /\ Live
    BY <1>6 DEF SentOther, Grown
  <2>2. SentAll /\ ShownAll
    BY <1>0, <2>1 DEF Whole
  <2>3. SentAll'
    <3> SUFFICES ASSUME NEW i \in 1..Len(wire'), wire'[i].kind = "line",
                        i = Len(wire') \/ wire'[i + 1].kind # "line"
                 PROVE  wire'[i].data = Len(logged)
      BY <2>1
    <3>1. i \in 1..n
      BY <1>0, <2>1
    <3>2. i # n => i + 1 \in 1..n /\ i # Len(wire')
      BY <1>0, <2>1, <3>1
    <3>3. wire[i].kind = "line" /\ (i = n \/ wire[i + 1].kind # "line")
      BY <2>1, <3>1, <3>2
    <3>4. QED
      BY <2>1, <2>2, <3>1, <3>3
  <2>4. wire' # <<>>
    BY <1>0, <2>1, EmptySeq
  <2>5. wire # <<>> => wire'[1] = wire[1]
    BY <1>0, <2>1
  <2>6. QED
    BY <1>a, <2>1, <2>2, <2>3, <2>4, <2>5
<1>7. CASE Refused
  <2>1. /\ UNCHANGED <<shown, logged>> /\ Live /\ wire = <<>>
        /\ wire' = <<EndEvent>> \/ wire' = <<ErrorEvent, EndEvent>>
    BY <1>7 DEF Refused
  <2>2. \A i \in 1..Len(wire') : wire'[i].kind # "line"
    <3>1. CASE wire' = <<EndEvent>>
      BY <3>1, EventFacts
    <3>2. CASE wire' = <<ErrorEvent, EndEvent>>
      <4>1. Len(wire') = 2 /\ wire'[1].kind = "error" /\ wire'[2].kind = "end"
        BY <3>2, EventFacts
      <4>2. QED
        BY <4>1
    <3>3. QED
      BY <2>1, <3>1, <3>2
  <2>3. ShownAll
    BY <1>0, <2>1 DEF Whole
  <2>4. QED
    BY <1>a, <2>1, <2>2, <2>3
<1>8. ASSUME NEW n \in Nat, BrokenOff(n) PROVE LastInv'
  <2> SUFFICES ASSUME Whole' PROVE SentAll' /\ ShownAll'
    BY <1>a
  <2>1. /\ n <= Len(wire) /\ Len(wire') = n + 1 /\ \A i \in 1..n : wire'[i] = wire[i]
        /\ wire'[n + 1].kind = "end" /\ UNCHANGED <<shown, logged, badge>>
        /\ Live /\ ~Live'
    BY <1>8, EventFacts DEF BrokenOff, Cut
  <2>2. SentAll /\ ShownAll
    BY <1>0, <2>1 DEF Whole
  <2>3. CASE badge = "SUCCESS"
    <3>1. \A i \in 1..Len(wire) : wire[i].kind # "line"
      BY <1>c, <2>3 DEF OnWire
    <3>2. \A i \in 1..Len(wire') : (i \in 1..Len(wire) /\ i \in 1..n) \/ i = n + 1
      BY <1>0, <2>1
    <3>3. SentAll'
      BY <2>1, <3>1, <3>2
    <3>4. wire = <<>> \/ 1 \in 1..Len(wire)
      BY <1>0
    <3>5. QED
      BY <2>1, <2>2, <3>1, <3>3, <3>4
  <2>4. CASE OnWire("success")'
    <3>1. PICK k \in 1..n : wire[k].kind = "success"
      <4>1. PICK k \in 1..Len(wire') : wire'[k].kind = "success"
        BY <2>4 DEF OnWire
      <4>2. k \in 1..n
        BY <2>1, <4>1
      <4>3. QED
        BY <2>1, <4>1, <4>2
    <3>2. k \in 1..Len(wire) /\ 1 \in 1..n /\ wire # <<>>
      <4>1. k \in 1..Len(wire) /\ 1 \in 1..n /\ Len(wire) # 0
        BY <1>0, <2>1, <3>1
      <4>2. QED
        BY <4>1, EmptySeq
    <3>3. SentAll'
      <4> SUFFICES ASSUME NEW i \in 1..Len(wire'), wire'[i].kind = "line",
                          i = Len(wire') \/ wire'[i + 1].kind # "line"
                   PROVE  wire'[i].data = Len(logged)
        BY <2>1
      <4>1. i \in 1..n /\ wire[i].kind = "line"
        BY <2>1
      <4>2. i \in 1..Len(wire)
        BY <1>0, <2>1, <4>1
      <4>3. i < k
        <5>1. ~(k < i)
          BY <3>1, <3>2, <4>1, <4>2 DEF OrderInv
        <5>2. k # i
          BY <3>1, <4>1
        <5>3. QED
          BY <3>1, <4>1, <5>1, <5>2
      <4>4. i + 1 \in 1..n /\ i # Len(wire')
        BY <2>1, <3>1, <4>1, <4>3
      <4>5. wire[i + 1].kind # "line"
        BY <2>1, <4>4
      <4>6. QED
        BY <2>1, <2>2, <4>1, <4>2, <4>5
    <3>4. wire'[1] = wire[1] /\ (wire[1].kind = "line" \/ ~(wire = <<>>))
      BY <2>1, <3>2
    <3>5. wire' # <<>>
      BY <2>1, EmptySeq
    <3>6. ShownAll'
      BY <2>1, <2>2, <3>4, <3>5
    <3>7. QED
      BY <3>3, <3>6
  <2>5. QED
    BY <2>1, <2>3, <2>4 DEF Whole
<1>9. QED
  BY <1>1, <1>2, <1>3, <1>4, <1>5, <1>6, <1>7, <1>8 DEF SeenByPage

-----------------------------------------------------------------------------
(* The theorems *)

\* Everything above holds when the page is opened,
LEMMA DashboardInvInit == DashboardInit => DashboardInv
<1> SUFFICES ASSUME DashboardInit PROVE DashboardInv
  OBVIOUS
<1>0. /\ <<>> \in Seq(EventType) /\ <<>> \in Seq(Requests \X Nat) /\ <<>> \in Seq(Lines)
      /\ Len(wire) = 0 /\ Len(shown) = 0 /\ wire = <<>> /\ shown = <<>>
  BY EmptySeq DEF DashboardInit, InitPage
<1>1. ServerType
  BY <1>0 DEF DashboardInit, Init, ServerType
<1>2. PageType
  BY <1>0 DEF DashboardInit, InitPage, PageType
<1>3. HistoryType
  BY <1>0 DEF DashboardInit, HistoryType
<1>4. OneRequestPerClick
  <2>1. Requests \ Fresh = {}
    BY DEF DashboardInit, Fresh
  <2>2. QED
    BY <2>1, FS_EmptySet DEF DashboardInit, OneRequestPerClick
<1>5. RequestInv
  <2>1. Len(<<>>) <= MAX_OUTPUT_LINES
    BY ConstantFacts
  <2>2. QED
    BY <2>1 DEF DashboardInit, Init, RequestInv, RequestOk
<1>6. StreamInv
  BY <1>0 DEF DashboardInit, InitPage, StreamInv
<1>7. OrderInv
  BY <1>0 DEF OrderInv
<1>8. WireInv
  BY <1>0, ConstantFacts DEF WireInv, OnWire, Live, DashboardInit, InitPage
<1>9. ShownInv
  BY <1>0 DEF ShownInv, DashboardInit, InitPage
<1>10. LastInv
  BY <1>0 DEF LastInv
<1>11. QED
  BY <1>1, <1>2, <1>3, <1>4, <1>5, <1>6, <1>7, <1>8, <1>9, <1>10 DEF DashboardInv, Types

\* and every step keeps it.
LEMMA DashboardInvStep == DashboardInv /\ [DashboardNext]_allVars => DashboardInv'
<1> SUFFICES ASSUME DashboardInv, [DashboardNext]_allVars PROVE DashboardInv'
  OBVIOUS
<1>0. /\ Types /\ OneRequestPerClick /\ RequestInv /\ StreamInv
      /\ OrderInv /\ WireInv /\ ShownInv /\ LastInv
  BY DEF DashboardInv
<1>1. Types'
  BY <1>0, ServerTypeStep, PageTypeStep, HistoryTypeStep DEF Types
<1>2. OneRequestPerClick'
  BY <1>0, OneRequestStep
<1>3. RequestInv' /\ StreamInv'
  BY <1>0, RequestInvStep, StreamInvStep
<1>4. SeenByPage
  BY <1>0, SeenStep
<1>5. OrderInv' /\ WireInv' /\ ShownInv' /\ LastInv'
  BY <1>0, <1>4, OrderInvStep, WireInvStep, ShownInvStep, LastInvStep
<1>6. QED
  BY <1>1, <1>2, <1>3, <1>5 DEF DashboardInv

\* The inductive invariant holds in every reachable state: the page, the connection
\* and the server agree on which request is open and on what was sent to it.
THEOREM DashboardInvariant == DashboardSpec => []DashboardInv
BY DashboardInvInit, DashboardInvStep, PTL DEF DashboardSpec

\* The state of page and server has its type, and the connection never holds more
\* than it can, whatever the server sends and the page does not read.
THEOREM DashboardTypeCorrect == DashboardSpec => []DashboardTypeOK
<1>1. DashboardInv => DashboardTypeOK
  BY DEF DashboardInv, Types, ServerType, PageType, RequestInv, RequestOk, WireInv,
     DashboardTypeOK
<1>2. QED
  BY <1>1, DashboardInvariant, PTL

\* One click on the run button starts one run as root, for any number of clicks and
\* through any refusals, broken connections and reloads.
THEOREM OneRequestCorrect == DashboardSpec => []OneRequestPerClick
<1>1. DashboardInv => OneRequestPerClick
  BY DEF DashboardInv
<1>2. QED
  BY <1>1, DashboardInvariant, PTL

\* The output box shows lines of the latest run only, without gaps or repeats.
THEOREM ShownCorrect == DashboardSpec => []ShownInOrder
<1>1. DashboardInv => ShownInOrder
  <2> SUFFICES ASSUME DashboardInv PROVE ShownInOrder
    OBVIOUS
  <2>1. DOMAIN shown = 1..Len(shown)
    BY LenProperties DEF DashboardInv, Types, PageType
  <2>2. QED
    BY <2>1 DEF DashboardInv, ShownInv, ShownInOrder
<1>2. QED
  BY <1>1, DashboardInvariant, PTL

\* SUCCESS on the page means that the server counted a success and that every line
\* it logged was on the page before, also when the connection broke after that.
THEOREM SuccessCorrect == DashboardSpec => []SuccessIsShownTruly
<1>1. DashboardInv => SuccessIsShownTruly
  <2> SUFFICES ASSUME DashboardInv, badge = "SUCCESS"
               PROVE  /\ result = "success"
                      /\ shown # <<>> => shown[Len(shown)][2] = Len(logged)
    BY DEF SuccessIsShownTruly
  <2>1. result = "success" /\ ~OnWire("line")
    BY DEF DashboardInv, ShownInv
  <2>2. wire = <<>> \/ wire[1].kind # "line"
    <3>1. wire = <<>> \/ 1 \in 1..Len(wire)
      BY EmptySeq DEF DashboardInv, Types, PageType
    <3>2. QED
      BY <2>1, <3>1 DEF OnWire
  <2>3. QED
    BY <2>1, <2>2 DEF DashboardInv, LastInv, Whole
<1>2. QED
  BY <1>1, DashboardInvariant, PTL

-----------------------------------------------------------------------------
(* The summary on the page *)

\* The summary that travels, and the one shown with the chart, is that of the log.
SummaryInv ==
    /\ \A i \in 1..Len(wire) : wire[i].kind = "success" => wire[i].data = Summary(logged)
    /\ badge = "SUCCESS" /\ chart => summary = Summary(logged)

\* On the wire,
LEMMA SummarySent ==
  ASSUME DashboardInv, SummaryInv, SeenByPage
  PROVE  \A i \in 1..Len(wire') :
            wire'[i].kind = "success" => wire'[i].data = Summary(logged')
<1>0. /\ Len(wire) \in Nat /\ (OnWire("success") => result = "success")
      /\ \A i \in 1..Len(wire) : wire[i].kind = "success" => wire[i].data = Summary(logged)
  BY LenProperties DEF DashboardInv, Types, PageType, WireInv, SummaryInv
<1>1. CASE Unseen
  <2>1. wire' = wire /\ (logged' = logged \/ result = "none")
    BY <1>1 DEF Unseen
  <2>2. result = "none" => ~OnWire("success")
    BY <1>0
  <2>3. CASE logged' = logged
    BY <1>0, <2>1, <2>3
  <2>4. CASE result = "none"
    BY <2>1, <2>2, <2>4 DEF OnWire
  <2>5. QED
    BY <2>1, <2>3, <2>4
<1>2. CASE Closed \/ Opened
  <2>1. wire' = <<>>
    BY <1>2 DEF Closed, Opened
  <2>2. Len(wire') = 0
    BY <2>1, EmptySeq
  <2>3. QED
    BY <2>2
<1>3. ASSUME NEW page, Took(page), NEW i \in 1..Len(wire'), wire'[i].kind = "success"
      PROVE  wire'[i].data = Summary(logged')
  <2>1. /\ Len(wire') = Len(wire) - 1 /\ \A j \in 1..Len(wire') : wire'[j] = wire[j + 1]
        /\ logged' = logged
    BY <1>3 DEF Took, Dropped
  <2>2. i + 1 \in 1..Len(wire)
    BY <1>0, <2>1
  <2>3. QED
    BY <1>0, <1>3, <2>1, <2>2
<1>4. CASE SentLine
  <2> DEFINE e == Event("line", Len(logged) + 1)
  <2>1. /\ Len(wire') = Len(wire) + 1 /\ \A i \in 1..Len(wire) : wire'[i] = wire[i]
        /\ wire'[Len(wire) + 1] = e /\ Len(logged) \in Nat
        /\ \A i \in 1..Len(wire) : wire[i].kind = "line"
    BY <1>4 DEF SentLine, Grown
  <2>2. e.kind = "line"
    BY <2>1, EventFacts DEF Kinds
  <2> HIDE DEF e
  <2>3. \A i \in 1..Len(wire') : wire'[i].kind = "line"
    BY <1>0, <2>1, <2>2
  <2>4. QED
    BY <2>3
<1>5. ASSUME NEW e \in EventType, SentOther(e),
             NEW i \in 1..Len(wire'), wire'[i].kind = "success"
      PROVE  wire'[i].data = Summary(logged')
  <2>1. /\ Len(wire') = Len(wire) + 1 /\ \A j \in 1..Len(wire) : wire'[j] = wire[j]
        /\ wire'[Len(wire) + 1] = e /\ logged' = logged
        /\ e.kind = "success" => e.data = Summary(logged)
    BY <1>5 DEF SentOther, Grown
  <2>2. i \in 1..Len(wire) \/ i = Len(wire) + 1
    BY <1>0, <2>1
  <2>3. QED
    BY <1>0, <1>5, <2>1, <2>2
<1>6. ASSUME Refused, NEW i \in 1..Len(wire') PROVE wire'[i].kind # "success"
  <2>1. CASE wire' = <<EndEvent>>
    BY <2>1, EventFacts
  <2>2. CASE wire' = <<ErrorEvent, EndEvent>>
    <3>1. Len(wire') = 2 /\ wire'[1].kind = "error" /\ wire'[2].kind = "end"
      BY <2>2, EventFacts
    <3>2. QED
      BY <3>1
  <2>3. QED
    BY <1>6, <2>1, <2>2 DEF Refused
<1>7. ASSUME NEW n \in Nat, BrokenOff(n), NEW i \in 1..Len(wire'), wire'[i].kind = "success"
      PROVE  wire'[i].data = Summary(logged')
  <2>1. /\ n <= Len(wire) /\ Len(wire') = n + 1 /\ \A j \in 1..n : wire'[j] = wire[j]
        /\ wire'[n + 1].kind = "end" /\ logged' = logged
    BY <1>7, EventFacts DEF BrokenOff, Cut
  <2>2. i \in 1..n /\ i \in 1..Len(wire)
    BY <1>0, <1>7, <2>1
  <2>3. QED
    BY <1>0, <1>7, <2>1, <2>2
<1>8. QED
  BY <1>1, <1>2, <1>3, <1>4, <1>5, <1>6, <1>7 DEF SeenByPage

\* and on the page.
LEMMA SummaryDrawn ==
  ASSUME DashboardInv, SummaryInv, [DashboardNext]_allVars, badge' = "SUCCESS", chart'
  PROVE  summary' = Summary(logged')
<1>0. /\ wire \in Seq(EventType)
      /\ badge = "SUCCESS" => result = "success"
      /\ badge = "SUCCESS" /\ chart => summary = Summary(logged)
  BY DEF DashboardInv, Types, PageType, ShownInv, SummaryInv
<1>1. CASE UNCHANGED <<badge, chart, summary, logged>>
  BY <1>0, <1>1
<1>2. CASE OnSuccess
  <2>1. /\ UNCHANGED <<chart, logged>> /\ wire # <<>> /\ Head(wire).kind = "success"
        /\ UNCHANGED <<badge, summary>> \/ summary' = Head(wire).data
    BY <1>2 DEF OnSuccess, Incoming, updateChart, renderSummaryTable, history
  <2>2. CASE UNCHANGED <<badge, summary>>
    BY <1>1, <2>1, <2>2
  <2>3. CASE summary' = Head(wire).data
    <3>1. Head(wire) = wire[1] /\ 1 \in 1..Len(wire)
      BY <1>0, <2>1, HeadTailProperties, EmptySeq
    <3>2. QED
      BY <2>1, <2>3, <3>1 DEF SummaryInv
  <2>4. QED
    BY <2>1, <2>2, <2>3
<1>3. ASSUME NEW r \in Requests, Output(r) PROVE summary' = Summary(logged')
  <2>1. UNCHANGED <<badge, chart, summary>> /\ phase[r] = "running"
    BY <1>3 DEF Output, pageVars
  <2>2. r # last
    BY <1>0, <2>1 DEF DashboardInv, StreamInv
  <2>3. QED
    BY <1>1, <1>3, <2>1, <2>2 DEF Output
<1>4. CASE LoadTools \/ Reload \/ OnFailure \/ onerror
  BY <1>1, <1>4 DEF LoadTools, Reload, OnFailure, onerror, history
<1>5. CASE ClearOutput \/ OnLine \/ Break \/ UNCHANGED allVars
  BY <1>1, <1>5 DEF ClearOutput, OnLine, Break, allVars, pageVars, history
<1>6. ASSUME NEW t \in Tools PROVE ~Click(t)
  BY DEF Click
<1>7. ASSUME NEW r \in Requests, Accept(r) \/ TurnDown(r) \/ Finally(r) \/ Hangup(r)
      PROVE  summary' = Summary(logged')
  BY <1>1, <1>7 DEF Accept, TurnDown, Finally, Hangup, pageVars, history
<1>8. ASSUME NEW r \in Requests, NEW kind, ReportRun(r, kind)
      PROVE  summary' = Summary(logged')
  BY <1>1, <1>8 DEF ReportRun, pageVars
<1>9. QED
  BY <1>2, <1>3, <1>4, <1>5, <1>6, <1>7, <1>8 DEF DashboardNext, Receive

\* A summary on the page is that of the run it stands for: it is neither left over
\* from an earlier run nor that of a log that grew after it was computed.
THEOREM SummaryOfThisRun == DashboardSpec => []SummaryInv
<1>1. DashboardInit => SummaryInv
  <2> SUFFICES ASSUME DashboardInit PROVE SummaryInv
    OBVIOUS
  <2>1. Len(wire) = 0 /\ badge = "IDLE"
    BY EmptySeq DEF DashboardInit, InitPage
  <2>2. QED
    BY <2>1 DEF SummaryInv
<1>2. DashboardInv /\ SummaryInv /\ [DashboardNext]_allVars => SummaryInv'
  <2> SUFFICES ASSUME DashboardInv, SummaryInv, [DashboardNext]_allVars PROVE SummaryInv'
    OBVIOUS
  <2>1. SeenByPage
    BY SeenStep DEF DashboardInv
  <2>2. QED
    BY <2>1, SummarySent, SummaryDrawn DEF SummaryInv
<1>3. QED
  BY <1>1, <1>2, DashboardInvariant, PTL DEF DashboardSpec

\* So if the parser of the server computes what it should from every log, which is
\* a fact about two functions only, the page shows the totals of what its run
\* printed.
THEOREM SummaryCorrect ==
  ASSUME \A output \in Seq(Lines) : Summarizes(Summary(output), output)
  PROVE  DashboardSpec => []SummaryMatchesOutput
<1>1. DashboardInv /\ SummaryInv => SummaryMatchesOutput
  BY DEF DashboardInv, Types, HistoryType, SummaryInv, SummaryMatchesOutput
<1>2. QED
  BY <1>1, DashboardInvariant, SummaryOfThisRun, PTL

=============================================================================
