----------------------------- MODULE Dashboard -----------------------------
(***************************************************************************)
(* The browser page (client/static/app.js) and the server it talks to.  A  *)
(* click opens an EventSource, which is one request; the server's events   *)
(* travel over a connection that keeps their order, holds them back when   *)
(* the page does not read, and may break; the page's handlers show lines   *)
(* and the final status and close the stream.  Only the stream the page    *)
(* has open is followed: a closed EventSource gets no more events, and its *)
(* connection is closed under the server's feet.                           *)
(*                                                                         *)
(* The server is RunLedger, which ToolRunner implements, with the lines a  *)
(* run logs, the summary of them (OutputParser) and the events it yields.  *)
(*                                                                         *)
(* External: the browser.  A disabled button takes no clicks.  An open     *)
(* EventSource whose stream ends or whose request is refused gets onerror, *)
(* and would then connect again by itself unless it is closed.             *)
(***************************************************************************)
EXTENDS RunLedger, OutputParser

CONSTANTS
    Available,          \* what get_available_tools returns
    MAX_OUTPUT_LINES,
    Lines,              \* what a tool may print, see OutputParser
    WireCap             \* events the connection holds before the server waits

NoStream == "no stream"

ASSUME DashboardAssumption ==
    /\ Available \subseteq Tools /\ {MAX_OUTPUT_LINES, WireCap} \subseteq Nat
    /\ IsFiniteSet(Requests) /\ NoStream \notin Requests /\ Nobody \notin Tools

VARIABLES
    conn, log_content, truncated,       \* of each request, at the server
    wire,           \* events sent to the page and not yet handled
    options, fetched,                   \* the tool list; was it asked for?
    chart,          \* did Chart.js load from its CDN?
    currentEs,      \* the request of the open EventSource
    asked,          \* the tool each request was sent for
    disabled,       \* the run button
    badge,          \* the status badge
    shown,          \* lines in the output box, by request and number
    summary,        \* the summary table
    last, clicks,   \* history: the latest request, clicks on the run button
    logged, result  \* history: the log and the outcome of the latest request

ledgerVars == <<phase, job, counted>>
serverVars == <<ledgerVars, conn, log_content, truncated>>
pageVars   == <<options, fetched, chart, currentEs, asked, disabled, badge,
                shown, summary>>
history    == <<last, clicks, logged, result>>
allVars    == <<serverVars, wire, pageVars, history>>

\* Every log a run can have, with its summary.
Summaries ==
    {[log |-> output, summary |-> Summary(output)] : output \in SeqOf(Lines, MAX_OUTPUT_LINES)}
NoSummary == Summary(<<>>)

Event(kind, data) == [kind |-> kind, data |-> data]

InitPage ==
    /\ options = {} /\ fetched = FALSE
    /\ currentEs = NoStream /\ disabled = FALSE
    /\ badge = "IDLE" /\ shown = <<>> /\ summary = NoSummary /\ wire = <<>>

DashboardInit ==
    /\ Init /\ InitPage
    /\ conn = [r \in Requests |-> TRUE]
    /\ log_content = [r \in Requests |-> <<>>]
    /\ truncated = [r \in Requests |-> FALSE]
    /\ chart \in BOOLEAN
    /\ asked = [r \in Requests |-> Nobody]
    /\ last = NoStream /\ clicks = 0 /\ logged = <<>> /\ result = "none"

\* Requests are used in a fixed order.
Fresh == {r \in Requests : asked[r] = Nobody}
NextRequest == CHOOSE r \in Fresh : TRUE

-----------------------------------------------------------------------------
(* The page *)

\* fetch('/api/tools') fills the list, or fails.
LoadTools ==
    /\ ~fetched
    /\ fetched' = TRUE
    /\ \/ options' = Available /\ UNCHANGED badge
       \/ badge' = "OFFLINE" /\ UNCHANGED options
    /\ UNCHANGED <<serverVars, chart, currentEs, asked, disabled, shown, summary,
                   wire, history>>

\* Faulty variant of Click: the output of the run before stays.
ClickKeepsOutput(t) ==
    /\ ~disabled /\ t \in options /\ Fresh # {}
    /\ currentEs' = NextRequest
    /\ asked' = [asked EXCEPT ![NextRequest] = t]
    /\ disabled' = TRUE /\ badge' = "RUNNING" /\ wire' = <<>>
    /\ last' = NextRequest /\ clicks' = clicks + 1 /\ logged' = <<>> /\ result' = "none"
    /\ UNCHANGED <<serverVars, options, fetched, chart, shown, summary>>

\* The click handler: close an open stream, open a new one.
Click(t) ==
    /\ ~disabled /\ t \in options /\ Fresh # {}
    /\ currentEs' = NextRequest
    /\ asked' = [asked EXCEPT ![NextRequest] = t]
    /\ disabled' = TRUE /\ badge' = "RUNNING" /\ shown' = <<>> /\ wire' = <<>>
    /\ last' = NextRequest /\ clicks' = clicks + 1 /\ logged' = <<>> /\ result' = "none"
    /\ UNCHANGED <<serverVars, options, fetched, chart, summary>>

ClearOutput ==
    /\ shown # <<>>
    /\ shown' = <<>>
    /\ UNCHANGED <<serverVars, options, fetched, chart, currentEs, asked, disabled,
                   badge, summary, wire, history>>

\* The user reloads the page; its stream is closed with it.
Reload ==
    /\ fetched
    /\ options' = {} /\ fetched' = FALSE
    /\ currentEs' = NoStream /\ disabled' = FALSE
    /\ badge' = "IDLE" /\ shown' = <<>> /\ summary' = NoSummary /\ wire' = <<>>
    /\ UNCHANGED <<serverVars, chart, asked, history>>

cleanupConnection == currentEs' = NoStream /\ disabled' = FALSE /\ wire' = <<>>

\* The handler leaves the stream open (or dies of an exception).
KeepStream == wire' = Tail(wire) /\ UNCHANGED <<currentEs, disabled>>

Incoming(kinds) == wire # <<>> /\ Head(wire).kind \in kinds

OnLine ==
    /\ Incoming({"line", "notice"})
    /\ shown' = IF Head(wire).kind = "line"
                THEN Append(shown, <<currentEs, Head(wire).data>>) ELSE shown
    /\ KeepStream
    /\ UNCHANGED <<serverVars, options, fetched, chart, asked, badge, summary,
                   history>>

\* Draws the metrics that were parsed, with Chart.js; otherwise it throws.
updateChart == chart

\* Faulty variant of renderSummaryTable: the table of the run before stays.
renderSummaryTableStale == UNCHANGED summary

renderSummaryTable == summary' = Head(wire).data

\* status: "success".  A sum that overflowed is not JSON and JSON.parse throws;
\* without the chart library updateChart throws, after the badge was set.
OnSuccess ==
    /\ Incoming({"success"})
    /\ \/ KeepStream /\ UNCHANGED <<badge, summary>>
       \/ badge' = "SUCCESS" /\ ~updateChart /\ KeepStream /\ UNCHANGED summary
       \/ badge' = "SUCCESS" /\ updateChart /\ renderSummaryTable /\ cleanupConnection
    /\ UNCHANGED <<serverVars, options, fetched, chart, asked, shown, history>>

\* Faulty variant of OnFailure: the badge is set before the status is looked at.
OnFailureGreen ==
    /\ Incoming({"error"})
    /\ badge' = "SUCCESS"
    /\ cleanupConnection
    /\ UNCHANGED <<serverVars, options, fetched, chart, asked, shown, summary,
                   history>>

\* status: "error", from a failed run or a tool that is already running.
OnFailure ==
    /\ Incoming({"error"})
    /\ badge' = "ERROR"
    /\ cleanupConnection
    /\ UNCHANGED <<serverVars, options, fetched, chart, asked, shown, summary,
                   history>>

\* Faulty variant of onerror: the stream is not closed, the browser connects
\* again to the same address.
onerrorReconnects ==
    /\ Incoming({"end"})
    /\ badge' = "ERROR"
    /\ \/ /\ Fresh # {}
          /\ currentEs' = NextRequest
          /\ asked' = [asked EXCEPT ![NextRequest] = asked[currentEs]]
       \/ Fresh = {} /\ UNCHANGED <<currentEs, asked>>
    /\ wire' = <<>>
    /\ UNCHANGED <<serverVars, options, fetched, chart, disabled, shown, summary,
                   history>>

\* Faulty variant of onerror: it only sets the badge.
onerrorBadgeOnly ==
    /\ Incoming({"end"})
    /\ badge' = "ERROR"
    /\ KeepStream
    /\ UNCHANGED <<serverVars, options, fetched, chart, asked, shown, summary,
                   history>>

\* The stream ended, the connection broke or the request was refused.
onerror ==
    /\ Incoming({"end"})
    /\ badge' = "ERROR"
    /\ cleanupConnection
    /\ UNCHANGED <<serverVars, options, fetched, chart, asked, shown, summary,
                   history>>

Receive == OnLine \/ OnSuccess \/ OnFailure \/ onerror

-----------------------------------------------------------------------------
(* The server: what it yields goes onto the wire of the open stream *)

Yield(r, events) ==
    wire' = IF r = currentEs /\ conn[r] THEN wire \o events ELSE wire

\* Faulty variant of Sent: the server never waits.
SentUnchecked(r) == TRUE

\* The connection has taken the event before; the generator goes on.
Sent(r) == r = currentEs /\ conn[r] => Len(wire) <= WireCap

ErrorEvent == Event("error", 0)
EndEvent   == Event("end", 0)

\* The request is accepted and gets its tool.
Accept(r) ==
    /\ asked[r] # Nobody
    /\ Take(r, asked[r])
    /\ UNCHANGED <<conn, log_content, truncated, wire, pageVars, history>>

\* The tool was removed in the meantime (HTTP 404), or is already running.
TurnDown(r) ==
    /\ asked[r] # Nobody
    /\ Decline(r)
    /\ \/ Yield(r, <<EndEvent>>)
       \/ ~Free(asked[r]) /\ Yield(r, <<ErrorEvent, EndEvent>>)
    /\ UNCHANGED <<conn, log_content, truncated, pageVars, history>>

\* A line was read: log and yield it, or yield the notice.  (Of the two limits only
\* the one on lines is here; ToolRunner has both.)
Output(r) ==
    /\ phase[r] = "running" /\ Sent(r)
    /\ \/ /\ Len(log_content[r]) < MAX_OUTPUT_LINES
          /\ \E line \in Lines :
               log_content' = [log_content EXCEPT ![r] = Append(@, line)]
          /\ Yield(r, <<Event("line", Len(log_content[r]) + 1)>>)
          /\ UNCHANGED truncated
       \/ /\ Len(log_content[r]) = MAX_OUTPUT_LINES /\ ~truncated[r]
          /\ truncated' = [truncated EXCEPT ![r] = TRUE]
          /\ Yield(r, <<Event("notice", 0)>>)
          /\ UNCHANGED log_content
    /\ logged' = IF r = last THEN log_content'[r] ELSE logged
    /\ UNCHANGED <<ledgerVars, conn, pageVars, last, clicks, result>>

\* The run is over: count it and yield its status, with the summary of its log.
ReportRun(r, kind) ==
    /\ Sent(r)
    /\ Report(r, kind)
    /\ result' = IF r = last THEN kind ELSE result
    /\ \/ kind = "error" /\ Yield(r, <<ErrorEvent>>)
       \/ \E s \in Summaries :
            /\ kind = "success" /\ s.log = log_content[r]
            /\ Yield(r, <<Event("success", s.summary)>>)
    /\ UNCHANGED <<conn, log_content, truncated, pageVars, last, clicks, logged>>

\* Faulty variant of Finally: no finally block, a cancelled run keeps its tool.
FinallyNoCancel(r) ==
    /\ phase[r] = "reported" /\ Sent(r) /\ conn[r]
    /\ Release(r)
    /\ Yield(r, <<EndEvent>>)
    /\ log_content' = [log_content EXCEPT ![r] = <<>>]
    /\ truncated' = [truncated EXCEPT ![r] = FALSE]
    /\ UNCHANGED <<conn, pageVars, history>>

\* The finally block: after the status was sent, or on a cancellation.  The
\* generator's locals go with it.
Finally(r) ==
    /\ (phase[r] = "reported" /\ Sent(r)) \/ ~conn[r]
    /\ Release(r)
    /\ Yield(r, <<EndEvent>>)
    /\ log_content' = [log_content EXCEPT ![r] = <<>>]
    /\ truncated' = [truncated EXCEPT ![r] = FALSE]
    /\ UNCHANGED <<conn, pageVars, history>>

\* The server is told that a closed stream is gone.
Hangup(r) ==
    /\ asked[r] # Nobody /\ r # currentEs /\ conn[r]
    /\ conn' = [conn EXCEPT ![r] = FALSE]
    /\ UNCHANGED <<ledgerVars, log_content, truncated, wire, pageVars, history>>

\* The connection breaks: some of the events in flight still arrive.
Break ==
    /\ currentEs # NoStream /\ conn[currentEs]
    /\ \A i \in DOMAIN wire : wire[i].kind # "end"
    /\ conn' = [conn EXCEPT ![currentEs] = FALSE]
    /\ \E n \in 0..Len(wire) : wire' = Append(SubSeq(wire, 1, n), EndEvent)
    /\ UNCHANGED <<ledgerVars, log_content, truncated, pageVars, history>>

-----------------------------------------------------------------------------
DashboardNext ==
    \/ LoadTools \/ ClearOutput \/ Reload \/ Receive \/ Break
    \/ \E t \in Tools : Click(t)
    \/ \E r \in Requests :
         \/ Accept(r) \/ TurnDown(r) \/ Output(r) \/ Finally(r) \/ Hangup(r)
         \/ \E kind \in {"success", "error"} : ReportRun(r, kind)

\* Requests and the news of a closed stream arrive, the page handles its events,
\* and runs end, which ToolRunner!RunEnds shows.
DashboardFairness ==
    /\ WF_allVars(Receive)
    /\ \A r \in Requests :
         /\ WF_allVars(Accept(r) \/ TurnDown(r))
         /\ WF_allVars(\E kind \in {"success", "error"} : ReportRun(r, kind))
         /\ WF_allVars(Finally(r)) /\ WF_allVars(Hangup(r))

DashboardSpec == DashboardInit /\ [][DashboardNext]_allVars /\ DashboardFairness

-----------------------------------------------------------------------------
(* Properties *)

\* The state has its type, and the connection buffers no more than it can.
DashboardTypeOK ==
    /\ job \in [Requests -> Tools \cup {Nobody}]
    /\ \A r \in Requests : Len(log_content[r]) <= MAX_OUTPUT_LINES
    /\ options \subseteq Tools
    /\ currentEs \in Requests \cup {NoStream}
    /\ badge \in {"IDLE", "OFFLINE", "RUNNING", "SUCCESS", "ERROR"}
    /\ Len(wire) <= WireCap + 2

\* A click sends one request: no broken connection, refusal or end of a stream
\* makes the browser run a tool as root a second time.
OneRequestPerClick == Cardinality(Requests \ Fresh) = clicks

\* The output box holds lines of the latest run only, without gaps or repeats,
\* whatever was cleared, broken off or left over from a run before it.
ShownInOrder ==
    \A i \in DOMAIN shown :
        /\ shown[i][1] = last
        /\ i > 1 => shown[i][2] = shown[i - 1][2] + 1

\* SUCCESS on the page means that the server counted a success, and that every
\* line it logged was on the page before.
SuccessIsShownTruly ==
    badge = "SUCCESS" =>
        /\ result = "success"
        /\ shown # <<>> => shown[Len(shown)][2] = Len(logged)

\* A page that shows SUCCESS and its chart shows the summary of this run's log:
\* totals of the increments printed under each key, not of a run before it and
\* not of lines the server dropped.
SummaryMatchesOutput ==
    badge = "SUCCESS" /\ chart => Summarizes(summary, logged)

\* The button comes back after every click, in spite of refusals, broken
\* connections and handlers that die of an exception.
ButtonReturns == disabled ~> ~disabled

\* The run of a page that closed its stream, was reloaded or lost its connection
\* gives its tool back.
AbandonedRunStops ==
    \A r \in Requests : (job[r] # Nobody /\ r # currentEs) ~> job[r] = Nobody

=============================================================================
