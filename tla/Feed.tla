-------------------------------- MODULE Feed ---------------------------------
(****************************************************************************)
(* What a browser shows of its connections: the messages, the log and the   *)
(* charts of the connection of the active tab, and the statistics polled    *)
(* from the server.                                                         *)
(*                                                                          *)
(* The server counts and logs a message and emits it (StatsService,         *)
(* LogService); the control socket delivers the events in order             *)
(* (useControlSocket); a received message is shown 100 ms after its event;  *)
(* a sent one is shown when the REST call that sent it is answered; tabs    *)
(* are switched, feeds cleared and statistics polled in between.  The       *)
(* connections are open and the browser is in their rooms: what happens     *)
(* otherwise is in Gateway and in ClientTabs.                               *)
(****************************************************************************)
EXTENDS Integers, Sequences, FiniteSets

CONSTANTS
    Conns, NoConn,   \* the connections of the tabs, and a tab without one
    Latencies,       \* latencies that are measured; 0 is none
    Percentiles,     \* percentiles that may be asked for (95 and 99 are)
    MaxMessages,     \* messages the feed keeps, of all connections (1000)
    MaxEntries,      \* log entries the browser keeps, of all connections (5000)
    MaxPerConnection,\* log entries the server keeps of a connection (5000)
    MaxSamples,      \* latencies the server keeps of a connection (100)
    MaxPoints,       \* latencies the chart keeps (100)
    Span,            \* seconds, and minutes, that the charts show (60)
    MaxTraffic,      \* bound: messages and calls
    MaxTime,         \* bound: seconds that pass
    MaxUser          \* bound: times the user switches, clears or polls

ASSUME FeedAssumption ==
    /\ NoConn \notin Conns /\ IsFiniteSet(Conns)
    /\ Latencies \subseteq Nat \ {0}
    /\ Percentiles \subseteq 1..100
    /\ {MaxMessages, MaxEntries, MaxPerConnection, MaxSamples, MaxPoints, Span}
           \subseteq Nat \ {0}
    /\ {MaxTraffic, MaxTime, MaxUser} \subseteq Nat

VARIABLES
    stats,       \* per connection, the counters of its session
    logs,        \* LogService.logs
    wire,        \* control events in flight to the browser, in order
    calls,       \* sends of the composer that are not answered yet
    polls,       \* answers to the statistics panel in flight
    shownConn,   \* the connection of the active tab
    messages,    \* useMessageStore.messages
    delayed,     \* received messages whose 100 ms timer runs, in order
    entries,     \* useLogStore.entries
    timeSeries,  \* useStatsStore.timeSeries
    backendStats,\* useStatsStore.backendStats, {} for none
    globalStats, \* useStatsStore.globalStats, {} for none
    now,         \* the browser's clock, in seconds
    traffic,     \* messages and calls so far, the source of their numbers
    acts,        \* what the user did beside sending
    came,        \* history: the messages received, per connection
    lost,        \* history: how many of them were evicted or cleared
    sentOk,      \* history: sends the server carried out
    marks        \* history: what the charts were told, and when

serverVars == <<stats, logs>>
feedVars   == <<messages, delayed, lost>>
chartVars  == <<timeSeries, marks>>
polledVars == <<backendStats, globalStats>>
boundVars  == <<now, traffic, acts>>
allFeedVars == <<serverVars, wire, calls, polls, shownConn, feedVars, entries,
                 chartVars, polledVars, boundVars, came, sentOk>>

\* The longest end of a list that has at most n elements: slice(-n).
Latest(list, n) ==
    SubSeq(list, IF Len(list) > n THEN Len(list) - n + 1 ELSE 1, Len(list))

\* list.filter: the elements at the places that are chosen, in their order.
Selected(list, places) ==
    LET upTo[n \in 0..Len(list)] ==
            IF n = 0 THEN <<>>
            ELSE IF n \in places THEN Append(upTo[n - 1], list[n]) ELSE upTo[n - 1]
    IN  upTo[Len(list)]

OfConn(list, c) == Selected(list, {i \in DOMAIN list : list[i].conn = c})
NotOfConn(list, c) == Selected(list, {i \in DOMAIN list : list[i].conn # c})

EmptySeries == [messages |-> <<>>, latency |-> <<>>, errors |-> <<>>]

FeedInit ==
    /\ stats = [c \in Conns |-> [sent |-> 0, received |-> 0, samples |-> <<>>]]
    /\ logs = [c \in Conns |-> <<>>]
    /\ wire = <<>> /\ calls = {} /\ polls = {}
    /\ shownConn \in Conns
    /\ messages = <<>> /\ delayed = <<>> /\ entries = <<>>
    /\ timeSeries = [c \in Conns |-> EmptySeries]
    /\ backendStats = [c \in Conns |-> {}] /\ globalStats = {}
    /\ now = 0 /\ traffic = 0 /\ acts = 0
    /\ came = [c \in Conns |-> <<>>]
    /\ lost = [c \in Conns |-> 0]
    /\ sentOk = {}
    /\ marks = [c \in Conns |-> <<>>]

Spend == traffic < MaxTraffic /\ traffic' = traffic + 1 /\ UNCHANGED <<now, acts>>
Act == acts < MaxUser /\ acts' = acts + 1 /\ UNCHANGED <<now, traffic>>

------------------------------------------------------------------------------
(* The server.                                                              *)

\* LogService.log: the oldest entries go.
Log(c, type, id) ==
    logs' = [logs EXCEPT ![c] = Latest(Append(@, [type |-> type, id |-> id]),
                                       MaxPerConnection)]

Emit(c, type, id, latency) ==
    wire' = Append(wire, [conn |-> c, type |-> type, id |-> id, latency |-> latency])

\* The target sends a message; its latency is recorded when there is one.
OnMessage(c, latency) ==
    /\ Spend
    /\ stats' = [stats EXCEPT
           ![c].received = @ + 1,
           ![c].samples = IF latency = 0 THEN @
                          ELSE Latest(Append(@, latency), MaxSamples)]
    /\ Log(c, "received", traffic')
    /\ Emit(c, "received", traffic', latency)
    /\ UNCHANGED <<calls, polls, shownConn, feedVars, entries, chartVars,
                   polledVars, came, sentOk>>

\* The connection answers a ping, fails, or changes its status otherwise; of
\* these the browser is only told.
OnOther(c, type, latency) ==
    /\ Spend
    /\ Emit(c, type, traffic', latency)
    /\ UNCHANGED <<serverVars, calls, polls, shownConn, feedVars, entries, chartVars,
                   polledVars, came, sentOk>>

\* A send reaches the server, which carries it out or answers with an error.
SendMessage(call) ==
    /\ call.state = "asked"
    /\ calls' = (calls \ {call}) \cup {[call EXCEPT !.state = "sent"]}
    /\ stats' = [stats EXCEPT ![call.conn].sent = @ + 1]
    /\ Log(call.conn, "sent", call.id)
    /\ Emit(call.conn, "sent", call.id, 0)
    /\ sentOk' = sentOk \cup {<<call.conn, call.id>>}
    /\ UNCHANGED <<polls, shownConn, feedVars, entries, chartVars, polledVars,
                   boundVars, came>>

RefuseMessage(call) ==
    /\ call.state = "asked"
    /\ calls' = (calls \ {call}) \cup {[call EXCEPT !.state = "refused"]}
    /\ UNCHANGED <<serverVars, wire, polls, shownConn, feedVars, entries, chartVars,
                   polledVars, boundVars, came, sentOk>>

\* DELETE /api/logs/:connectionId.
ClearByConnection(c) ==
    /\ Act /\ logs[c] # <<>>
    /\ logs' = [logs EXCEPT ![c] = <<>>]
    /\ UNCHANGED <<stats, wire, calls, polls, shownConn, feedVars, entries, chartVars,
                   polledVars, came, sentOk>>

------------------------------------------------------------------------------
(* StatsService.                                                            *)

\* A sorted list has the elements of the list in their order.
Occurrences(list, x) == Cardinality({i \in DOMAIN list : list[i] = x})
AtMost(list, x) == Cardinality({i \in DOMAIN list : list[i] <= x})
Sorted(list) ==
    [i \in DOMAIN list |->
        CHOOSE x \in {list[j] : j \in DOMAIN list} :
            AtMost(list, x) >= i /\ AtMost(list, x) - Occurrences(list, x) < i]

\* ceil(p / 100 * n), exactly.  The code computes it in floating point, which is
\* the same for the percentiles it asks for, 95 and 99, of 1 to 100 samples.
Rank(p, n) == (p * n + 99) \div 100

\* Mutant: the index of the percentile is rounded down.
PercentileRoundedDown(samples, p) ==
    LET idx == (p * Len(samples)) \div 100
    IN  IF samples = <<>> THEN 0
        ELSE Sorted(samples)[IF idx < 1 THEN 1 ELSE idx]

\* computePercentile; 0 stands for null.  Sequences count from 1, so the -1 of
\* the index is left out.
ComputePercentile(samples, p) ==
    LET idx == Rank(p, Len(samples))
    IN  IF samples = <<>> THEN 0
        ELSE Sorted(samples)[IF idx < 1 THEN 1 ELSE idx]

GetEnhancedStats(c) ==
    LET s == stats[c] IN
    [sent |-> s.sent, received |-> s.received, of |-> s.samples,
     percentile |-> [p \in Percentiles |-> ComputePercentile(s.samples, p)],
     min |-> IF s.samples = <<>> THEN 0 ELSE Sorted(s.samples)[1],
     max |-> IF s.samples = <<>> THEN 0 ELSE Sorted(s.samples)[Len(s.samples)]]

\* The totals over all connections: each message of each of them counts once.
GetGlobalStats ==
    [sent |-> Cardinality(UNION {{c} \X (1..stats[c].sent) : c \in Conns}),
     received |-> Cardinality(UNION {{c} \X (1..stats[c].received) : c \in Conns})]

\* The panel asks every two seconds and whenever its connection changes, for the
\* totals and for the connection; polls may overtake each other.  The two
\* requests of a poll are served one after the other; no answer depends on the
\* other, so what both would be is taken here when they are made.
Poll ==
    /\ Act
    /\ polls' = polls \cup
           {[conn |-> shownConn, total |-> GetGlobalStats,
             stats |-> IF shownConn = NoConn THEN {} ELSE {GetEnhancedStats(shownConn)}]}
    /\ UNCHANGED <<serverVars, wire, calls, shownConn, feedVars, entries, chartVars,
                   polledVars, came, sentOk>>

\* The connection's answer is stored at once; the totals when both are there,
\* here when the poll is not of a connection any more.
PollAnswered(poll) ==
    /\ poll.conn # NoConn
    /\ backendStats' = [backendStats EXCEPT ![poll.conn] = poll.stats]
    /\ polls' = (polls \ {poll}) \cup {[poll EXCEPT !.conn = NoConn, !.stats = {}]}
    /\ UNCHANGED <<serverVars, wire, calls, shownConn, feedVars, entries, chartVars,
                   globalStats, boundVars, came, sentOk>>

TotalsAnswered(poll) ==
    /\ poll.conn = NoConn
    /\ globalStats' = {poll.total}
    /\ polls' = polls \ {poll}
    /\ UNCHANGED <<serverVars, wire, calls, shownConn, feedVars, entries, chartVars,
                   backendStats, boundVars, came, sentOk>>

\* A call of the poll fails; the rest of it is ignored.
PollFails(poll) ==
    /\ polls' = polls \ {poll}
    /\ UNCHANGED <<serverVars, wire, calls, shownConn, feedVars, entries, chartVars,
                   polledVars, boundVars, came, sentOk>>

------------------------------------------------------------------------------
(* The stores of the browser.                                               *)

\* Mutant: at the limit the newest message goes.
AddedKeepingOldest(m) ==
    Append(IF Len(messages) >= MaxMessages
           THEN SubSeq(messages, 1, Len(messages) - 1) ELSE messages, m)

\* addMessage: the oldest message goes at the limit, whosever it is.
AddedMessage(m) ==
    Append(IF Len(messages) >= MaxMessages THEN Tail(messages) ELSE messages, m)

\* getFiltered: what the feed of a connection shows, an empty one without.
GetFiltered(c, direction) ==
    Selected(messages, {i \in DOMAIN messages :
                           /\ messages[i].conn = c
                           /\ direction \in {messages[i].direction, "all"}})

\* The received messages that leave the feed when list takes its place.
Received(list, c) ==
    Selected(list, {i \in DOMAIN list : list[i].conn = c /\ list[i].direction = "received"})

AddMessage(c, direction, id) ==
    /\ messages' = AddedMessage([conn |-> c, direction |-> direction, id |-> id])
    /\ lost' = IF Len(messages) >= MaxMessages /\ messages[1].direction = "received"
               THEN [lost EXCEPT ![messages[1].conn] = @ + 1] ELSE lost

\* useLogStore.addEntry, one list for all connections.
AddLog(c, type, id) ==
    entries' = Latest(Append(entries, [conn |-> c, type |-> type, id |-> id]), MaxEntries)

\* Mutant: a bucket at the edge of the window is kept.
BumpKeepsEdge(buckets, field) ==
    LET kept == Selected(buckets, {i \in DOMAIN buckets : buckets[i].time >= now - Span})
        last == kept[Len(kept)]
    IN  IF kept # <<>> /\ last.time = now
        THEN [kept EXCEPT ![Len(kept)][field] = @ + 1]
        ELSE Append(kept, [[sent |-> 0, received |-> 0, errors |-> 0, time |-> now]
                              EXCEPT ![field] = 1])

\* Buckets that left the window go; the event counts in the bucket of now.
Bump(buckets, field) ==
    LET kept == Selected(buckets, {i \in DOMAIN buckets : buckets[i].time > now - Span})
        last == kept[Len(kept)]
    IN  IF kept # <<>> /\ last.time = now
        THEN [kept EXCEPT ![Len(kept)][field] = @ + 1]
        ELSE Append(kept, [[sent |-> 0, received |-> 0, errors |-> 0, time |-> now]
                              EXCEPT ![field] = 1])

Mark(c, field, latency) ==
    marks' = [marks EXCEPT ![c] =
                 Append(@, [field |-> field, time |-> now, latency |-> latency])]

\* useStatsStore.recordMessage.
RecordMessage(c, field, latency) ==
    /\ timeSeries' = [timeSeries EXCEPT
           ![c].messages = Bump(@, field),
           ![c].latency = IF latency = 0 THEN @ ELSE Latest(Append(@, latency), MaxPoints)]
    /\ Mark(c, field, latency)

\* useStatsStore.recordError; a minute of the code is a second here.
RecordError(c) ==
    /\ timeSeries' = [timeSeries EXCEPT ![c].errors = Bump(@, "errors")]
    /\ Mark(c, "errors", 0)

------------------------------------------------------------------------------
(* useControlSocket: the next event of the control channel.                 *)

\* A message is counted and logged at once; a received one is shown later.
HandleMessage(ev) ==
    /\ ev.type \in {"received", "sent"}
    /\ RecordMessage(ev.conn, ev.type, ev.latency)
    /\ AddLog(ev.conn, ev.type, ev.id)
    /\ \/ /\ ev.type = "received"
          /\ delayed' = Append(delayed, [conn |-> ev.conn, id |-> ev.id])
          /\ came' = [came EXCEPT ![ev.conn] = Append(@, ev.id)]
       \/ ev.type = "sent" /\ UNCHANGED <<delayed, came>>
    /\ UNCHANGED <<messages, lost>>

HandlePong(ev) ==
    /\ ev.type = "pong"
    /\ AddMessage(ev.conn, "system", ev.id)
    /\ RecordMessage(ev.conn, "received", ev.latency)
    /\ UNCHANGED <<delayed, came, entries>>

HandleError(ev) ==
    /\ ev.type = "error"
    /\ AddMessage(ev.conn, "system", ev.id)
    /\ RecordError(ev.conn)
    /\ AddLog(ev.conn, ev.type, ev.id)
    /\ UNCHANGED <<delayed, came>>

\* open, close, reconnecting.
HandleStatus(ev) ==
    /\ ev.type = "status"
    /\ AddMessage(ev.conn, "system", ev.id)
    /\ AddLog(ev.conn, ev.type, ev.id)
    /\ UNCHANGED <<delayed, came, chartVars>>

Receive ==
    /\ wire # <<>>
    /\ wire' = Tail(wire)
    /\ \/ HandleMessage(wire[1]) \/ HandlePong(wire[1])
       \/ HandleError(wire[1]) \/ HandleStatus(wire[1])
    /\ UNCHANGED <<serverVars, calls, polls, shownConn, polledVars, boundVars, sentOk>>

\* The timers are equally long, so they fire in the order they were set.
ShowReceived ==
    /\ delayed # <<>>
    /\ delayed' = Tail(delayed)
    /\ AddMessage(delayed[1].conn, "received", delayed[1].id)
    /\ UNCHANGED <<serverVars, wire, calls, polls, shownConn, entries, chartVars,
                   polledVars, boundVars, came, sentOk>>

------------------------------------------------------------------------------
(* The user.                                                                *)

\* handleSend of the composer; Ctrl+Enter sends again while a call is under way.
Send ==
    /\ shownConn # NoConn /\ Spend
    /\ calls' = calls \cup {[conn |-> shownConn, id |-> traffic', state |-> "asked"]}
    /\ UNCHANGED <<serverVars, wire, polls, shownConn, feedVars, entries, chartVars,
                   polledVars, came, sentOk>>

\* Mutant: the message is stored under the connection that is shown by then.
SendAnsweredElsewhere(call) ==
    /\ call.state # "asked" /\ shownConn # NoConn
    /\ calls' = calls \ {call}
    /\ AddMessage(shownConn, IF call.state = "sent" THEN "sent" ELSE "system", call.id)
    /\ UNCHANGED <<serverVars, wire, polls, shownConn, delayed, entries, chartVars,
                   polledVars, boundVars, came, sentOk>>

\* The call is answered and the message is shown; or the error, also when the
\* message was sent and its answer was lost or late.
SendAnswered(call) ==
    /\ call.state # "asked"
    /\ calls' = calls \ {call}
    /\ \/ call.state = "sent" /\ AddMessage(call.conn, "sent", call.id)
       \/ AddMessage(call.conn, "system", call.id)
    /\ UNCHANGED <<serverVars, wire, polls, shownConn, delayed, entries, chartVars,
                   polledVars, boundVars, came, sentOk>>

SwitchTab(c) ==
    /\ c # shownConn /\ Act
    /\ shownConn' = c
    /\ UNCHANGED <<serverVars, wire, calls, polls, feedVars, entries, chartVars,
                   polledVars, came, sentOk>>

\* clearMessages: of one connection, or of all without an argument.
ClearMessages(c) ==
    /\ messages' = IF c = NoConn THEN <<>> ELSE NotOfConn(messages, c)
    /\ lost' = [x \in Conns |-> IF c \in {x, NoConn}
                                THEN lost[x] + Len(Received(messages, x)) ELSE lost[x]]
    /\ UNCHANGED <<serverVars, wire, calls, polls, shownConn, delayed, entries,
                   chartVars, polledVars, came, sentOk>>

\* The Clear button of the feed, which is there in an empty tab too.
ClearFeed == messages # <<>> /\ Act /\ ClearMessages(shownConn)

\* Ctrl+L and the command palette.
ClearHistory == messages # <<>> /\ Act /\ ClearMessages(NoConn)

\* The Clear button of the log.
ClearLog ==
    /\ shownConn # NoConn /\ Act
    /\ OfConn(entries, shownConn) # <<>>
    /\ entries' = NotOfConn(entries, shownConn)
    /\ UNCHANGED <<serverVars, wire, calls, polls, shownConn, feedVars, chartVars,
                   polledVars, came, sentOk>>

Tick ==
    /\ now < MaxTime /\ now' = now + 1
    /\ UNCHANGED <<serverVars, wire, calls, polls, shownConn, feedVars, entries,
                   chartVars, polledVars, traffic, acts, came, sentOk>>

ServerStep ==
    \/ \E c \in Conns, l \in Latencies \cup {0} : OnMessage(c, l)
    \/ \E c \in Conns, l \in Latencies : OnOther(c, "pong", l)
    \/ \E c \in Conns, t \in {"error", "status"} : OnOther(c, t, 0)
    \/ \E call \in calls : SendMessage(call) \/ RefuseMessage(call)
    \/ \E c \in Conns : ClearByConnection(c)

BrowserStep ==
    \/ Receive \/ ShowReceived \/ Send \/ Poll \/ ClearFeed \/ ClearHistory \/ ClearLog
    \/ \E call \in calls : SendAnswered(call)
    \/ \E poll \in polls : PollAnswered(poll) \/ TotalsAnswered(poll) \/ PollFails(poll)
    \/ \E c \in Conns \cup {NoConn} : SwitchTab(c)

FeedNext == ServerStep \/ BrowserStep \/ Tick

FeedSpec == FeedInit /\ [][FeedNext]_allFeedVars

------------------------------------------------------------------------------
(* Properties.                                                              *)

IdsOf(list) == [i \in DOMAIN list |-> list[i].id]

\* The received messages of a connection that the feed shows or is about to
\* show are the latest ones that came, in the order they came; the others were
\* evicted by the limit or cleared, whatever was sent, cleared and switched
\* while their timers ran (useControlSocket.ts:136-154, messageStore.ts:46-58).
ReceivedOnceInOrder ==
    \A c \in Conns :
        IdsOf(GetFiltered(c, "received")) \o IdsOf(OfConn(delayed, c))
            = SubSeq(came[c], lost[c] + 1, Len(came[c]))

\* A sent message is shown once, in the feed of the connection it was sent on,
\* and only when the server sent it; a message is never shown as sent and as
\* failed, nor while its call is under way.  Between the call and its answer the
\* tab may be switched and other calls answered (MessageComposer.tsx:66-104).
SentWhereItWasSent ==
    /\ \A i \in DOMAIN messages : messages[i].direction = "sent" =>
          <<messages[i].conn, messages[i].id>> \in sentOk
    /\ \A i, j \in DOMAIN messages :
          i # j => messages[i].id # messages[j].id
    /\ \A call \in calls : \A i \in DOMAIN messages : messages[i].id # call.id

\* How often field was marked at a time.
Marked(c, field, time) ==
    Cardinality({i \in DOMAIN marks[c] :
                    marks[c][i].field = field /\ marks[c][i].time = time})

\* Buckets are in order, one per time, and count what came then; nothing that
\* came within Span of the last one is missing and nothing older is left.
CountsWindow(c, buckets, fields) ==
    LET end == buckets[Len(buckets)].time
        bucketsAt(t) == {i \in DOMAIN buckets : buckets[i].time = t}
    IN  buckets # <<>> =>
        /\ \A i \in DOMAIN buckets : i > 1 => buckets[i-1].time < buckets[i].time
        /\ \A t \in 0..MaxTime, f \in fields :
              IF t > end - Span /\ t <= end
              THEN Marked(c, f, t) = IF bucketsAt(t) = {} THEN 0
                                     ELSE buckets[CHOOSE i \in bucketsAt(t) : TRUE][f]
              ELSE bucketsAt(t) = {} /\ (t > end => Marked(c, f, t) = 0)

\* The charts of a connection show exactly the last Span seconds (minutes, for
\* errors) before its last event, second by second, and its latest latencies
\* (statsStore.ts:89-158).  Nothing of the last Span seconds before now is ever
\* missing; but the buckets only go when an event comes, so a connection that
\* fell silent keeps showing older ones, where the panel says "last 60s"
\* (StatsPanel.tsx:182).
ChartsCountTheWindow ==
    \A c \in Conns :
        /\ CountsWindow(c, timeSeries[c].messages, {"sent", "received"})
        /\ CountsWindow(c, timeSeries[c].errors, {"errors"})
        /\ LET timed == Selected(marks[c], {i \in DOMAIN marks[c] : marks[c][i].latency # 0})
           IN  timeSeries[c].latency
                  = Latest([i \in DOMAIN timed |-> timed[i].latency], MaxPoints)

\* v is the least sample that at least p percent of the samples do not exceed.
IsPercentile(v, samples, p) ==
    LET good(x) == 100 * AtMost(samples, x) >= p * Len(samples)
        values == {samples[i] : i \in DOMAIN samples}
    IN  v \in values /\ good(v) /\ \A x \in values : good(x) => v <= x

\* The statistics that a poll shows have the nearest-rank percentiles and the
\* extremes of the samples they were computed from, however many there are, and
\* are never ahead of the server's counters (stats.service.ts:35-67).
PolledAreRanks ==
    /\ \A total \in globalStats :
          total.sent <= GetGlobalStats.sent /\ total.received <= GetGlobalStats.received
    /\ \A c \in Conns : \A s \in backendStats[c] :
          /\ s.sent <= stats[c].sent /\ s.received <= stats[c].received
          /\ s.of # <<>> =>
                /\ \A p \in Percentiles : IsPercentile(s.percentile[p], s.of, p)
                /\ \A i \in DOMAIN s.of : s.min <= s.of[i] /\ s.of[i] <= s.max
==============================================================================
