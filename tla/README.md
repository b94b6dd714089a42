# A TLA+ model of Socket Tester

Socket Tester is a proxy with a browser interface: the browser asks the NestJS
server (`src/src`) over REST to open a WebSocket, Socket.IO, MQTT or AMQP
connection to some target, and follows that connection over a *control channel*,
one Socket.IO socket per browser, in which it joins one room per connection.
These modules model the parts of it where the order of events matters: a
connection's life on the server in each of the four protocols, the control
channel between the server and the browsers, the tests that run beside a
connection, the browser's tabs, feeds and panels, and what browsers store.

## 1. Inventory

| Component (source) | State | Operations | Talks to |
|---|---|---|---|
| **Session** `session.service.ts`, `session.types.ts` | per connection: status, counters, latency samples, replay buffer, MQTT topics, close callback | create, updateStatus, record*, bufferMessage, add/removeMqttTopic | called by every protocol service, read by gateway and statistics |
| **Events gateway** `events.gateway.ts` | Socket.IO rooms | join (with replay), leave, emitToConnection | reads and empties the session's buffer; browsers |
| **WebSocket proxy** `websocket.service.ts`, controller | `sockets`, `pingTimestamps`, `pingResolvers` | create, send, ping, DELETE; handlers of open, message, error, close, ping, pong; `pingAsync` with its timeout | session, gateway, network conditions, log |
| **Socket.IO proxy** `socketio.service.ts` | clients, `subscribedEvents`, `failedConnections` | create, send, subscribe, DELETE; handlers of the client; a 200 ms clean-up | session, gateway |
| **MQTT proxy** `mqtt.service.ts` | clients, `subscribedTopics` | create, subscribe, unsubscribe, publish, DELETE; handlers and callbacks of the client | session, gateway, topics panel |
| **AMQP proxy** `amqp.service.ts` | states: connection, channel, delivery and consumer tags | create, setup, consume, ack, publish, DELETE; continuations of their awaits | session, gateway |
| **Network conditions** `network-condition.service.ts` | `conditions`, forced-disconnect `timers` | set, clear, delay, loss, scheduleDisconnect | called from the WebSocket proxy's handlers |
| **Performance tests** `performance.service.ts` | `activeTests`, `results`, two async loops | start latency, start throughput, abort, read | `pingAsync` and `sendMessage`, gateway |
| **Statistics, logs** `stats.service.ts`, `log.service.ts` | none / one bounded list per connection | percentiles, totals; append, clear, export | session; polled by the statistics panel |
| **Shares** `share.service.ts` | tokens with expiry | create, read | shared-configuration page |
| **Control socket hook** `useControlSocket.ts` | `joinedRooms`, one socket | join rooms as tabs change, fold events into the stores | all client stores |
| **Tabs store** `connectionStore.ts` | tabs, active tab, flat copy `activeConnection` | add, close, select, set connection, update status, topics | form, shortcuts, tab bar, hook |
| **Form, tab bar, shortcuts, palette** | one form for all tabs | connect, disconnect, save, tab operations, clear | REST, tabs store, message store |
| **Message, log and statistics stores** | bounded lists of all connections, time buckets per connection | add, filter, clear, record | hook, composer, feed, panels |
| **Composer, feed, topics panel** | a draft; the panel's own topics | send; clear; subscribe, unsubscribe | REST, stores |
| **Network and performance panels** | one form; one test state | ask, apply, clear; start, abort | REST, window events of the hook |
| **Saved configurations, workspaces** `useSavedConfigs.ts`, `workspaceStore.ts` | a copy in each window, and localStorage | load, save, delete; create, import, export, delete, choose, edit | localStorage |
| **UI state, toasts, pages** | flags | setters | – |

Everything on the server runs on one Node event loop, so a handler is atomic;
what interleaves is handlers of the library, REST calls, timers and the
continuations of `await`. In the browser likewise: user events, answers of REST
calls, events of the control socket, React effects. Nothing is persisted on the
server. A control socket can drop and come back and loses its rooms and what was
in flight. A window reads localStorage once, when it is loaded.

What makes each part correct:

- *lifecycle*: the session's status follows the connection; a DELETE is final;
  after the end no ping waits, no disconnect is armed and no map names the
  connection;
- *room*: a message is counted once and forwarded once; a browser that joins
  late is brought up to date and one that is there is told the same thing;
- *subscriptions and deliveries*: the session lists the topics the broker grants,
  and the tab shows those; what the broker waits to see settled can be settled;
- *pings and tests*: every ping settles; one test per connection; a test always
  completes and its result says when it is partial;
- *tabs*: the flat copy equals the active tab's connection; a connection is in
  one tab; the socket is in the rooms of the connections the tabs show;
- *what is shown*: the feed has what came, in order, and what was sent, where it
  was sent; charts and percentiles are those of the traffic; a panel that serves
  all tabs does not show one connection's state as another's;
- *storage*: the active workspace exists, and a saved configuration is kept until it
  is deleted.

`PROJECT.json` lists the hazards at their lines, with the properties that cover
them.

## 2. Modules

```
Session <- Gateway <- WsProxy <- Performance
                  <- Proxied <- SocketIoProxy, MqttProxy, AmqpProxy <- Proxies

ClientTabs          Feed <- Panels,   Storage + Panels <- Browser

ConnectionLife, instantiated by WsProxy and Proxies

Proofs:  Gateway <- GatewayProofs <- WsProxyProofs (and WsProxy) <- PerformanceProofs
                                  <- ProxiesProofs (and Proxies) <- ProxiesRoomProofs
         ClientTabs <- ClientTabsProofs,  Feed <- FeedProofs <- BrowserProofs (and Browser)

                                                    (A <- B : B extends A)
```

**ConnectionLife.tla.** The abstract specification of a connection's status over
its life, for every protocol: it comes up from "connecting" or "reconnecting"
only; once failed or ended it comes back only through a retry, if its client
retries at all; a deleted connection stays down, but for one that was deleted while
it was being made, when there was nothing to end yet (`missed`). `RefinesLife` in
`WsProxy` and in `Proxies` maps `status` to the session's, `deleted` to the history
variable, `retries` to whether the client reconnects by itself, and `missed` to
`StillComing`: FALSE for WebSocket, Socket.IO and MQTT, whose create calls leave the
close callback in the session in the job that makes it, and in AMQP true from a
DELETE that came while `createConnection` awaits the broker until it went on.

**Session.tla.** The session as a record and `SessionService`'s methods as
operators. Byte counts, URLs, timestamps and error texts are left out; the
samples are counted, with their cap.

**Gateway.tla.** One connection's room, the session it replays from, and for each
browser the events in flight (`inbox`), the status its tab shows (`view`) and the
messages it received (`seen`). `Join` is `handleJoinConnection` with its replay
and the clearing of the buffer, `ViewAfter` the handlers of `useControlSocket`
on the tab's status. It serves all four protocol services.

**WsProxy.tla.** `WebSocketService` and `NetworkConditionService` on one
connection. One action per handler (`OnOpen`, `OnMessage`, `OnMessageDropped`,
`OnError`, `OnClose`, `OnPong`), per REST operation (`SendMessage`, `SendPing`,
`CloseConnection`, `SetCondition`, `ClearCondition`), per timer (`ForwardDelayed`,
`PingTimeout`, `CutConnection`) and for `pingAsync`. The `ws` library is external:
`ws` holds its state and `AfterWsClose`, `HandshakeRejected` and `PeerEnds` say how
it moves; a failed or aborted handshake emits `error` and `close` in one job
(`HandshakeFails`), any other error is followed by `close` later. The maps of the
service become `tracked`, `pingTs`, `namedPing`, `resolver`; a timer is armed
(`pingTimers`, `cutTimer`) or not. `deleted`, `forwarded`, `evicted`, `joined` and
`primary` are history: they occur in no guard and only properties read them.
A frame with no delay is forwarded in the job it arrives in (the code does it in
a microtask of that job).

**Proxied.tla.** What the other three services share: the state of the library's
client (`link`), the entry in the service's map (`tracked`), the browsers joining,
receiving, dropping and returning, and the topics each tab shows.

**SocketIoProxy.tla.** Connection attempts with and without automatic
reconnection, the error that is reported once per failure (`failed`), the
clean-up timer it arms (`SioCleanUp`), events seen by `onAny` and once more by an
explicit subscription, acknowledgements, DELETE. `Backoff` says when
`socket.io-client` tries again. A subscribed event that carries nothing makes the
listener throw, which ends the server (`exited`): no job follows, and no join.

**MqttProxy.tla.** Connection, `error` and `close` (the service sets
`reconnectPeriod: 0`), and the subscriptions: requests the broker has not served,
answers the client has not handled, the topics it grants, and `MqttTopicsPanel`,
which changes the tab when its call is answered and not when the broker grants it
(`PanelRequest`, `PanelAnswered`; `guessed` is the history of that).

**AmqpProxy.tla.** `createConnection`, `setup` and `consume` split at their awaits,
deliveries and their tags, acknowledgement of one or many, and `session.close`,
which awaits the broker three times and may run twice at once (`closers`). A channel
error becomes a connection error, since the channel has no listener for it. The
session is there before the first await, and a URL that cannot be parsed leaves it
"connecting" for good (link "invalid"). `AmqpDelete` has no guard but a session: while
the connection is being made it finds no close callback (`Clientless`), and `AmqpOpen`
does not look at what it did.

A DELETE of any protocol goes through one route, `WebSocketService.closeConnection`:
`SioDelete`, `MqttDelete` and `AmqpDelete` are its two halves, the service's close
callback (`SioSessionClose`, `MqttSessionClose`, `AmqpSessionClose`) and the status. The
services' own `closeConnection` methods have no caller.

**Proxies.tla.** The three in one specification: `protocol` is chosen at first and
the variables of the other two stay idle.

**Performance.tla.** `PerformanceTestService` composed with the WebSocket
connection. Each test is a record with a program counter: `await` (a ping), `sleep`
(interval or pause), `done`. Starting a test runs it to its first await in the same
action; `Resume`, `WakeLatency` and `WakeThroughput` are the continuations. `PingRound`
and `SendRound` are `pingAsync` and `sendMessage` called from the loops. In this
composition only tests call `pingAsync`, as in the code. The clock of a throughput
test is a bound on its sends, and it may also run out before.

**ClientTabs.tla.** The tabs store, the form's connect and disconnect, Ctrl+D and
the palette, and the rooms `useControlSocket` joins. A REST call is a record in
`posts` or `closing` until its answer is handled. `SyncRooms` is the effect on
`[tabs]`: it evicts, joins at once when the socket is connected, and otherwise
leaves a `once('connect')` listener (`waiting`). The server is left out: any event
may arrive for a connection whose room the socket is in, which includes
everything `Gateway` can send.

**Storage.tla.** Windows that share localStorage: each loads once and from then on
writes back its whole copy of the saved configurations or of the workspaces. With
them the server's shares and the page that imports one, and workspace files
exported here or written by hand. A job of a window is atomic, so the two items
`persist` writes change together. `removed` and `contested` are history: the
configurations that were deleted, and those saved or deleted while another window was
open, whose copy goes on without the change. That a share is stored without its
credentials (`sanitize`) is abstracted: a configuration is its name.

**Feed.tla.** Two open connections, the server's counters and logs for them, the
events in flight in order, the sends of the composer that are not answered, the
polls of the statistics panel, and the stores: messages (shown 100 ms after their
event), log entries, buckets and latencies. A send may be carried out and its
answer lost (the API client gives up after 15 s), in which case the composer shows
an error. `ComputePercentile` is `computePercentile`, with its ceiling. `Selected` is
`Array.filter`: a recursive function over the places of a list, in whose place the
library's `SelectSeq` would be opaque to the proofs.

**Panels.tla.** The network panel, which goes and comes with the sidebar, and the
performance panel, which does with its content tab. Each keeps one state for all
connections; a call is a record that knows its connection, whether the server
served it and what it answered, so that answers come late, out of order or not at
all, after the tab was switched or the panel left. What conditions and tests do to
a connection is in `WsProxy` and `Performance`; here a test only progresses and ends.

**Browser.tla.** Storage, feed and panels for one TLC run: a behaviour exercises one
of the parts, which share nothing but the tab that is shown.

**MC*.tla, MC*.cfg.** Instances for TLC. **\*Proofs.tla**: theorems.

`PROJECT.json` "map" names the source lines of every definition. Operators marked
"Mutant" stand beside the definition they change the way a plausible mistake would;
no specification uses them. Each property has one under which TLC finds it
violated.

## 3. Model checking

| Run | Instance | Checks | Distinct states |
|---|---|---|---|
| `ws_feed` | 2 browsers, 2 messages, buffer 1, 3 network conditions, 2 REST calls, 1 control-socket drop | types, status agreement, first joiner's feed, counting, forced disconnects, DELETE is final | 1.9 M |
| `ws_lifecycle` | 1 browser, 1 message, 2 overlapping pings, 1 condition, 2 REST calls, 1 leave | what `close` leaves behind, ping bookkeeping, refinement of ConnectionLife; liveness: closes, news of it, pings, delayed messages | 260 k |
| `performance` | 2 tests of either kind, 2 pings or 2 sends each, 2 REST calls, 1 condition | tests kept apart, honest results, abort; liveness: tests complete | 86 k |
| `client_tabs` | 2 tabs open, 3 ever, 2 connections, 1 drop | types, flat copy, one tab per connection, rooms | 1.1 M |
| `proxies` | each of the 3 protocols, 1 browser, 2 messages, 2 REST calls, 1 control-socket drop, buffer 1, 1 retry, 1 loss of the target | types, status and client, status and room, first joiner's feed (Socket.IO), topics (MQTT), deliveries (AMQP), refinement of ConnectionLife; liveness: news of the end, DELETE | 633 k |
| `browser` | 2 windows, 3 saved configurations of which 2 are kept, 3 workspaces, 1 share; 2 connections, 3 messages or calls, lists of 2, a chart of 2 seconds over 3; 3 panel calls | active workspace, configurations kept; feed, sends, charts, percentiles; network and performance panel | 1.5 M |
| `no_duplicate_on_rejoin`, `late_joiner_sees_error`, `rooms_rejoined`, `each_in_its_own_tab`, `retries_are_made`, `deleted_stays_down` | small instances of the same | one statement of a comment, the README or the guide each, which the code does not keep (section 6) | – |

*Why the bounds are enough.*

- Buffer 1 with 2 messages makes the buffer overflow, which is the only thing its
  size can do; 100 behaves the same later. Two messages with delay 2 ± 1 are enough
  for one to overtake the other. Two pings are enough for one to supersede, outlive
  or be confused with another.
- Two REST calls cover every ordered pair of them (send then DELETE, two DELETEs,
  subscribe then unsubscribe, consume then ack, condition set then cleared) at every
  point of the connection's life. Two browsers separate what the first to join gets
  from what the second gets. Two tests are a running one and one that must wait.
- In `client_tabs` three tab ids allow a tab to be closed and another opened while
  two calls are unanswered.
- In `proxies`, `MaxAttempts` 1 and `MaxLosses` 1 give a Socket.IO client a failure, a
  retry and a failure of the retry, before and after it was connected;
  `retries_are_made` has two attempts, so that one is left to be lost. `MaxSetup` 2
  gives a setup a first, a middle and a last await. One topic suffices because the
  operators treat topics apart; it can be subscribed twice.
- In `browser`, lists of two with three messages overflow; three workspaces are two
  in the storage and one a window does not know of; `Span` 2 with `MaxTime` 2 has a
  bucket that leaves the window, one at its edge and a gap; percentiles 1, 34, 50, 67,
  95, 99 and 100 of up to two samples fall on, before and after every rank. `MaxAsked`
  3 lets two calls overlap and a third follow, `MaxUser` 2 a tab be left and shown
  again. Windows, and connections, are symmetric: all start alike, and any connection
  may be the one that is shown first.

*Deadlock* is not checked: a connection that is closed, with its bounds used up,
has nothing left to do, and a page whose user does nothing is idle.

### Fairness

`WsProxy!FairSpec` assumes only what the runtime guarantees: timers fire
(`PingTimeout`, `ForwardDelayed`, `CutConnection`), a connected control socket
delivers what was emitted (`Receive`), an aborted handshake reports, and the `ws`
library emits `close` once it is closing, because it destroys the TCP socket after
30 s. Nothing is assumed of the target (it need not answer, close or send), of
users and REST callers, or of control sockets' failures. `FairPerfSpec` assumes that
the event loop resumes a test whose promise is settled or whose sleep is over, and
that ping timeouts fire; it assumes nothing of the connection, so `TestsComplete`
rests on the timeout and on the rejection in the `close` handler only.
`Proxies!FairSpec` assumes delivery by the control socket, that the clean-up timer
fires, that `mqtt.js` emits `close` once its stream has failed or `end` was called,
and that `amqplib` settles the cancellation and the closing it was asked for, with
the broker's answer or with an error. Connecting, retrying and being served by the
broker are not assumed. The browser's run has no fairness and checks safety only.

## 4. Proofs

All theorems are for every set of clients, windows, conditions and topics, for every
finite set of connections in the feed (its totals are a cardinality), and for all
bounds. Every safety property that a passing run checks is a theorem.

- `GatewayProofs` has no theorem about a specification: it is the lemmas the two
  services' proofs have in common. *What a browser hears*: appending events without
  a status, an `open`, a `close`; taking the first event; joining and being replayed
  to. *What a browser was sent*: how many elements of a set a sequence holds
  (`Count`) after an append, a concatenation, a tail; which messages are received or
  in flight (`GotOf`, `TakenOf`); what a buffer of different messages holds after one
  more came and, when it is full, the oldest went (`BufferKeeps`). None of them
  expands a definition of a service.
- `WsProxyProofs`: `TypeCorrect`, by one lemma per group of actions. `Lifecycle` is
  the inductive invariant of the connection: the four properties it implies
  (`ClosedIsSettled`, which says what a close and what a DELETE leave behind,
  `DeletedNeverReconnects`, `PendingPingIsRegistered`, `CutNeedsCondition`) and one fact that makes them inductive together, that a
  deleted connection is not in its handshake any more; without it `open` could
  follow a DELETE. `RoomHearsTheSession` follows from `Hearing`, which adds that
  while the session is connecting no browser shows it as up or has a status event
  in flight, and that the replay buffer holds no status event, so that a replay
  ends with the `open` it begins with.
  `ImplementsConnectionLife`: every step is a step of `ConnectionLife` or leaves its
  variables alone; `Lifecycle` supplies that `open` comes from "connecting".
  `EachMessageIsCountedOnce` from `Counted`, which adds that the delayed messages are
  different, have arrived and were not forwarded: so a forwarded one is new to the
  set whose size is compared. `FirstJoinerIsServed` needs three invariants besides:
  `Unopened` (before `open` no message arrived), `Waiting` (before the first join
  nothing was sent to anybody) and `Served`, which is about two times at once: until
  somebody joins, the buffer holds exactly the forwarded messages that were not
  shifted out, each once; from then on the first to join has them, received or in
  flight, each once. Its join is the step that carries one half into the other.
- `ProxiesProofs`: `SessionFollowsClient` and `ImplementsConnectionLife` from `Course`,
  which says for each protocol which statuses the session can have in each state of
  the client (`SioCourse`, `MqttCourse`, `AmqpCourse`); one lemma per protocol shows
  that its jobs keep it, and `BrowsersFollow` that the browsers' steps only touch the
  buffer. Of an AMQP connection that is being made `AmqpCourse` says that it is
  connecting, or that it was deleted and nothing was ended: the one case in which
  `ConnectionLife` lets a deleted connection come up. `Course` asks of the session that it is `Sound` (a record with a status and a
  number of errors) and not for its whole type, so it does not rest on the types.
  `DeliveriesCanBeSettled` from the stronger `Settleable`, that the deliveries the
  broker waits for are always among the service's tags.
- `ProxiesRoomProofs` builds on `Course`, one invariant upon the other:
  - `Typed` is `TypeOK` and what it needs to be inductive: the buffer holds messages
    that came, events are about topics there are, and awaited acknowledgements and
    closings are at most as many as the calls. It gives `ProxiesTypeCorrect`.
  - `Heard` gives `ProxiedRoomAgreesWithSession`. It adds that nobody hears anything
    while the session is connecting, that the status is "reconnecting" only for a
    client that retries, and that who has neither joined nor dropped shows
    "connecting" still: a browser that joins while the client reconnects is told
    nothing, and is excused only if it was there before.
  - `Ledger` gives `TopicsAreThoseGranted`: for every topic, applying to the
    session's list the answers that are on their way yields what the broker grants.
    "Applying" is not a recursion: `Ends(q, adds, about, now)` says that the last
    element of `q` in `about` decides, or `now` when there is none; `EndsAppend` and
    `EndsTail` are all that is needed of it. That the list names no topic twice
    (`Different`) is what makes a removal a removal.
  - `Known` gives `TopicsAreKnown` with the same `Ends`, over the events in a
    browser's inbox and what its tab shows.
  - `Delivered` gives `FirstBrowserIsServed`, and has the two halves of `Served`; the
    messages have one copy, or two if the event was subscribed to, which `Copies`
    counts.
- `PerformanceProofs`: `PerfTypeCorrect`, `TestsAreSeparate` (of `TestsKeptApart`,
  which is `OneTestAtATime` and `PingBelongsToTest`), `UnmarkedResultsAreWhole` and,
  as an action property, `AbortedTestsSendNothing`. The inductive invariant is `TypeOK /\ Lifecycle /\ Tests`.
  First `ConnectionKept`: a step of a test keeps what was proved of the connection,
  because a ping round is a `PingAsync` step and any other step only emits, counts a
  send and sets a timestamp. Then `Tests`, where `Sound` says which records a test
  can have. The argument that one ping resolver is enough goes through `Lifecycle`: a
  ping whose promise settled is not registered any more, so when a test resumes no
  ping is registered and its next one supersedes nothing. `TestMoves` is the one
  lemma through which every start, continuation and end goes.
  `TestsDisturbNothing` and `LifeUnderTests` carry everything proved of a connection by
  itself over to one under tests. `TestsOnlyMakeNoise` says what a test is to its
  connection: a `PingAsync`, or a step that at most emits events without status or
  message, counts a send and sets its timestamp; `NoiseKeepsPromises`, that such a step
  breaks none of the invariants of `WsProxyProofs` (`Promises` is all of them).
- `ClientTabsProofs`: `TypeCorrect`; `RoomsFollowTabs` from the inductive invariant
  `Rooms`, which adds that while the socket is down it is in no room and claims
  none, and that before the first drop it then has a join waiting for `connect`;
  `FlatCopyIsDerived` from `Derived`, which adds that tab ids are distinct and not
  beyond the counter they come from, so that `tabs.map` over an id changes one tab
  and a new tab's id is new; `ConnectionsAreShownOnce` by adding that the connections
  of answers that are still to be stored are different, and shown by no tab: so an
  answer stored in whatever tab is active adds one that is nowhere yet.
- `FeedProofs`, about `FeedSpec`, has four theorems and what they need of lists.
  - *Filters and sorts.* What a recursive definition yields for every list is an
    induction, for which the library's theorems would need an operator as a parameter;
    `NatInSet` and `SeqInSet` state it for a set instead (of the numbers, or sequences,
    that have a property). With them: what `Selected` keeps (`PickedFrom`,
    `PickedOrder`, `PickedAll`), and how it goes with an append, a tail and a
    concatenation; that at the i-th place of a sorted list stands a value that at
    least i elements do not exceed and fewer than i are below (`SortedIs`), and that a
    finite set of numbers has a least and a greatest (`Extremes`).
  - `SentIsShownWhereItWasSent` from `OnePlace` and `CarriedOut`: an id is in one place,
    the feed, a timer, the wire or a call that is not answered; and what is shown as
    sent, and each call the server has carried out, went out on its connection. An
    answer moves its id from the calls to the feed, of the connection that was shown
    when the call was made.
  - `ReceivedIsShownOnceInOrder` from `InOrder`: for every connection what came is what
    was lost, then what is shown, then what is about to be shown. Each action moves the
    end of one of the three: an event appends to the last, a timer moves the first of
    the last to the second, the limit and a clear move what they take to the first.
  - `PolledStatisticsAreRanks` from `Sound`: statistics in flight or shown have
    the percentiles and extremes of the samples they were computed of, and counts that
    the server has reached (`HasRanks`, `IsBehind`), since counters only grow. That the
    ceiling of p n / 100 is the place of the nearest rank in the sorted samples is
    proved for every p, n and list (`RankIs`, `SortedIs`, `PercentileIs`).
  - `ChartsCountTheirWindow` from `ChartsTold`: buckets are in order of time, count the
    marks of their time, none has left the window of the last one, and there is one for
    every time of that window that has a mark (`Counting`). That holds at the last mark and
    hence at any later time (`KeptBuckets`, `BumpCounts`); and the latencies are the latest of all, since taking the latest of a list already cut loses
    nothing (`LatestTwice`).
- `BrowserProofs`, about `Storage`, `Panels` and `Browser`:
  - *Storage.* `ActiveWorkspaceExists` from `Consistent`, whose parts are the types and
    `Listings` (in every window, and in the storage, the active workspace is listed, ids
    are distinct, and none is beyond the last one given out). The lemmas `WithoutListing`,
    `AppendListing` and `EditListing` say what deleting, adding and editing do to a
    listing; `Persisting` is the one lemma through which every change of a workspace goes.
    `ConfigurationsAreKept` from `Remembered`: not only the storage has every
    configuration that was saved and not deleted, but for the contested ones, but also
    each copy in an open window, since any of them may be written back at any time.
    A change that is made alone reaches all the copies there are; any other is contested.
  - *The parts.* `PartsKeepApart`: a behaviour of the browser is one of the storage and one
    of the feed, because every step is a step of theirs or leaves their variables alone;
    the panels' only step on the feed is to switch the tab. `BrowserIsCorrect` is what
    follows: the two theorems above and the four of `FeedProofs` hold in the browser that
    the run checks.
  - *Panels.* `RunningTestsHaveACause` from `Caused`, in which a start that was carried out
    is no cause any more (its test is, or the news of its end), and which adds that a
    panel that is not there shows nothing. `ConditionsInForceAreShown` from `NetworkInv`:
    while no call was crossed or failed there is one call at most (`Asked`), it is about
    the connection that is shown, and what it was answered still is the condition in
    force; so handling the answer makes the panel show it. A call that a panel left
    behind when the sidebar was closed is crossed by the question of the next one.

Only model-checked: the liveness properties (fairness and ENABLED are beyond TLAPS),
that is the deletion and end of connections, the news of them, the settling of pings,
the forwarding of delayed messages and the completion of tests.

No module that is proved about declares a RECURSIVE operator.

## 5. Not modelled

- *On the server*: payloads, byte counters, validation errors (400 for JSON or a
  size) which change no state; the `ping` handler, which only emits; a URL that makes
  `new WebSocket` or `mqtt.connect` throw, which leaves a session without a client (as
  in AMQP, where it is modelled); an AMQP connection that fails between `connect` and
  the listeners of `createConnection`, other than by the refusal of its channel;
  `maxBytesPerSec` and `flapping`, which the code stores and never reads;
  `incrementReconnection`, `SessionService.delete` and `deleteByConnection`, which
  nothing calls; options of the libraries (TLS, credentials, QoS, exchange types).
  More than one AMQP setup or consume under way at a time.
- *In the browser*: the fields of the forms (a configuration is a member of `Names`),
  loading a saved configuration into the form, the composer's templates and payload
  editor, filters by text, exported files' text, toasts, UI state, themes, search.
  `renameWorkspace`, `duplicateWorkspace`, `updateConfig`, `clearConnection` and `clearAll`,
  which nothing calls. `ImportModal` and `ShareModal`, which are mounted nowhere.
  A workspace file is imported when it is read; a write to localStorage that fails.
- *Between the parts*: in `Feed` and `Panels` the connections are open and joined and
  the control socket does not drop (that is in `Gateway` and `ClientTabs`); the panels'
  tests and conditions do not act on traffic (that is in `Performance` and `WsProxy`).
- *Pages, rendering, bootstrap, health, deployment*: text, layout, configuration, I/O.

## 6. What the checks showed

The properties above hold. Six statements of the repository do not, each with a
run that shows it:

1. `events.gateway.ts:66` clears the buffer "to avoid sending duplicates on
   reconnect"; messages are buffered while browsers receive them live, so a
   browser that rejoins gets them twice.
2. `useControlSocket.ts:195` wants the error to be "the meaningful terminal state
   the user should see"; the WebSocket `close` handler overwrites the session's
   error, so who joins after a failed handshake sees a plain disconnection. The
   MQTT handler keeps the error, for this reason.
3. `useControlSocket.ts:49` clears the joined rooms "so rooms are re-joined"; the
   effect that joins depends on the tabs, so after a reconnection nothing is joined
   until the tabs change.
4. `USER_GUIDE.md:142` promises each connection "in its own tab"; the answer of the
   create call is stored in the tab that is active when it arrives. When the user has
   opened another tab since, the connection is in that one, and the tab that asked is
   still there and shows "connecting" with its Connect button disabled.
5. `README.md:210` promises "Auto-reconnect with configurable attempts and delay"; the
   first `connect_error` of a Socket.IO client arms a clean-up that disconnects it
   200 ms later, whatever attempts remain, and also when it is connected again by
   then, without telling anybody. `StatusFollowsLink` and `RoomHearsTheSession` name
   this case (`TakenDown`) as their only exception.
6. `websocket.controller.ts:66` says of the DELETE route "Close and remove a
   connection". An AMQP session is listed while `createConnection` still awaits the
   broker; a DELETE then finds no close callback, and the connection comes up
   afterwards (`amqp.service.ts:106`) and stays in `states` until it is deleted again.
   `ConnectionLife` (`missed`) and `DeletedIsForgotten` name this case as their only
   exception.

Seen in the same code and not run:

- `USER_GUIDE.md:299` and `:267` say that Ctrl+L and the palette clear the history of
  the active tab; both clear that of every connection (`useKeyboardShortcuts.ts:40`,
  `CommandPalette.tsx:46`), as does the feed's own button in a tab without a
  connection. The model does what the code does (`ClearHistory`);
- `session.types.ts:41` says that the replay buffer holds "the first N" events; it
  keeps the latest (`session.service.ts:104`), and `FirstJoinerGetsAllOnce` and
  `FirstJoinerGetsAll` are about those;
- the charts' buckets only go when an event comes. The panel says "last 60s"
  (`StatsPanel.tsx:182`) and `README.md:275` "60-second rolling window", but a
  connection that fell silent keeps showing what is older; and the chart of "errors per
  minute over session" (`StatsPanel.tsx:210`) drops what is older than 60 minutes.
  `ChartsCountTheWindow` is about the window before the last event, which is what the
  code keeps: it shows that nothing of the last 60 s is missing or counted twice, not
  that nothing else is shown;
- a PUT that sets `disconnectAfterMs` to 0 does not disarm a forced disconnect that is
  armed (`setCondition` leaves the timer alone); `CutNeedsCondition` asks only that some
  condition is in force;
- a Socket.IO event without a payload that was subscribed to throws in the listener
  (`socketio.service.ts:194`), and nobody catches it: the server ends;
- a URL that a client library refuses leaves the session "connecting" for good
  (`amqp.service.ts:49`);
- the timestamp of a REST ping that nobody answers, `ping:<id>`, stays after `close`
  (`websocket.service.ts:168` deletes the plain key only) until a DELETE, and the timers
  of delayed messages still forward then; `ClosedIsSettled` says so;
- closing a tab does not close its connection (`USER_GUIDE.md:157` says it does);
- a late answer to Ctrl+D marks whatever tab is active as disconnected;
- the latency of a received message is the age of the last send, also of one that
  was refused because the connection was still connecting;
- a Socket.IO event that is also subscribed to is counted and shown twice;
  'socketio:subscribed', which the browser listens to, is never emitted;
- MQTT messages that arrive before the first join are not buffered;
- the topics panel shows a topic before, and whether or not, the broker grants it;
- an AMQP connection whose `createChannel` fails is not closed (`amqp.service.ts:66`);
- an answer of the network panel that comes after a switch of tabs fills the form
  with another connection's condition, and the panel is not told when a condition
  ends with its connection; `InForceIsShown` therefore asks only that what is in force
  is marked, and only when no call was crossed or failed;
- the performance panel does not look at which connection or test an event is of:
  the end of an aborted test hides the next one;
- a send whose answer is lost is shown as an error although it was sent;
- the limits of messages and log entries are for all tabs together
  (`DocsPage.tsx:83` says that each tab has its own history and logs);
- two windows overwrite each other's configurations and workspaces: `KeptUntilDeleted`
  therefore asks nothing of a configuration that was saved or deleted while another
  window was open (`contested`); the page of a share says it was imported also when
  the list of configurations is full;
- `resolveEnvVars` is called nowhere, although `WorkspacePanel.tsx:148` explains how to
  use variables.

## 7. Plan

1. **Done**: the four protocols, control channel, tests, tabs, storage, feed and
   panels; the abstract specification of a connection's life and its two
   refinements, also under tests; every safety property of a passing run as a theorem.
2. **An abstract feed**: the messages a browser that stays receives, in the order
   they were forwarded, implemented by `Gateway` composed with `Feed`.
3. **Left of the components**: several connections at once in `Proxies` (the topics
   panel across tabs), loading configurations into the form, two AMQP setups under
   way.
