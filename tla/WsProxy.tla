------------------------------- MODULE WsProxy -------------------------------
(****************************************************************************)
(* WebSocketService with NetworkConditionService: one proxied WebSocket     *)
(* connection, from the state createConnection leaves behind.               *)
(*                                                                          *)
(* Each action is one JavaScript job (a handler of the ws library, a REST   *)
(* handler, a timer): Node runs it to its end, so it is atomic.  The ws     *)
(* library itself is external and modelled by the order of its events:      *)
(*    connecting  handshake under way                                       *)
(*    open        readyState OPEN                                           *)
(*    closing     readyState CLOSING after our close(): frames still arrive *)
(*    ending      readyState CLOSING after a peer close or an error: no     *)
(*                more frames, 'close' is still to come                     *)
(*    aborting    CLOSING before the handshake finished: 'error' and        *)
(*                'close' follow in one job                                 *)
(*    closed      'close' emitted                                           *)
(****************************************************************************)
EXTENDS Gateway

CONSTANTS
    Conditions,   \* network conditions that a PUT may leave in force
    NoCondition,  \* no condition set
    NoClient,     \* no client
    MaxMsgs,      \* bound: messages the target sends
    MaxCalls,     \* bound: REST calls made on the connection
    MaxPings      \* bound: calls of pingAsync

ASSUME WsAssumption ==
    /\ MaxMsgs \in Nat /\ MaxCalls \in Nat /\ MaxPings \in Nat
    /\ Conditions \subseteq [delay : Nat, jitter : Nat, loss : BOOLEAN, cut : BOOLEAN]
    /\ NoCondition \notin Conditions
    /\ NoClient \notin Clients

VARIABLES
    ws,          \* the ws library's connection, see above
    tracked,     \* the connection is in the map sockets
    pingTs,      \* pingTimestamps has the connection (a send awaits a reply)
    namedPing,   \* pingTimestamps has ping:<id> (a REST ping awaits a pong)
    promise,     \* promise[p]: state of the promise of the p-th pingAsync
    resolver,    \* the entry of pingResolvers: a ping number, 0 for none
    pingTimers,  \* pings whose timeout is armed
    cond,        \* conditions.get(id)
    cutTimer,    \* the forced-disconnect timer is armed
    pending,     \* messages being delayed, in order of arrival
    arrived,     \* messages the target has sent
    calls        \* REST calls made

\* History variables: they appear in no guard.
VARIABLES
    deleted,     \* a DELETE was handled
    forwarded,   \* messages handed to the buffer and the room
    evicted,     \* messages shifted out of the buffer while the room was empty
    joined,      \* some client has joined the room
    primary      \* the first to join, if it did before the connection ended

wsVars == <<ws, tracked, pingTs, namedPing, promise, resolver, pingTimers,
            cond, cutTimer, pending, arrived, calls>>
history == <<deleted, forwarded, evicted, joined, primary>>
vars == <<gatewayVars, wsVars, history>>

pingVars == <<promise, resolver, pingTimers>>
condVars == <<cond, cutTimer>>
feedVars == <<pending, arrived>>
clients  == <<online, room, view, seen, drops, leaves>>

Ping == 1..MaxPings
WsState == {"connecting", "open", "closing", "ending", "aborting", "closed"}
PromiseState == {"idle", "pending", "resolved", "rejected"}
Delayed == [id : 1..MaxMsgs, delay : Nat]

TypeOK ==
    /\ GatewayTypeOK
    /\ ws \in WsState
    /\ tracked \in BOOLEAN /\ pingTs \in BOOLEAN /\ namedPing \in BOOLEAN
    /\ promise \in [Ping -> PromiseState]
    /\ resolver \in Ping \cup {0}
    /\ pingTimers \in SUBSET Ping
    /\ cond \in Conditions \cup {NoCondition}
    /\ cutTimer \in BOOLEAN
    /\ pending \in Seq(Delayed)
    /\ arrived \in 0..MaxMsgs
    /\ calls \in 0..MaxCalls
    /\ deleted \in BOOLEAN
    /\ forwarded \in SUBSET (1..MaxMsgs)
    /\ evicted \in SUBSET Nat
    /\ joined \in BOOLEAN
    /\ primary \in Clients \cup {NoClient}

\* createConnection: session created, socket tracked, handshake under way.
Init ==
    /\ GatewayInit
    /\ ws = "connecting" /\ tracked = TRUE
    /\ pingTs = FALSE /\ namedPing = FALSE
    /\ promise = [p \in Ping |-> "idle"] /\ resolver = 0 /\ pingTimers = {}
    /\ cond = NoCondition /\ cutTimer = FALSE
    /\ pending = <<>> /\ arrived = 0 /\ calls = 0
    /\ deleted = FALSE /\ forwarded = {} /\ evicted = {}
    /\ joined = FALSE /\ primary = NoClient

-----------------------------------------------------------------------------
(* Network conditions *)

DelaySet == IF cond = NoCondition THEN 0 ELSE cond.delay

\* delayMs plus or minus a random jitter, never negative.
Delays(c) ==
    (IF c.jitter < c.delay THEN c.delay - c.jitter ELSE 0)..(c.delay + c.jitter)

\* Mutant: a handshake under way is not aborted.
AfterWsCloseOpenOnly(state) == IF state = "open" THEN "closing" ELSE state

\* Mutant: the socket is forgotten and never closed.
AfterWsCloseForgotten(state) == state

\* ws.close(): a no-op unless the connection is OPEN or CONNECTING.
AfterWsClose(state) ==
    CASE state = "open"       -> "closing"
      [] state = "connecting" -> "aborting"
      [] OTHER                -> state

SpendCall == calls < MaxCalls /\ calls' = calls + 1

\* PUT: the body is merged into what is in force, so any condition may result;
\* no timer is armed or cleared, and nothing checks that the connection is open.
SetCondition(c) ==
    /\ SpendCall
    /\ cond' = c
    /\ UNCHANGED <<gatewayVars, ws, tracked, pingTs, namedPing, pingVars,
                   cutTimer, feedVars, history>>

\* Mutant: the condition is deleted and its timer forgotten.
ClearedConditionOnly == cond' = NoCondition /\ UNCHANGED cutTimer

ClearedCondition == cond' = NoCondition /\ cutTimer' = FALSE

ClearCondition ==
    /\ SpendCall
    /\ ClearedCondition
    /\ UNCHANGED <<gatewayVars, ws, tracked, pingTs, namedPing, pingVars,
                   feedVars, history>>

\* The timer scheduleDisconnect armed fires: ws.close(1001).
CutConnection ==
    /\ cutTimer
    /\ cutTimer' = FALSE
    /\ ws' = AfterWsClose(ws)
    /\ UNCHANGED <<gatewayVars, tracked, pingTs, namedPing, pingVars, cond,
                   feedVars, calls, history>>

-----------------------------------------------------------------------------
(* Events of the ws library *)

OnOpen ==
    /\ ws = "connecting"
    /\ ws' = "open"
    /\ sess' = UpdateStatus(sess, "connected")
    /\ Emit(Ev("open", 0))
    /\ cutTimer' = (cond # NoCondition /\ cond.cut)
    /\ UNCHANGED <<clients, tracked, pingTs, namedPing, pingVars, cond,
                   feedVars, calls, history>>

\* The buffer, the room and the history of a message handed on.
Forward(s, n) ==
    /\ sess' = BufferMessage(s, Ev("message", n))
    /\ Emit(Ev("message", n))
    /\ forwarded' = forwarded \cup {n}
    /\ evicted' = IF room # {} \/ Len(s.buffered) < MaxBuffered
                  THEN evicted ELSE evicted \cup {Head(s.buffered).id}

\* Mutant: the frame is counted before the packet-loss check.
OnMessageDroppedLate ==
    /\ ws \in {"open", "closing"} /\ arrived < MaxMsgs
    /\ cond # NoCondition /\ cond.loss
    /\ arrived' = arrived + 1
    /\ sess' = RecordReceived(sess, FALSE)
    /\ UNCHANGED <<clients, inbox, ws, tracked, pingTs, namedPing, pingVars,
                   condVars, pending, calls, history>>

\* A frame arrives and is dropped by the packet-loss condition.
OnMessageDropped ==
    /\ ws \in {"open", "closing"} /\ arrived < MaxMsgs
    /\ cond # NoCondition /\ cond.loss
    /\ arrived' = arrived + 1
    /\ UNCHANGED <<gatewayVars, ws, tracked, pingTs, namedPing, pingVars,
                   condVars, pending, calls, history>>

\* A frame arrives: it is counted, takes the timestamp of the last send as its
\* latency, and is forwarded in the same job or after the delay.
OnMessage ==
    /\ ws \in {"open", "closing"} /\ arrived < MaxMsgs
    /\ arrived' = arrived + 1
    /\ pingTs' = FALSE
    /\ LET s == RecordReceived(sess, pingTs)
       IN  \/ /\ DelaySet = 0
              /\ Forward(s, arrived + 1)
              /\ UNCHANGED pending
           \/ /\ DelaySet > 0
              /\ sess' = s
              /\ \E d \in Delays(cond) :
                    pending' = Append(pending, [id |-> arrived + 1, delay |-> d])
              /\ UNCHANGED <<inbox, forwarded, evicted>>
    /\ UNCHANGED <<clients, ws, tracked, namedPing, pingVars, condVars, calls,
                   deleted, joined, primary>>

\* The timer of the i-th delayed message fires.  Timers armed earlier with the
\* same or a shorter delay fire first.
ForwardDelayed(i) ==
    /\ \A j \in 1..(i - 1) : pending[j].delay > pending[i].delay
    /\ Forward(sess, pending[i].id)
    /\ pending' = SubSeq(pending, 1, i - 1) \o SubSeq(pending, i + 1, Len(pending))
    /\ UNCHANGED <<clients, ws, tracked, pingTs, namedPing, pingVars, condVars,
                   arrived, calls, deleted, joined, primary>>

\* The 'error' handler's and the 'close' handler's effect on the session.
ErrorSession(s) == RecordError(UpdateStatus(s, "error"))
CloseSession(s) == UpdateStatus(s, "disconnected")

Settled(outcome) == [p \in Ping |-> IF p = resolver THEN outcome ELSE promise[p]]

\* Mutant: the resolver is deleted and its timer cleared, and nobody rejects it.
CloseCleanupSilently ==
    /\ ws' = "closed" /\ tracked' = FALSE /\ pingTs' = FALSE
    /\ ClearedCondition
    /\ resolver' = 0
    /\ pingTimers' = pingTimers \ {resolver}
    /\ UNCHANGED promise

\* The 'close' handler apart from status and emission: what is registered for
\* the connection goes, except ping:<id>.
CloseCleanup ==
    /\ ws' = "closed"
    /\ tracked' = FALSE
    /\ pingTs' = FALSE
    /\ ClearedCondition
    /\ promise' = Settled("rejected")
    /\ resolver' = 0
    /\ pingTimers' = pingTimers \ {resolver}

\* The handshake fails: refused (from connecting) or aborted; the library
\* emits 'error' and 'close' in one job.
HandshakeFails ==
    /\ ws \in {"connecting", "aborting"}
    /\ sess' = CloseSession(ErrorSession(sess))
    /\ EmitAll(<<Ev("error", 0), Ev("close", 0)>>)
    /\ CloseCleanup
    /\ UNCHANGED <<clients, namedPing, feedVars, calls, history>>

\* The target answers the handshake with another status: abortHandshake.
HandshakeRejected ==
    /\ ws = "connecting"
    /\ ws' = "aborting"
    /\ UNCHANGED <<gatewayVars, tracked, pingTs, namedPing, pingVars, condVars,
                   feedVars, calls, history>>

\* A protocol error on an established connection: 'error' now, 'close' later.
OnError ==
    /\ ws \in {"open", "closing"}
    /\ ws' = "ending"
    /\ sess' = ErrorSession(sess)
    /\ Emit(Ev("error", 0))
    /\ UNCHANGED <<clients, tracked, pingTs, namedPing, pingVars, condVars,
                   feedVars, calls, history>>

\* The peer's close frame, or the loss of its TCP connection.
PeerEnds ==
    /\ ws \in {"open", "closing"}
    /\ ws' = "ending"
    /\ UNCHANGED <<gatewayVars, tracked, pingTs, namedPing, pingVars, condVars,
                   feedVars, calls, history>>

\* Mutant: what is being delayed dies with the connection.
OnCloseDropsDelayed ==
    /\ ws \in {"closing", "ending"}
    /\ sess' = CloseSession(sess)
    /\ Emit(Ev("close", 0))
    /\ CloseCleanup
    /\ pending' = <<>>
    /\ UNCHANGED <<clients, namedPing, arrived, calls, history>>

OnClose ==
    /\ ws \in {"closing", "ending"}
    /\ sess' = CloseSession(sess)
    /\ Emit(Ev("close", 0))
    /\ CloseCleanup
    /\ UNCHANGED <<clients, namedPing, feedVars, calls, history>>

\* A pong answers the REST ping, the pending pingAsync, or both: the handler
\* cannot tell whose pong it is.
OnPong ==
    /\ ws \in {"open", "closing"}
    /\ namedPing \/ resolver # 0
    /\ namedPing' = FALSE
    /\ EmitAll(IF namedPing THEN <<Ev("pong", 0)>> ELSE <<>>)
    /\ promise' = Settled("resolved")
    /\ resolver' = 0
    /\ pingTimers' = pingTimers \ {resolver}
    /\ UNCHANGED <<sess, clients, ws, tracked, pingTs, condVars, feedVars,
                   calls, history>>

-----------------------------------------------------------------------------
(* REST handlers and pingAsync *)

\* ws.send throws while CONNECTING, after the timestamp was set; in CLOSING it
\* drops the frame silently and the send still counts.
SendMessage ==
    /\ tracked
    /\ SpendCall
    /\ pingTs' = TRUE
    /\ \/ /\ ws = "connecting"
          /\ UNCHANGED <<sess, inbox>>
       \/ /\ ws # "connecting"
          /\ sess' = RecordSent(sess)
          /\ Emit(Ev("sent", 0))
    /\ UNCHANGED <<clients, ws, tracked, namedPing, pingVars, condVars,
                   feedVars, history>>

\* Likewise, ws.ping throws while CONNECTING after the timestamp was set.
SendPing ==
    /\ tracked
    /\ SpendCall
    /\ namedPing' = TRUE
    /\ UNCHANGED <<gatewayVars, ws, tracked, pingTs, pingVars, condVars,
                   feedVars, history>>

\* Mutant: the timer of a superseded ping stays armed.
RegisterPingKeepingTimer(p) ==
    /\ promise' = [Settled("rejected") EXCEPT ![p] = "pending"]
    /\ resolver' = p
    /\ pingTimers' = pingTimers \cup {p}

\* Registers the p-th ping; a ping still pending is rejected and its timer
\* cleared.
RegisterPing(p) ==
    /\ promise' = [Settled("rejected") EXCEPT ![p] = "pending"]
    /\ resolver' = p
    /\ pingTimers' = (pingTimers \ {resolver}) \cup {p}

\* Pings are numbered in the order of their calls.
NewPing(p) == promise[p] = "idle" /\ \A q \in 1..(p - 1) : promise[q] # "idle"

PingAsync(p) ==
    /\ tracked /\ ws = "open"
    /\ NewPing(p)
    /\ RegisterPing(p)
    /\ UNCHANGED <<gatewayVars, ws, tracked, pingTs, namedPing, condVars,
                   feedVars, calls, history>>

\* The timeout of the p-th ping: it deletes whatever resolver is registered.
PingTimeout(p) ==
    /\ p \in pingTimers
    /\ pingTimers' = pingTimers \ {p}
    /\ resolver' = 0
    /\ promise' = [promise EXCEPT ![p] = IF @ = "pending" THEN "rejected" ELSE @]
    /\ UNCHANGED <<gatewayVars, ws, tracked, pingTs, namedPing, condVars,
                   feedVars, calls, history>>

\* DELETE /api/connections/:id: session.close() and the status; nothing is
\* emitted, the resolver and the network condition stay.
CloseConnection ==
    /\ SpendCall
    /\ ws' = AfterWsClose(ws)
    /\ tracked' = FALSE
    /\ pingTs' = FALSE
    /\ namedPing' = FALSE
    /\ sess' = UpdateStatus(sess, "disconnected")
    /\ deleted' = TRUE
    /\ UNCHANGED <<clients, inbox, pingVars, condVars, feedVars,
                   forwarded, evicted, joined, primary>>

-----------------------------------------------------------------------------
(* The control channel.  primary follows the first client to join, if that  *)
(* is before the connection failed or ended, until it leaves or drops.      *)

ClientJoins(k) ==
    /\ Join(k)
    /\ joined' = TRUE
    /\ primary' = IF ~joined /\ sess.status \in {"connecting", "connected"}
                  THEN k ELSE primary
    /\ UNCHANGED <<wsVars, deleted, forwarded, evicted>>

ClientGoes(k) ==
    /\ Leave(k) \/ ControlDrop(k)
    /\ primary' = IF primary = k THEN NoClient ELSE primary
    /\ UNCHANGED <<wsVars, deleted, forwarded, evicted, joined>>

ClientStays(k) ==
    /\ Receive(k) \/ ControlReconnect(k)
    /\ UNCHANGED <<wsVars, history>>

\* Every job but the calls of pingAsync.
ConnectionNext ==
    \/ \E k \in Clients : ClientJoins(k) \/ ClientGoes(k) \/ ClientStays(k)
    \/ \E c \in Conditions : SetCondition(c)
    \/ ClearCondition \/ CutConnection
    \/ OnOpen \/ OnMessage \/ OnMessageDropped
    \/ \E i \in DOMAIN pending : ForwardDelayed(i)
    \/ HandshakeFails \/ HandshakeRejected \/ OnError \/ PeerEnds \/ OnClose \/ OnPong
    \/ SendMessage \/ SendPing \/ CloseConnection
    \/ \E p \in Ping : PingTimeout(p)

\* As a component of its own, the service may be asked for a ping at any time.
Next == ConnectionNext \/ \E p \in Ping : PingAsync(p)

Spec == Init /\ [][Next]_vars

\* Timers fire, sockets deliver, and the library always emits 'close' after
\* close() or an error (it destroys the TCP socket after 30 s).  The target,
\* the users and the control sockets' failures are not fair.
Fairness ==
    /\ \A k \in Clients : WF_vars(Receive(k) /\ UNCHANGED <<wsVars, history>>)
    /\ WF_vars(\E i \in DOMAIN pending : ForwardDelayed(i))
    /\ WF_vars(CutConnection)
    /\ WF_vars(ws = "aborting" /\ HandshakeFails)
    /\ WF_vars(OnClose)
    /\ \A p \in Ping : WF_vars(PingTimeout(p))

FairSpec == Spec /\ Fairness

-----------------------------------------------------------------------------
(* Safety *)

\* What the end of a connection leaves, whatever REST calls came before and
\* after.  Once 'close' was handled the session is disconnected, the socket is
\* forgotten, no pingAsync waits for a pong or has its timeout armed, and no
\* forced disconnect is.  Two things outlive 'close': the timers of delayed
\* messages, which still forward (DelayedIsForwarded), and ping:<id>, the entry
\* of a REST ping nobody answered, which only a DELETE removes; after a DELETE,
\* before or after 'close', neither entry of pingTimestamps is left or comes back.
ClosedIsSettled ==
    /\ ws = "closed" =>
         /\ sess.status = "disconnected"
         /\ ~tracked /\ ~pingTs
         /\ resolver = 0 /\ pingTimers = {}
         /\ \A p \in Ping : promise[p] # "pending"
         /\ ~cutTimer
    /\ deleted => ~tracked /\ ~pingTs /\ ~namedPing

\* A connection the user deleted never shows as connected again, even when the
\* DELETE arrives while the handshake is under way.
DeletedNeverReconnects == deleted => sess.status # "connected" /\ ws # "open"

\* What a member of the room has been told agrees with the session: it hears of
\* a connection exactly while the session is connected, except between a DELETE
\* (which emits nothing) and the 'close' event.
RoomHearsTheSession ==
    \A k \in room :
        /\ sess.status = "connected" => HearsConnected(k)
        /\ HearsConnected(k) =>
              sess.status = "connected" \/ (deleted /\ ws # "closed")

\* The first browser to join gets every message exactly once, those that
\* arrived before it joined included, save the ones beyond the buffer's size.
FirstJoinerGetsAllOnce ==
    primary # NoClient =>
        /\ forwarded \subseteq Got(primary) \cup evicted
        /\ ReceivedOnce(primary)

\* A ping promise is pending exactly while it is the registered resolver and
\* its timeout is armed, so a timer never deletes another ping's resolver.
PendingPingIsRegistered ==
    \A p \in Ping : /\ promise[p] = "pending" <=> resolver = p
                    /\ p \in pingTimers <=> resolver = p

\* A forced disconnect is armed only while a network condition is in force on
\* an established connection: clearing the condition disarms it.
CutNeedsCondition ==
    cutTimer => cond # NoCondition /\ ws \notin {"connecting", "aborting", "closed"}

\* A message is counted once and then is either delayed or forwarded, also when
\* the connection closes, or the condition changes, while it is delayed.
CountedOnce ==
    /\ sess.received = Cardinality(forwarded) + Len(pending)
    /\ \A i \in DOMAIN pending : pending[i].id \notin forwarded

\* The status of the connection keeps what ConnectionLife promises; it does not
\* reconnect.  A handshake that fails goes through "error" within one job.
Life == INSTANCE ConnectionLife
            WITH status <- sess.status, deleted <- deleted, missed <- FALSE,
                 retries <- FALSE

RefinesLife == Life!Spec

(* Liveness *)

\* A deleted connection is closed in the end.
DeletedCloses == deleted ~> ws = "closed"

\* A browser that stays in the room of a closed connection learns of it.
RoomLearnsOfClose ==
    \A k \in Clients :
        (ws = "closed" /\ k \in room)
            ~> (k \notin room \/ view[k] \in {"error", "disconnected"})

\* Every pingAsync settles: by a pong, by its timeout, or by the close.
PingsSettle == \A p \in Ping : promise[p] = "pending" ~> promise[p] # "pending"

\* A delayed message is forwarded, even after the connection closed.
DelayedIsForwarded ==
    \A n \in 1..MaxMsgs :
        (\E i \in DOMAIN pending : pending[i].id = n) ~> n \in forwarded

-----------------------------------------------------------------------------
(* What comments and the guide say, and the code does not do *)

\* events.gateway.ts:66: the buffer is cleared after the first replay "to avoid
\* sending duplicates on reconnect"; but it goes on filling while the room has
\* members, so a client that rejoins is sent again what it already received.
NoDuplicateOnRejoin == \A k \in Clients : ReceivedOnce(k)

\* useControlSocket.ts:195: "the error is the meaningful terminal state the user
\* should see"; but the close handler overwrites the error in the session, so a
\* browser that joins after both is replayed a plain close.
LateJoinerSeesError ==
    \A k \in room :
        ws = "closed" /\ sess.errors > 0 /\ inbox[k] = <<>> => view[k] = "error"

==============================================================================
