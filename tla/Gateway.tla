------------------------------- MODULE Gateway -------------------------------
(****************************************************************************)
(* The control channel: EventsGateway (the Socket.IO room of a connection), *)
(* the session it replays from, and the control socket of each browser      *)
(* (useControlSocket), which folds what it receives into the tab's status   *)
(* and message list.  The protocol services extend this module.             *)
(*                                                                          *)
(* Socket.IO delivers in order while a socket is connected and loses what   *)
(* is in flight when it drops: inbox[k] is emitted to k, not yet received.  *)
(****************************************************************************)
EXTENDS Session, FiniteSets

CONSTANTS Clients,       \* browsers, each with one control socket
          MaxDrops,      \* bound: control-socket disconnections
          MaxLeaves      \* bound: leave-connection messages

ASSUME GatewayAssumption == MaxDrops \in Nat /\ MaxLeaves \in Nat

VARIABLES
    sess,     \* the session of the connection (SessionService.sessions)
    online,   \* clients whose control socket is connected
    room,     \* members of the room conn:<id>
    inbox,    \* inbox[k]: events emitted to k and not yet received
    view,     \* view[k]: status shown by k's tab
    seen,     \* seen[k]: messages k received, in order
    drops,    \* control-socket disconnections so far
    leaves    \* leave-connection messages so far

gatewayVars == <<sess, online, room, inbox, view, seen, drops, leaves>>

serverSide == <<sess, online, room, drops, leaves>>
clientSide == <<view, seen>>

GatewayTypeOK ==
    /\ sess \in SessionType
    /\ online \in SUBSET Clients
    /\ room \in SUBSET Clients
    /\ inbox \in [Clients -> Seq(Event)]
    /\ view \in [Clients -> Status]
    /\ seen \in [Clients -> Seq(Nat)]
    /\ drops \in 0..MaxDrops
    /\ leaves \in 0..MaxLeaves

GatewayInit ==
    /\ sess = NewSession
    /\ online = Clients
    /\ room = {}
    /\ inbox = [k \in Clients |-> <<>>]
    /\ view = [k \in Clients |-> "connecting"]
    /\ seen = [k \in Clients |-> <<>>]
    /\ drops = 0 /\ leaves = 0

\* emitToConnection: to the members of the room, nobody else.
EmitAll(evs) ==
    inbox' = [k \in Clients |-> IF k \in room THEN inbox[k] \o evs ELSE inbox[k]]

Emit(ev) == EmitAll(<<ev>>)

\* Mutant: a client that joins late is not told of a close it missed.
ReplayOpenOnly(s) ==
    IF s.status = "connected" THEN <<Ev("open", 0)>> \o s.buffered ELSE <<>>

\* What handleJoinConnection sends to the client that joins.
Replay(s) ==
    CASE s.status = "connected" ->
            <<Ev("open", 0)>> \o s.buffered
              \o [i \in 1..Len(s.topics) |-> Ev("subscribed", s.topics[i])]
      [] s.status = "error"        -> <<Ev("error", 0)>>
      [] s.status = "disconnected" -> <<Ev("close", 0)>>
      [] OTHER                     -> <<>>

\* The buffer is cleared once it has been replayed.
AfterReplay(s) ==
    IF s.status = "connected" THEN [s EXCEPT !.buffered = <<>>] ELSE s

\* The client keeps joinedRooms, so it does not join a room it is in.
Join(k) ==
    /\ k \in online \ room
    /\ room' = room \cup {k}
    /\ inbox' = [inbox EXCEPT ![k] = @ \o Replay(sess)]
    /\ sess' = AfterReplay(sess)
    /\ UNCHANGED <<online, view, seen, drops, leaves>>

Leave(k) ==
    /\ k \in room
    /\ leaves < MaxLeaves
    /\ leaves' = leaves + 1
    /\ room' = room \ {k}
    /\ UNCHANGED <<sess, online, inbox, view, seen, drops>>

\* The status a tab shows after an event: an error is not overwritten by the
\* close that follows it.
ViewAfter(status, type) ==
    CASE type = "open"         -> "connected"
      [] type = "error"        -> "error"
      [] type = "reconnecting" -> "reconnecting"
      [] type = "close" /\ status # "error" -> "disconnected"
      [] OTHER                 -> status

Receive(k) ==
    /\ inbox[k] # <<>>
    /\ LET ev == Head(inbox[k])
       IN  /\ view' = [view EXCEPT ![k] = ViewAfter(@, ev.type)]
           /\ seen' = [seen EXCEPT ![k] =
                          IF ev.type = "message" THEN Append(@, ev.id) ELSE @]
    /\ inbox' = [inbox EXCEPT ![k] = Tail(@)]
    /\ UNCHANGED serverSide

\* The control socket drops: Socket.IO leaves its rooms and loses what is in
\* flight.  The tab keeps showing what it showed.
ControlDrop(k) ==
    /\ k \in online
    /\ drops < MaxDrops
    /\ drops' = drops + 1
    /\ online' = online \ {k}
    /\ room' = room \ {k}
    /\ inbox' = [inbox EXCEPT ![k] = <<>>]
    /\ UNCHANGED <<sess, view, seen, leaves>>

\* socket.io-client reconnects by itself; it does not rejoin the room.
ControlReconnect(k) ==
    /\ k \in Clients \ online
    /\ online' = online \cup {k}
    /\ UNCHANGED <<sess, room, inbox, view, seen, drops, leaves>>

\* Nothing in q changes the status a tab shows.
Quiet(q) == \A i \in DOMAIN q : q[i].type \notin StatusEvents

\* A tab that shows status will show "connected" once it received q: the last
\* status event of q decides, or what the tab shows when there is none.
Hears(q, status) ==
    \/ \E i \in DOMAIN q :
          /\ q[i].type = "open"
          /\ \A j \in DOMAIN q : j > i => q[j].type \notin StatusEvents
    \/ status = "connected" /\ Quiet(q)

HearsConnected(k) == Hears(inbox[k], view[k])

\* The messages k was sent since the start, received or in flight.
Got(k) ==
    {seen[k][i] : i \in DOMAIN seen[k]}
      \cup {inbox[k][i].id : i \in {j \in DOMAIN inbox[k] : inbox[k][j].type = "message"}}

\* No message was sent to k twice.
ReceivedOnce(k) ==
    Len(seen[k]) + Cardinality({i \in DOMAIN inbox[k] : inbox[k][i].type = "message"})
        = Cardinality(Got(k))

==============================================================================
