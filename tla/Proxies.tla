------------------------------- MODULE Proxies -------------------------------
(****************************************************************************)
(* A connection of any of the three other protocols, its room, and REST     *)
(* calls on it.  The route that deletes a connection is the same for all    *)
(* (WebSocketController): it runs the close callback the service left in    *)
(* the session and calls the session disconnected, without waiting.         *)
(****************************************************************************)
EXTENDS SocketIoProxy, MqttProxy, AmqpProxy

vars == <<proxyVars, sioVars, mqttVars, amqpVars>>

TypeOK ==
    CASE protocol = "socketio" -> SioTypeOK
      [] protocol = "mqtt"     -> MqttTypeOK
      [] protocol = "amqp"     -> AmqpTypeOK

SioIdle ==
    /\ auto = FALSE /\ failed = FALSE /\ attempts = 0
    /\ subs = {} /\ acks = 0 /\ losses = 0 /\ doubled = {} /\ exited = FALSE

MqttIdle == requests = <<>> /\ answers = <<>> /\ asked = {} /\ granted = {}

AmqpIdle ==
    /\ consumer = "none" /\ noAck = FALSE /\ setup = 0
    /\ tags = {} /\ unacked = {} /\ closers = 0 /\ missed = FALSE

Init ==
    /\ ProxiedInit
    /\ \/ protocol = "socketio" /\ SioInit  /\ MqttIdle /\ AmqpIdle
       \/ protocol = "mqtt"     /\ MqttInit /\ SioIdle  /\ AmqpIdle
       \/ protocol = "amqp"     /\ AmqpInit /\ SioIdle  /\ MqttIdle

\* A browser joins once the create call told it the id; the AMQP call does when
\* the connection is up.  There must be a server to join at.
MayJoin == (protocol = "amqp" => link \notin Clientless) /\ ~exited

Socket ==
    /\ protocol = "socketio" /\ SioNext
    /\ UNCHANGED <<protocol, mqttVars, amqpVars>>

Mqtt ==
    /\ protocol = "mqtt" /\ MqttNext
    /\ UNCHANGED <<protocol, sioVars, amqpVars>>

Amqp ==
    /\ protocol = "amqp" /\ AmqpNext
    /\ UNCHANGED <<protocol, sioVars, mqttVars>>

BrowserJoins(k) == MayJoin /\ ProxiedJoin(k) /\ UNCHANGED <<sioVars, mqttVars, amqpVars>>

BrowserReceives(k) == ProxiedReceive(k) /\ UNCHANGED <<sioVars, mqttVars, amqpVars>>

BrowserMoves(k) ==
    /\ ProxiedDrop(k) \/ ProxiedReconnect(k)
    /\ UNCHANGED <<sioVars, mqttVars, amqpVars>>

Next ==
    \/ Socket \/ Mqtt \/ Amqp
    \/ \E k \in Clients : BrowserJoins(k) \/ BrowserReceives(k) \/ BrowserMoves(k)

Spec == Init /\ [][Next]_vars

\* Sockets deliver, timers fire, and the libraries end a connection they are
\* closing: mqtt.js has destroyed its stream, amqplib's broker answers or the
\* heartbeat gives it up.  Targets, users and control sockets are not fair.
Fairness ==
    /\ \A k \in Clients : WF_vars(BrowserReceives(k))
    /\ WF_vars(SioCleanUp /\ Socket)
    /\ WF_vars(link \in {"failing", "ending"} /\ MqttClose /\ Mqtt)
    /\ WF_vars(AmqpCancelled /\ Amqp)
    /\ WF_vars(link = "closing" /\ AmqpClose /\ Amqp)

FairSpec == Spec /\ Fairness

-----------------------------------------------------------------------------
(* Safety *)

Retries == protocol = "socketio" /\ auto

Up == link \in {"open", "online", "up"}

\* A Socket.IO client that retries and had a failure reported is off: the
\* clean-up may have taken it down after it had connected again, silently.
TakenDown == Retries /\ link = "off" /\ sess.errors > 0

\* The session is connected exactly while the library's client is, but for a
\* client that reconnected within 200 ms of a failed attempt and was taken down
\* by the clean-up of that failure.
StatusFollowsLink == (sess.status = "connected" <=> Up) \/ TakenDown

\* What a member of the room has been told agrees with the session.  A DELETE is
\* only announced by the 'close' that follows it, and a browser that lost its
\* control socket is not told on its return that the client is reconnecting.
RoomHearsTheSession ==
    \A k \in room :
        /\ sess.status = "connected" => HearsConnected(k)
        /\ HearsConnected(k) =>
             \/ sess.status = "connected"
             \/ deleted /\ link \in {"ending", "failing", "cancelling", "closing"}
             \/ k \in dropped /\ Retries
             \/ TakenDown

\* The first browser to join a Socket.IO connection gets every event, those
\* before it joined included save the ones beyond the buffer's size; an event
\* comes once, and twice only when it was also subscribed to.
FirstJoinerGetsAll ==
    protocol = "socketio" /\ primary # NoClient =>
        \A n \in 1..arrived :
            /\ Times(primary, n) = 0 => n \in evicted
            /\ Times(primary, n) > 1 => n \in doubled /\ Times(primary, n) = 2

\* When no request is on its way, the topics the session lists are those the
\* broker delivers, in whatever order subscriptions and unsubscriptions of the
\* same topic were asked for and refused.
TopicsAreGranted ==
    protocol = "mqtt" /\ link = "online" /\ requests = <<>> /\ answers = <<>> =>
        {sess.topics[i] : i \in DOMAIN sess.topics} = granted

\* A browser that has received everything, and never lost its socket, shows the
\* topics of the session, also when it joined between two answers; but for a
\* topic its panel changed without waiting for the broker, until the next event.
RoomKnowsTopics ==
    \A k \in room \ dropped :
        protocol = "mqtt" /\ link = "online" /\ inbox[k] = <<>> =>
            \A t \in Topics \ guessed[k] :
                t \in topicsShown[k] <=> \E i \in DOMAIN sess.topics : sess.topics[i] = t

\* Every delivery the broker waits to see settled can be settled through the
\* service, whatever was acknowledged before, one by one or many at once.
UnackedAreKnown ==
    protocol = "amqp" /\ tracked /\ ChannelOpen => unacked \subseteq tags

\* The client is on its way, and the DELETE that should end it was before it.
StillComing == missed /\ link \in Making

\* The status of a connection of any protocol keeps what ConnectionLife promises.
Life == INSTANCE ConnectionLife
            WITH status <- sess.status, deleted <- deleted, retries <- Retries,
                 missed <- StillComing

RefinesLife == Life!Spec

(* Liveness *)

\* A browser in the room of an MQTT or AMQP connection that ended, or of a
\* Socket.IO connection that does not retry and was not deleted, learns of it.
RoomLearnsOfEnd ==
    \A k \in Clients :
        (/\ k \in room
         /\ \/ link \in {"ended", "down"}
            \/ link = "off" /\ ~auto /\ ~deleted)
            ~> (k \notin room \/ view[k] \in {"error", "disconnected"})

\* A connection the user deleted is ended, and nothing of it stays in the maps;
\* but for an AMQP connection that was still being made when the latest DELETE
\* came, which nothing ends.
DeletedIsForgotten == (deleted /\ ~missed) ~> (~Up /\ ~tracked)

-----------------------------------------------------------------------------
(* What the documentation says, and the code does not do *)

\* websocket.controller.ts:66, of the DELETE route: "Close and remove a
\* connection"; so one that was deleted does not come up afterwards.
DeletedStaysDown == [][deleted => sess'.status # "connected"]_vars

\* README.md:210: "Auto-reconnect with configurable attempts and delay"; so a
\* client that waits to try again is given up by a DELETE only, or when it has
\* made its attempts.
RetriesAreMade ==
    [][link = "waiting" /\ link' = "off" => deleted' \/ attempts = MaxAttempts]_vars

==============================================================================
