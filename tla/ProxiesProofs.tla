---------------------------- MODULE ProxiesProofs ----------------------------
(****************************************************************************)
(* Proofs about Proxies, for every set of clients, topics and events and    *)
(* every value of the bounds.                                               *)
(*                                                                          *)
(* They rest on one inductive invariant, Course: where a client of each     *)
(* library stands, and which statuses its session may have there.           *)
(****************************************************************************)
EXTENDS Proxies, GatewayProofs

\* What the proofs need to know of a session.
Sound(s) == {"status", "errors"} \subseteq DOMAIN s /\ s.errors \in Nat

\* t is sound and has the status and the errors of s.
Follows(s, t) == Sound(t) /\ t.status = s.status /\ t.errors = s.errors

\* A client that may still come up.
Coming == {"opening", "connecting"}

SioCourse ==
    /\ link \in SioLink
    /\ link = "opening" => ~deleted /\ sess.status \in {"connecting", "reconnecting"}
    /\ link = "opening" /\ failed => sess.status = "reconnecting"
    /\ link = "waiting" =>
         auto /\ ~deleted /\ sess.status \in {"error", "disconnected", "reconnecting"}
    /\ link = "open" => ~deleted /\ sess.status = "connected"
    /\ link = "off" => sess.status # "connected" \/ (auto /\ sess.errors > 0)
    /\ failed => sess.errors > 0
    /\ failed /\ ~auto => link = "off"
    /\ ~missed

MqttCourse ==
    /\ link \in MqttLink
    /\ link = "connecting" => ~deleted /\ sess.status = "connecting"
    /\ link = "online" => ~deleted /\ sess.status = "connected"
    /\ link = "failing" => sess.status = "error" \/ deleted
    /\ link = "ending" => deleted
    /\ link \in {"failing", "ending", "ended"} => sess.status \in {"error", "disconnected"}
    /\ ~missed

AmqpCourse ==
    /\ link \in AmqpLink
    /\ link \in Making =>
         \/ ~deleted /\ sess.status = "connecting"
         \/ deleted /\ missed /\ sess.status = "disconnected"
    /\ link = "invalid" => sess.status \in {"connecting", "disconnected"}
    /\ link = "up" => sess.status = "connected"
    /\ link \in {"refused", "cancelling", "closing", "down"} =>
         sess.status \in {"error", "disconnected"}

Course ==
    /\ Sound(sess)
    /\ protocol \in {"socketio", "mqtt", "amqp"}
    /\ protocol = "socketio" => SioCourse
    /\ protocol = "mqtt" => MqttCourse
    /\ protocol = "amqp" => AmqpCourse

------------------------------------------------------------------------------
(* The session operators.                                                   *)

\* A status is set, and the errors stay (session.service.ts:42).
LEMMA StatusSet ==
    ASSUME NEW s, Sound(s), NEW status
    PROVE  /\ Sound(UpdateStatus(s, status))
           /\ UpdateStatus(s, status).status = status
           /\ UpdateStatus(s, status).errors = s.errors
    BY DEF UpdateStatus, Sound

\* An error is counted, and the status stays (session.service.ts:83).
LEMMA ErrorCounted ==
    ASSUME NEW s, Sound(s)
    PROVE  /\ Sound(RecordError(s)) /\ RecordError(s).status = s.status
           /\ RecordError(s).errors > 0
    BY DEF RecordError, Sound

\* The other operators change neither (session.service.ts:56-121).
LEMMA OthersFollow ==
    ASSUME NEW s, Sound(s), NEW rtt, NEW ev, NEW topic
    PROVE  /\ Follows(s, RecordSent(s)) /\ Follows(s, RecordReceived(s, rtt))
           /\ Follows(s, BufferMessage(s, ev)) /\ Follows(s, AfterReplay(s))
           /\ Follows(s, AddTopic(s, topic)) /\ Follows(s, RemoveTopic(s, topic))
    BY DEF RecordSent, RecordReceived, BufferMessage, AfterReplay, AddTopic, RemoveTopic,
           Follows, Sound

\* Following is transitive: an event counted twice follows.
LEMMA FollowsOn ==
    ASSUME NEW s, NEW t, NEW u, Follows(s, t), Follows(t, u)
    PROVE  Follows(s, u)
    BY DEF Follows

\* A connection starts on its course.
LEMMA CourseInit == Init => Course
    <1> SUFFICES ASSUME Init PROVE Course
        OBVIOUS
    <1>1. sess = NewSession /\ ~deleted
        BY DEF Init, ProxiedInit, GatewayInit
    <1>2. Sound(sess) /\ sess.status = "connecting"
        BY <1>1 DEF NewSession, Sound
    <1>3. CASE protocol = "socketio" /\ SioInit /\ AmqpIdle
        BY <1>1, <1>2, <1>3 DEF SioInit, SioCourse, SioLink, AmqpIdle, Course
    <1>4. CASE protocol = "mqtt" /\ MqttInit /\ AmqpIdle
        BY <1>1, <1>2, <1>4 DEF MqttInit, MqttCourse, MqttLink, AmqpIdle, Course
    <1>5. CASE protocol = "amqp" /\ AmqpInit
        BY <1>1, <1>2, <1>5 DEF AmqpInit, AmqpCourse, AmqpLink, Clientless, Making, Course
    <1> QED
        BY <1>3, <1>4, <1>5 DEF Init

------------------------------------------------------------------------------
(* Every job stays on the course.                                           *)

\* The jobs of a Socket.IO connection.
LEMMA SioStep == Course /\ Socket => Course'
    <1> SUFFICES ASSUME Course, Socket PROVE Course'
        OBVIOUS
    <1>0. /\ Sound(sess) /\ SioCourse /\ SioNext
          /\ protocol = "socketio" /\ protocol' = "socketio" /\ UNCHANGED missed
        BY DEF Course, Socket, amqpVars
    <1> SUFFICES Sound(sess') /\ SioCourse'
        BY <1>0 DEF Course
    <1> USE <1>0 DEF SioCourse, SioLink, browsers, told
    <1>1. CASE SioConnect
        BY <1>1, StatusSet DEF SioConnect
    <1>2. CASE SioConnectError
        <2>1. CASE failed /\ UNCHANGED <<sess, inbox>>
            BY <1>2, <2>1 DEF SioConnectError, Backoff
        <2>2. CASE ~failed /\ sess' = RecordError(UpdateStatus(sess, "error"))
            <3>1. Sound(sess') /\ sess'.status = "error" /\ sess'.errors > 0
                BY <2>2, StatusSet, ErrorCounted
            <3> QED
                BY <1>2, <2>2, <3>1 DEF SioConnectError, Backoff
        <2> QED
            BY <1>2, <2>1, <2>2 DEF SioConnectError
    <1>3. CASE SioReconnectAttempt
        BY <1>3, StatusSet DEF SioReconnectAttempt
    <1>4. CASE SioDisconnect
        <2>1. Sound(sess') /\ sess'.status = "disconnected" /\ sess'.errors = sess.errors
            BY <1>4, StatusSet DEF SioDisconnect
        <2> QED
            BY <1>4, <2>1 DEF SioDisconnect, Backoff
    <1>5. CASE \E e \in Events, bare \in BOOLEAN : SioEvent(e, bare)
        <2>1. PICK e \in Events, bare \in BOOLEAN : SioEvent(e, bare)
            BY <1>5
        <2>2. Follows(sess, sess')
            <3> DEFINE ev == Ev("message", arrived + 1)
                       s == RecordReceived(sess, FALSE)
                       b == BufferMessage(s, ev)
            <3>1. Follows(sess, s) /\ Sound(s)
                BY OthersFollow DEF Follows
            <3>2. Follows(s, b) /\ Sound(b)
                BY <3>1, OthersFollow DEF Follows
            <3>3. Follows(b, RecordReceived(b, FALSE))
                BY <3>2, OthersFollow
            <3>4. sess' \in {b, RecordReceived(b, FALSE)}
                BY <2>1 DEF SioEvent
            <3>5. Follows(sess, b)
                BY <3>1, <3>2, FollowsOn
            <3>6. Follows(sess, RecordReceived(b, FALSE))
                BY <3>3, <3>5, FollowsOn
            <3> HIDE DEF s, b
            <3> QED
                BY <3>4, <3>5, <3>6
        <2> QED
            BY <2>1, <2>2 DEF SioEvent, Follows
    <1>6. CASE \E e \in Events : SioSubscribe(e)
        BY <1>6 DEF SioSubscribe, gatewayVars
    <1>7. CASE SioAck
        BY <1>7 DEF SioAck
    <1>8. CASE SioCleanUp
        BY <1>8 DEF SioCleanUp, gatewayVars, Sound
    <1>9. CASE SioSend
        BY <1>9, OthersFollow DEF SioSend, Follows
    <1>10. CASE SioDelete
        <2>1. Sound(sess') /\ sess'.status = "disconnected" /\ sess'.errors = sess.errors
            BY <1>10, StatusSet DEF SioDelete, SioSessionClose
        <2> QED
            BY <1>10, <2>1 DEF SioDelete, SioSessionClose
    <1> QED
        BY <1>1, <1>2, <1>3, <1>4, <1>5, <1>6, <1>7, <1>8, <1>9, <1>10 DEF SioNext

\* Asking for a topic, and the answer of the panel, leave the session alone.
LEMMA RequestsOnly ==
    ASSUME \/ \E r \in Request :
                 MqttRequest(r) \/ \E k \in Clients : PanelRequest(k, r)
           \/ \E call \in asked : PanelAnswered(call)
    PROVE  UNCHANGED <<sess, link, deleted>>
    <1>1. ASSUME NEW r, TakeRequest(r) PROVE UNCHANGED <<sess, link, deleted>>
        BY <1>1 DEF TakeRequest, gatewayVars
    <1>2. ASSUME NEW call, PanelAnswered(call) PROVE UNCHANGED <<sess, link, deleted>>
        BY <1>2 DEF PanelAnswered, gatewayVars
    <1> QED
        BY <1>1, <1>2 DEF MqttRequest, PanelRequest

\* The jobs of an MQTT connection.
LEMMA MqttStep == Course /\ Mqtt => Course'
    <1> SUFFICES ASSUME Course, Mqtt PROVE Course'
        OBVIOUS
    <1>0. /\ Sound(sess) /\ MqttCourse /\ MqttNext
          /\ protocol = "mqtt" /\ protocol' = "mqtt" /\ UNCHANGED missed
        BY DEF Course, Mqtt, amqpVars
    <1> SUFFICES Sound(sess') /\ MqttCourse'
        BY <1>0 DEF Course
    <1> USE <1>0 DEF MqttCourse, MqttLink, browsers, told, mqttVars
    <1>1. CASE MqttConnect
        BY <1>1, StatusSet DEF MqttConnect
    <1>2. CASE MqttMessage
        BY <1>2, OthersFollow DEF MqttMessage, Follows
    <1>3. CASE MqttError
        <2>1. Sound(sess') /\ sess'.status = "error"
            BY <1>3, StatusSet, ErrorCounted DEF MqttError
        <2> QED
            BY <1>3, <2>1 DEF MqttError
    <1>4. CASE MqttClose
        <2>1. Sound(sess') /\ sess'.status \in {"error", "disconnected"}
            BY <1>4, StatusSet DEF MqttClose
        <2> QED
            BY <1>4, <2>1 DEF MqttClose
    <1>5. CASE BrokerServes
        BY <1>5 DEF BrokerServes, gatewayVars
    <1>6. CASE MqttAnswer
        <2>1. CASE UNCHANGED sess
            BY <1>6, <2>1 DEF MqttAnswer
        <2>2. CASE \E topic : sess' \in {AddTopic(sess, topic), RemoveTopic(sess, topic)}
            <3>1. Follows(sess, sess')
                BY <2>2, OthersFollow
            <3> QED
                BY <1>6, <3>1 DEF MqttAnswer, Follows
        <2> QED
            BY <1>6, <2>1, <2>2 DEF MqttAnswer
    <1>7. CASE \/ \E r \in Request : MqttRequest(r) \/ \E k \in Clients : PanelRequest(k, r)
               \/ \E call \in asked : PanelAnswered(call)
        <2>1. UNCHANGED <<sess, link, deleted>>
            BY <1>7, RequestsOnly
        <2> QED
            BY <2>1
    <1>8. CASE MqttPublish
        BY <1>8, OthersFollow DEF MqttPublish, Follows
    <1>9. CASE MqttDelete
        <2>1. Sound(sess') /\ sess'.status = "disconnected"
            BY <1>9, StatusSet DEF MqttDelete, MqttSessionClose
        <2> QED
            BY <1>9, <2>1 DEF MqttDelete, MqttSessionClose
    <1> QED
        BY <1>1, <1>2, <1>3, <1>4, <1>5, <1>6, <1>7, <1>8, <1>9 DEF MqttNext

\* The jobs of an AMQP connection.
LEMMA AmqpStep == Course /\ Amqp => Course'
    <1> SUFFICES ASSUME Course, Amqp PROVE Course'
        OBVIOUS
    <1>0. /\ Sound(sess) /\ AmqpCourse /\ AmqpNext
          /\ protocol = "amqp" /\ protocol' = "amqp"
        BY DEF Course, Amqp
    <1> SUFFICES Sound(sess') /\ AmqpCourse'
        BY <1>0 DEF Course
    <1> USE <1>0 DEF AmqpCourse, AmqpLink, Clientless, Making, browsers, told, amqpVars
    <1>0a. CASE AmqpConnected
        BY <1>0a DEF AmqpConnected, gatewayVars
    <1>1. CASE AmqpOpen
        BY <1>1, StatusSet DEF AmqpOpen
    <1>2. CASE AmqpRefused
        BY <1>2, StatusSet DEF AmqpRefused
    <1>3. CASE AmqpDeliver
        BY <1>3, OthersFollow DEF AmqpDeliver, Follows
    <1>4. CASE AmqpError
        <2>1. Sound(sess') /\ sess'.status = "disconnected"
            BY <1>4, StatusSet, ErrorCounted DEF AmqpError
        <2> QED
            BY <1>4, <2>1 DEF AmqpError, GoneDown
    <1>5. CASE AmqpClose
        BY <1>5, StatusSet DEF AmqpClose, GoneDown
    <1>6. CASE AmqpCancelled \/ AmqpSecondClose
        BY <1>6 DEF AmqpCancelled, AmqpSecondClose, gatewayVars
    <1>7. CASE AmqpConsuming \/ AmqpSetupStep
        BY <1>7 DEF AmqpConsuming, AmqpSetupStep, gatewayVars
    <1>8. CASE AmqpSetup \/ AmqpConsume
        BY <1>8 DEF AmqpSetup, AmqpConsume, gatewayVars
    <1>9. CASE \E tag \in tags, multiple \in BOOLEAN : AmqpAck(tag, multiple)
        BY <1>9 DEF AmqpAck, gatewayVars
    <1>10. CASE AmqpPublish
        BY <1>10, OthersFollow DEF AmqpPublish, Follows
    <1>11. CASE AmqpDelete
        <2>1. Sound(sess') /\ sess'.status = "disconnected"
            BY <1>11, StatusSet DEF AmqpDelete
        <2>2. link \in Clientless => UNCHANGED link /\ (link \in Making => deleted' /\ missed')
            BY <1>11 DEF AmqpDelete, AmqpSessionClose
        <2>3. link \notin Clientless => link' \in {"cancelling", "closing", "down"}
            BY <1>11 DEF AmqpDelete, AmqpSessionClose
        <2> QED
            BY <2>1, <2>2, <2>3
    <1> QED
        BY <1>0a, <1>1, <1>2, <1>3, <1>4, <1>5, <1>6, <1>7, <1>8, <1>9, <1>10, <1>11 DEF AmqpNext

\* What browsers do changes neither the client nor the status of the session.
LEMMA BrowsersFollow ==
    ASSUME Course, NEW k \in Clients, BrowserJoins(k) \/ BrowserReceives(k) \/ BrowserMoves(k)
    PROVE  /\ Follows(sess, sess')
           /\ UNCHANGED <<link, deleted, protocol, tracked, sioVars, mqttVars, amqpVars>>
    <1>0. Sound(sess) /\ Follows(sess, sess)
        BY DEF Course, Follows
    <1>1. CASE BrowserJoins(k)
        BY <1>0, <1>1, OthersFollow DEF BrowserJoins, ProxiedJoin, Join
    <1>2. CASE BrowserReceives(k)
        BY <1>0, <1>2 DEF BrowserReceives, ProxiedReceive, Receive, serverSide
    <1>3. CASE BrowserMoves(k)
        BY <1>0, <1>3
        DEF BrowserMoves, ProxiedDrop, ControlDrop, ProxiedReconnect, ControlReconnect
    <1> QED
        BY <1>1, <1>2, <1>3

\* Every job stays on the course.
LEMMA CourseStep == Course /\ [Next]_vars => Course'
    <1> SUFFICES ASSUME Course, [Next]_vars PROVE Course'
        OBVIOUS
    <1>1. CASE Socket \/ Mqtt \/ Amqp
        BY <1>1, SioStep, MqttStep, AmqpStep
    <1>2. CASE \E k \in Clients : BrowserJoins(k) \/ BrowserReceives(k) \/ BrowserMoves(k)
        BY <1>2, BrowsersFollow
        DEF Course, SioCourse, MqttCourse, AmqpCourse, Follows, Sound, sioVars, amqpVars
    <1>3. CASE UNCHANGED vars
        BY <1>3 DEF vars, proxyVars, gatewayVars, sioVars, Course, SioCourse, MqttCourse,
                    AmqpCourse, amqpVars, Sound
    <1> QED
        BY <1>1, <1>2, <1>3 DEF Next

\* A connection is on its course at all times.
LEMMA CourseCorrect == Spec => []Course
    BY CourseInit, CourseStep, PTL DEF Spec

\* Whatever the protocol, the session is connected exactly while the library's
\* client is, save for a client the late clean-up took down
\* (socketio.service.ts:161, mqtt.service.ts:112, amqp.service.ts:87).
THEOREM SessionFollowsClient == Spec => []StatusFollowsLink
    <1>1. Course => StatusFollowsLink
        BY DEF Course, SioCourse, MqttCourse, AmqpCourse, SioLink, MqttLink, AmqpLink,
               Clientless, Making, StatusFollowsLink, Up, TakenDown, Retries
    <1> QED
        BY <1>1, CourseCorrect, PTL

------------------------------------------------------------------------------
(* Refinement: the status keeps what ConnectionLife promises.               *)

\* Whether a client retries is settled when it is created.
LEMMA RetriesKept == Course /\ [Next]_vars => UNCHANGED Retries
    <1> SUFFICES ASSUME Course, [Next]_vars PROVE UNCHANGED <<protocol, auto>>
        BY DEF Retries
    <1>1. CASE Socket
        <2>1. UNCHANGED protocol /\ SioNext
            BY <1>1 DEF Socket
        <2>2. UNCHANGED auto
            BY <2>1 DEF SioNext, SioConnect, SioConnectError, SioReconnectAttempt,
                   SioDisconnect, SioEvent, SioSubscribe, SioAck, SioCleanUp, SioSend,
                   SioDelete
        <2> QED
            BY <2>1, <2>2
    <1>2. CASE Mqtt \/ Amqp
        BY <1>2 DEF Mqtt, Amqp, sioVars
    <1>3. CASE \E k \in Clients : BrowserJoins(k) \/ BrowserReceives(k) \/ BrowserMoves(k)
        BY <1>3, BrowsersFollow DEF sioVars
    <1>4. CASE UNCHANGED vars
        BY <1>4 DEF vars, proxyVars, sioVars
    <1> QED
        BY <1>1, <1>2, <1>3, <1>4 DEF Next

\* A Socket.IO job is a step of ConnectionLife, or none: 'connect' is ComeUp,
\* the first 'connect_error' Fail, 'reconnect_attempt' Retry, 'disconnect' End.
LEMMA SioLife ==
    ASSUME Course, Socket
    PROVE  Life!Next \/ UNCHANGED <<sess.status, deleted, StillComing>>
    <1>0. Sound(sess) /\ SioCourse /\ SioNext /\ protocol = "socketio"
        BY DEF Course, Socket
    <1>j. StillComing = FALSE /\ StillComing' = FALSE
        BY <1>0 DEF Socket, amqpVars, SioCourse, StillComing
    <1> USE <1>j
    <1> USE <1>0 DEF browsers, told
    <1>k. UNCHANGED Retries
        BY RetriesKept DEF Next
    <1> USE <1>k
    <1>1. CASE SioConnect
        <2>1. sess'.status = "connected"
            BY <1>1, StatusSet DEF SioConnect
        <2> QED
            BY <1>1, <2>1 DEF SioConnect, SioCourse, Life!Next, Life!ComeUp
    <1>2. CASE SioConnectError /\ ~failed
        <2>1. sess'.status = "error"
            BY <1>2, StatusSet, ErrorCounted DEF SioConnectError
        <2> QED
            BY <1>2, <2>1 DEF SioConnectError, SioCourse, Life!Next, Life!Fail
    <1>3. CASE SioConnectError /\ failed
        BY <1>3 DEF SioConnectError
    <1>4. CASE SioReconnectAttempt
        <2>1. sess'.status = "reconnecting" /\ UNCHANGED deleted
            BY <1>4, StatusSet DEF SioReconnectAttempt
        <2> QED
            BY <1>4, <2>1 DEF SioReconnectAttempt, SioCourse, Retries, Life!Next, Life!Retry
    <1>5. CASE SioDisconnect
        <2>1. sess'.status = "disconnected"
            BY <1>5, StatusSet DEF SioDisconnect
        <2> QED
            BY <1>5, <2>1 DEF SioDisconnect, Life!Next, Life!End
    <1>6. CASE \/ \E e \in Events, bare \in BOOLEAN : SioEvent(e, bare)
               \/ \E e \in Events : SioSubscribe(e)
        <2>1. ASSUME NEW e \in Events, NEW bare \in BOOLEAN, SioEvent(e, bare)
              PROVE  UNCHANGED <<sess.status, deleted>>
            <3> DEFINE s == RecordReceived(sess, FALSE)
                       b == BufferMessage(s, Ev("message", arrived + 1))
            <3>1. Sound(s) /\ s.status = sess.status
                BY OthersFollow DEF Follows
            <3>2. Sound(b) /\ b.status = sess.status
                BY <3>1, OthersFollow DEF Follows
            <3>3. RecordReceived(b, FALSE).status = sess.status
                BY <3>2, OthersFollow DEF Follows
            <3>4. sess' \in {b, RecordReceived(b, FALSE)} /\ UNCHANGED deleted
                BY <2>1 DEF SioEvent
            <3> HIDE DEF s, b
            <3> QED
                BY <3>2, <3>3, <3>4
        <2> QED
            BY <1>6, <2>1 DEF SioSubscribe, gatewayVars
    <1>7. CASE SioAck \/ SioCleanUp
        BY <1>7 DEF SioAck, SioCleanUp, gatewayVars
    <1>8. CASE SioSend
        BY <1>8, OthersFollow DEF SioSend, Follows
    <1>9. CASE SioDelete
        <2>1. sess'.status = "disconnected"
            BY <1>9, StatusSet DEF SioDelete, SioSessionClose
        <2> QED
            BY <1>9, <2>1 DEF SioDelete, SioSessionClose, Life!Next, Life!Delete
    <1> QED
        BY <1>1, <1>2, <1>3, <1>4, <1>5, <1>6, <1>7, <1>8, <1>9 DEF SioNext

\* An MQTT job: 'connect' is ComeUp, 'error' Fail, 'close' End or nothing.
LEMMA MqttLife ==
    ASSUME Course, Mqtt
    PROVE  Life!Next \/ UNCHANGED <<sess.status, deleted, StillComing>>
    <1>0. Sound(sess) /\ MqttCourse /\ MqttNext /\ protocol = "mqtt"
        BY DEF Course, Mqtt
    <1>j. StillComing = FALSE /\ StillComing' = FALSE
        BY <1>0 DEF Mqtt, amqpVars, MqttCourse, StillComing
    <1> USE <1>j
    <1> USE <1>0 DEF browsers, told, mqttVars
    <1>k. UNCHANGED Retries
        BY RetriesKept DEF Next
    <1> USE <1>k
    <1>1. CASE MqttConnect
        <2>1. sess'.status = "connected"
            BY <1>1, StatusSet DEF MqttConnect
        <2> QED
            BY <1>1, <2>1 DEF MqttConnect, MqttCourse, Life!Next, Life!ComeUp
    <1>2. CASE MqttError
        <2>1. sess'.status = "error"
            BY <1>2, StatusSet, ErrorCounted DEF MqttError
        <2> QED
            BY <1>2, <2>1 DEF MqttError, MqttCourse, Life!Next, Life!Fail
    <1>3. CASE MqttClose
        <2>1. sess'.status = "disconnected" \/ sess' = sess
            BY <1>3, StatusSet DEF MqttClose
        <2> QED
            BY <1>3, <2>1 DEF MqttClose, Life!Next, Life!End
    <1>4. CASE MqttAnswer
        <2>1. CASE UNCHANGED sess
            BY <1>4, <2>1 DEF MqttAnswer
        <2>2. CASE \E topic : sess' \in {AddTopic(sess, topic), RemoveTopic(sess, topic)}
            <3>1. sess'.status = sess.status
                BY <2>2, OthersFollow DEF Follows
            <3> QED
                BY <1>4, <3>1 DEF MqttAnswer
        <2> QED
            BY <1>4, <2>1, <2>2 DEF MqttAnswer
    <1>5. CASE MqttMessage \/ MqttPublish
        <2>1. Follows(sess, sess') /\ UNCHANGED deleted
            BY <1>5, OthersFollow DEF MqttMessage, MqttPublish
        <2> QED
            BY <2>1 DEF Follows
    <1>6. CASE \/ BrokerServes
               \/ \E r \in Request : MqttRequest(r) \/ \E k \in Clients : PanelRequest(k, r)
               \/ \E call \in asked : PanelAnswered(call)
        <2>1. UNCHANGED <<sess, link, deleted>>
            BY <1>6, RequestsOnly DEF BrokerServes, gatewayVars
        <2> QED
            BY <2>1
    <1>7. CASE MqttDelete
        <2>1. sess'.status = "disconnected"
            BY <1>7, StatusSet DEF MqttDelete, MqttSessionClose
        <2> QED
            BY <1>7, <2>1 DEF MqttDelete, MqttSessionClose, Life!Next, Life!Delete
    <1> QED
        BY <1>1, <1>2, <1>3, <1>4, <1>5, <1>6, <1>7 DEF MqttNext

\* An AMQP job: a connection that is up is ComeUp, also when a DELETE came before
\* it, one that is refused Fail, and 'close' End, also when 'error' comes before it
\* in the same job.
LEMMA AmqpLife ==
    ASSUME Course, Amqp
    PROVE  Life!Next \/ UNCHANGED <<sess.status, deleted, StillComing>>
    <1>0. Sound(sess) /\ AmqpCourse /\ AmqpNext /\ protocol = "amqp"
        BY DEF Course, Amqp
    <1> USE <1>0 DEF browsers, told, amqpVars, StillComing, Making
    <1>k. UNCHANGED Retries
        BY RetriesKept DEF Next
    <1> USE <1>k
    <1>0a. CASE AmqpConnected
        BY <1>0a DEF AmqpConnected, gatewayVars
    <1>1. CASE AmqpOpen
        <2>1. sess'.status = "connected"
            BY <1>1, StatusSet DEF AmqpOpen
        <2> QED
            BY <1>1, <2>1 DEF AmqpOpen, AmqpCourse, Life!Next, Life!ComeUp
    <1>2. CASE AmqpRefused
        <2>1. sess'.status = "error"
            BY <1>2, StatusSet DEF AmqpRefused
        <2> QED
            BY <1>2, <2>1 DEF AmqpRefused, AmqpCourse, Life!Next, Life!Fail
    <1>3. CASE AmqpError \/ AmqpClose
        <2>1. sess'.status = "disconnected"
            BY <1>3, StatusSet, ErrorCounted DEF AmqpError, AmqpClose
        <2> QED
            BY <1>3, <2>1 DEF AmqpError, AmqpClose, GoneDown, Life!Next, Life!End
    <1>4. CASE AmqpDeliver \/ AmqpPublish
        <2>1. Follows(sess, sess') /\ UNCHANGED <<deleted, missed, link>>
            BY <1>4, OthersFollow DEF AmqpDeliver, AmqpPublish
        <2> QED
            BY <2>1 DEF Follows
    <1>5. CASE \/ AmqpCancelled \/ AmqpSecondClose \/ AmqpConsuming \/ AmqpSetupStep
               \/ AmqpSetup \/ AmqpConsume
               \/ \E tag \in tags, multiple \in BOOLEAN : AmqpAck(tag, multiple)
        BY <1>5 DEF AmqpCancelled, AmqpSecondClose, AmqpConsuming, AmqpSetupStep,
                    AmqpSetup, AmqpConsume, AmqpAck, gatewayVars
    <1>6. CASE AmqpDelete
        <2>1. sess'.status = "disconnected" /\ deleted'
            BY <1>6, StatusSet DEF AmqpDelete
        <2>2. StillComing' => StillComing \/ sess.status = "connecting"
            BY <1>6 DEF AmqpDelete, AmqpSessionClose, AmqpCourse
        <2>3. StillComing' \in BOOLEAN
            OBVIOUS
        <2> QED
            BY <2>1, <2>2, <2>3 DEF Life!Next, Life!Delete
    <1> QED
        BY <1>0a, <1>1, <1>2, <1>3, <1>4, <1>5, <1>6 DEF AmqpNext

\* Every job of the composition is a step of ConnectionLife, or none.
LEMMA LifeStep == Course /\ [Next]_vars => [Life!Next]_(Life!lifeVars)
    <1> SUFFICES ASSUME Course, [Next]_vars PROVE [Life!Next]_(Life!lifeVars)
        OBVIOUS
    <1>0. UNCHANGED Retries
        BY RetriesKept
    <1>1. CASE Socket \/ Mqtt \/ Amqp
        BY <1>0, <1>1, SioLife, MqttLife, AmqpLife DEF Life!lifeVars
    <1>2. CASE \E k \in Clients : BrowserJoins(k) \/ BrowserReceives(k) \/ BrowserMoves(k)
        BY <1>0, <1>2, BrowsersFollow DEF Follows, StillComing, amqpVars, Life!lifeVars
    <1>3. CASE UNCHANGED vars
        BY <1>0, <1>3 DEF vars, proxyVars, gatewayVars, amqpVars, StillComing, Life!lifeVars
    <1> QED
        BY <1>1, <1>2, <1>3 DEF Next

\* A connection of any of the three protocols keeps what ConnectionLife
\* promises of its status, whatever its library, the target and the users do
\* (socketio.service.ts:101-179, mqtt.service.ts:68-122, amqp.service.ts:74-115).
THEOREM ImplementsConnectionLife == Spec => RefinesLife
    <1>1. Init => Life!Init
        BY DEF Init, ProxiedInit, GatewayInit, NewSession, Retries, AmqpInit, AmqpIdle,
               StillComing, Life!Init
    <1> QED
        BY <1>1, CourseCorrect, LifeStep, PTL DEF Spec, RefinesLife, Life!Spec

------------------------------------------------------------------------------
(* Acknowledgements.                                                        *)

\* What the broker waits for is in deliveryTags, also while the channel closes.
Settleable == protocol = "amqp" => unacked \subseteq tags

\* Only the jobs of an AMQP connection touch deliveries and tags.
LEMMA SettleableStep == Settleable /\ [Next]_vars => Settleable'
    <1> SUFFICES ASSUME Settleable, [Next]_vars PROVE Settleable'
        OBVIOUS
    <1>1. CASE Amqp
        <2> USE DEF Amqp, Settleable, amqpVars
        <2>1. CASE AmqpDeliver
            BY <1>1, <2>1 DEF AmqpDeliver
        <2>2. CASE \E tag \in tags, multiple \in BOOLEAN : AmqpAck(tag, multiple)
            BY <1>1, <2>2 DEF AmqpAck
        <2>3. CASE AmqpError \/ AmqpClose
            BY <1>1, <2>3 DEF AmqpError, AmqpClose, GoneDown
        <2>4. CASE \/ AmqpConnected \/ AmqpOpen \/ AmqpRefused \/ AmqpCancelled \/ AmqpSecondClose
                   \/ AmqpConsuming \/ AmqpSetupStep \/ AmqpSetup \/ AmqpConsume
                   \/ AmqpPublish \/ AmqpDelete
            BY <1>1, <2>4
            DEF AmqpConnected, AmqpOpen, AmqpRefused, AmqpCancelled, AmqpSecondClose,
                AmqpConsuming, AmqpSetupStep, AmqpSetup, AmqpConsume, AmqpPublish, AmqpDelete
        <2> QED
            BY <1>1, <2>1, <2>2, <2>3, <2>4 DEF AmqpNext
    <1>2. CASE Socket \/ Mqtt
        BY <1>2 DEF Socket, Mqtt, Settleable
    <1>3. CASE \E k \in Clients : BrowserJoins(k) \/ BrowserReceives(k) \/ BrowserMoves(k)
        BY <1>3
        DEF BrowserJoins, BrowserReceives, BrowserMoves, ProxiedJoin, ProxiedReceive,
            ProxiedDrop, ProxiedReconnect, amqpVars, Settleable
    <1>4. CASE UNCHANGED vars
        BY <1>4 DEF vars, proxyVars, amqpVars, Settleable
    <1> QED
        BY <1>1, <1>2, <1>3, <1>4 DEF Next

\* However many deliveries are acknowledged at once, each that the broker still
\* waits for can be (amqp.service.ts:163-203).
THEOREM DeliveriesCanBeSettled == Spec => []UnackedAreKnown
    <1>1. Init => Settleable
        BY DEF Init, AmqpInit, Settleable
    <1>2. Settleable => UnackedAreKnown
        BY DEF Settleable, UnackedAreKnown
    <1> QED
        BY <1>1, <1>2, SettleableStep, PTL DEF Spec

==============================================================================
