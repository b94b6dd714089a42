-------------------------- MODULE ProxiesRoomProofs --------------------------
(****************************************************************************)
(* Proofs about what the browsers of a proxied connection have: the types,  *)
(* what the room hears of the session, the topics it knows and the messages *)
(* its first member receives; for every set of clients, topics and events   *)
(* and every value of the bounds.                                           *)
(****************************************************************************)
EXTENDS ProxiesProofs

\* A message that is kept for a browser that has yet to join.
Kept == [type : {"message"}, id : 1..MaxMsgs]

\* What browsers are sent is about messages that came and topics there are.
Told == {e \in Event : /\ e.type = "message" => e.id \in 1..MaxMsgs
                       /\ e.type \in {"subscribed", "unsubscribed"} => e.id \in Topics}

\* The sessions of proxied connections.
Recorded == {s \in SessionType : s.buffered \in Seq(Kept) /\ s.topics \in Seq(Topics)}

\* The type invariant, strengthened until it is inductive.
Typed ==
    /\ TypeOK
    /\ sess \in Recorded
    /\ inbox \in [Clients -> Seq(Told)]
    /\ protocol = "socketio" => acks <= calls
    /\ protocol = "amqp" => closers <= calls

------------------------------------------------------------------------------
(* The session operators and the events.                                    *)

\* A list without one of its elements is a list of the same type.
LEMMA WithoutType ==
    ASSUME NEW T, NEW list \in Seq(T), NEW e
    PROVE  Without(list, e) \in Seq(T)
    <1>1. CASE \E i \in DOMAIN list : list[i] = e
        <2> DEFINE at == CHOOSE i \in DOMAIN list : list[i] = e
        <2>1. at \in DOMAIN list
            BY <1>1
        <2>2. DOMAIN list = 1..Len(list) /\ Len(list) \in Nat
            BY LenProperties
        <2> HIDE DEF at
        <2>3. /\ \A i \in 1..(at - 1) : list[i] \in T
              /\ \A i \in (at + 1)..Len(list) : list[i] \in T
            BY <2>1, <2>2, ElementOfSeq
        <2>4. SubSeq(list, 1, at - 1) \in Seq(T) /\ SubSeq(list, at + 1, Len(list)) \in Seq(T)
            BY <2>1, <2>2, <2>3, SubSeqProperties
        <2>5. Without(list, e) = SubSeq(list, 1, at - 1) \o SubSeq(list, at + 1, Len(list))
            BY <1>1 DEF Without, at
        <2> QED
            BY <2>4, <2>5, ConcatProperties
    <1> QED
        BY <1>1 DEF Without

\* Whatever the service does to a session (session.service.ts:42-121).
LEMMA RecordedSessions ==
    ASSUME NEW s \in Recorded
    PROVE  /\ \A status \in Status : UpdateStatus(s, status) \in Recorded
           /\ RecordSent(s) \in Recorded /\ RecordError(s) \in Recorded
           /\ RecordReceived(s, FALSE) \in Recorded
           /\ \A ev \in Kept : BufferMessage(s, ev) \in Recorded
           /\ AfterReplay(s) \in Recorded
           /\ \A topic \in Topics :
                 AddTopic(s, topic) \in Recorded /\ RemoveTopic(s, topic) \in Recorded
    <1>0. s \in SessionType /\ s.buffered \in Seq(Kept) /\ s.topics \in Seq(Topics)
        BY DEF Recorded
    <1>1. ASSUME NEW status \in Status PROVE UpdateStatus(s, status) \in Recorded
        <2>1. UpdateStatus(s, status) \in SessionType
            BY <1>0, UpdateStatusType
        <2> QED
            BY <1>0, <2>1 DEF UpdateStatus, SessionType, Recorded
    <1>2. RecordSent(s) \in Recorded /\ RecordError(s) \in Recorded
              /\ RecordReceived(s, FALSE) \in Recorded
        <2>1. /\ RecordSent(s) \in SessionType /\ RecordError(s) \in SessionType
              /\ RecordReceived(s, FALSE) \in SessionType
            BY <1>0, RecordTypes DEF SameAs
        <2> QED
            BY <1>0, <2>1
            DEF RecordSent, RecordError, RecordReceived, SessionType, Recorded
    <1>3. ASSUME NEW ev \in Kept PROVE BufferMessage(s, ev) \in Recorded
        <2>1. Kept \subseteq Event
            BY DEF Kept, Event, EventType
        <2>2. BufferMessage(s, ev) \in SessionType
            BY <1>0, <2>1, BufferMessageType
        <2>3. Append(s.buffered, ev) \in Seq(Kept) /\ Append(s.buffered, ev) # <<>>
            BY <1>0, AppendProperties
        <2>4. Tail(Append(s.buffered, ev)) \in Seq(Kept)
            BY <2>3, HeadTailProperties
        <2> QED
            BY <1>0, <2>2, <2>3, <2>4 DEF BufferMessage, SessionType, Recorded
    <1>4. AfterReplay(s) \in Recorded
        <2>1. AfterReplay(s) \in SessionType /\ <<>> \in Seq(Kept)
            BY <1>0, AfterReplayType, EmptySeq
        <2> QED
            BY <1>0, <2>1 DEF AfterReplay, SessionType, Recorded
    <1>5. ASSUME NEW topic \in Topics
          PROVE  AddTopic(s, topic) \in Recorded /\ RemoveTopic(s, topic) \in Recorded
        <2>1. Append(s.topics, topic) \in Seq(Topics) /\ Without(s.topics, topic) \in Seq(Topics)
            BY <1>0, AppendProperties, WithoutType
        <2>2. \A list \in Seq(Topics) : list \in Seq(Nat)
            BY ProxiedAssumption, SeqMonotonic
        <2>3. \A list \in Seq(Topics) : [s EXCEPT !.topics = list] \in Recorded
            BY <1>0, <2>2 DEF SessionType, Recorded
        <2> QED
            BY <1>0, <2>1, <2>3 DEF AddTopic, RemoveTopic
    <1> QED
        BY <1>1, <1>2, <1>3, <1>4, <1>5

\* The events the services emit.
LEMMA ToldEvents ==
    /\ \A type \in EventType \ {"message", "subscribed", "unsubscribed"} : Ev(type, 0) \in Told
    /\ \A n \in 1..MaxMsgs : Ev("message", n) \in Told \cap Kept
    /\ \A t \in Topics : Ev("subscribed", t) \in Told /\ Ev("unsubscribed", t) \in Told
    /\ StatusEvents \cup {"sent", "ack", "setup"}
           \subseteq EventType \ {"message", "subscribed", "unsubscribed"}
    /\ Told \subseteq Event
    <1>1. /\ \A type \in EventType, n \in Nat : Ev(type, n) \in Event
          /\ \A type, n : Ev(type, n).type = type /\ Ev(type, n).id = n
        BY DEF Ev, Event
    <1>2. {"message", "subscribed", "unsubscribed"} \subseteq EventType
        BY DEF EventType
    <1>3. \A n \in 1..MaxMsgs : Ev("message", n) \in Told /\ Ev("message", n) \in Kept
        BY <1>1, <1>2, ProxiedAssumption DEF Told, Kept, Ev
    <1>4. \A t \in Topics : Ev("subscribed", t) \in Told /\ Ev("unsubscribed", t) \in Told
        BY <1>1, <1>2, ProxiedAssumption DEF Told
    <1>5. \A type \in EventType \ {"message", "subscribed", "unsubscribed"} :
              Ev(type, 0) \in Told
        BY <1>1 DEF Told
    <1>6. StatusEvents \cup {"sent", "ack", "setup"}
              \subseteq EventType \ {"message", "subscribed", "unsubscribed"}
        BY DEF EventType, StatusEvents
    <1> QED
        BY <1>3, <1>4, <1>5, <1>6 DEF Told

\* One of them, two of them and none are what EmitAll is given.
LEMMA ToldSeqs ==
    /\ \A e \in Told : <<e>> \in Seq(Told)
    /\ \A e, f \in Told : <<e, f>> \in Seq(Told)
    /\ <<>> \in Seq(Told)
    OBVIOUS

\* What a browser that joins is sent (events.gateway.ts:56-92).
LEMMA ToldReplay == ASSUME NEW s \in Recorded PROVE Replay(s) \in Seq(Told)
    <1> DEFINE topics == [i \in 1..Len(s.topics) |-> Ev("subscribed", s.topics[i])]
    <1>1. s.buffered \in Seq(Kept) /\ s.topics \in Seq(Topics)
        BY DEF Recorded
    <1>2. Kept \subseteq Told
        BY ProxiedAssumption DEF Kept, Told, Event, EventType
    <1>3. s.buffered \in Seq(Told)
        BY <1>1, <1>2, SeqMonotonic
    <1>4. topics \in Seq(Told)
        <2>1. Len(s.topics) \in Nat /\ \A i \in 1..Len(s.topics) : s.topics[i] \in Topics
            BY <1>1, LenProperties, ElementOfSeq
        <2>2. \A i \in 1..Len(s.topics) : Ev("subscribed", s.topics[i]) \in Told
            BY <2>1, ToldEvents
        <2> QED
            BY <2>1, <2>2
    <1>5. <<Ev("open", 0)>> \in Seq(Told) /\ <<Ev("error", 0)>> \in Seq(Told)
              /\ <<Ev("close", 0)>> \in Seq(Told) /\ <<>> \in Seq(Told)
        <2>1. \A type \in {"open", "error", "close"} : Ev(type, 0) \in Told
            BY ToldEvents DEF StatusEvents
        <2> QED
            BY <2>1, ToldSeqs
    <1> HIDE DEF topics
    <1>6. (<<Ev("open", 0)>> \o s.buffered) \o topics \in Seq(Told)
        BY <1>3, <1>4, <1>5, ConcatProperties
    <1> QED
        BY <1>5, <1>6 DEF Replay, topics

\* Emitting keeps the inboxes well typed (events.gateway.ts:103).
LEMMA ToldEmit ==
    ASSUME inbox \in [Clients -> Seq(Told)], NEW evs \in Seq(Told), EmitAll(evs)
    PROVE  inbox' \in [Clients -> Seq(Told)]
    <1>1. \A k \in Clients : inbox[k] \o evs \in Seq(Told)
        BY ConcatProperties
    <1> QED
        BY <1>1 DEF EmitAll

\* What is told are events.
LEMMA ToldAreEvents == \A box \in [Clients -> Seq(Told)] : box \in [Clients -> Seq(Event)]
    <1>1. \A q \in Seq(Told) : q \in Seq(Event)
        BY ToldEvents, SeqMonotonic
    <1> QED
        BY <1>1

------------------------------------------------------------------------------
(* Type correctness.                                                        *)

\* What createConnection leaves behind is well typed.
LEMMA TypedInit == Init => Typed
    <1> SUFFICES ASSUME Init PROVE Typed
        OBVIOUS
    <1>1. sess \in Recorded /\ sess \in SessionType
        <2>1. <<>> \in Seq(Kept) /\ <<>> \in Seq(Topics) /\ <<>> \in Seq(Event) /\ <<>> \in Seq(Nat)
            BY EmptySeq
        <2>2. 0 \in 0..MaxSamples /\ "connecting" \in Status
            BY SessionAssumption DEF Status
        <2>3. NewSession \in Recorded
            BY <2>1, <2>2 DEF NewSession, Recorded, SessionType
        <2> QED
            BY <2>3 DEF Init, ProxiedInit, GatewayInit, Recorded
    <1>2. inbox \in [Clients -> Seq(Told)] /\ inbox \in [Clients -> Seq(Event)]
              /\ seen \in [Clients -> Seq(Nat)]
        BY EmptySeq DEF Init, ProxiedInit, GatewayInit
    <1>3. GatewayTypeOK
        BY <1>1, <1>2, GatewayAssumption DEF Init, ProxiedInit, GatewayInit, GatewayTypeOK, Status
    <1>4. ASSUME NEW states, link \in states, tracked \in BOOLEAN
          PROVE  ProxiedTypeOK(states)
        <2>1. 0 \in 0..MaxMsgs /\ 0 \in 0..MaxCalls
            BY ProxiedAssumption
        <2> QED
            BY <1>3, <1>4, <2>1 DEF Init, ProxiedInit, ProxiedTypeOK
    <1>5. CASE protocol = "socketio" /\ SioInit
        <2>1. ProxiedTypeOK(SioLink) /\ acks = 0 /\ calls = 0
            BY <1>4, <1>5 DEF SioInit, SioLink, Init, ProxiedInit
        <2>2. SioTypeOK
            <3>1. 0 \in 0..MaxAttempts /\ 0 \in 0..MaxCalls /\ 0 \in 0..MaxLosses
                BY SocketIoAssumption, ProxiedAssumption
            <3> QED
                BY <1>5, <2>1, <3>1 DEF SioInit, SioTypeOK
        <2> QED
            BY <1>1, <1>2, <1>5, <2>1, <2>2 DEF Typed, TypeOK
    <1>6. CASE protocol = "mqtt" /\ MqttInit
        <2>1. ProxiedTypeOK(MqttLink)
            BY <1>4, <1>6 DEF MqttInit, MqttLink
        <2>2. MqttTypeOK
            BY <1>6, <2>1, EmptySeq DEF MqttInit, MqttTypeOK
        <2> QED
            BY <1>1, <1>2, <1>6, <2>2 DEF Typed, TypeOK
    <1>7. CASE protocol = "amqp" /\ AmqpInit
        <2>1. ProxiedTypeOK(AmqpLink) /\ closers = 0 /\ calls = 0
            BY <1>4, <1>7 DEF AmqpInit, AmqpLink, Clientless, Making, Init, ProxiedInit
        <2>2. AmqpTypeOK
            <3>1. 0 \in 0..MaxSetup /\ 0 \in 0..MaxCalls
                BY AmqpAssumption, ProxiedAssumption
            <3> QED
                BY <1>7, <2>1, <3>1 DEF AmqpInit, AmqpTypeOK
        <2> QED
            BY <1>1, <1>2, <1>7, <2>1, <2>2 DEF Typed, TypeOK
    <1> QED
        BY <1>5, <1>6, <1>7 DEF Init

\* A REST call is counted within its bound.
LEMMA CallSpent ==
    ASSUME SpendCall, calls \in 0..MaxCalls
    PROVE  calls' \in 1..MaxCalls /\ calls' = calls + 1
    BY ProxiedAssumption DEF SpendCall

\* The part of the type invariant a job of a service can disturb beside its own
\* variables: the sockets of the browsers and the history are left alone.
LEMMA ProxiedKept ==
    ASSUME NEW states, ProxiedTypeOK(states),
           UNCHANGED <<online, room, view, seen, drops, leaves, told>>,
           sess' \in Recorded, inbox' \in [Clients -> Seq(Told)],
           link' \in states, tracked' \in BOOLEAN, arrived' \in 0..MaxMsgs,
           calls' \in 0..MaxCalls, deleted' \in BOOLEAN,
           evicted' \in SUBSET (1..MaxMsgs),
           topicsShown' \in [Clients -> SUBSET Topics],
           guessed' \in [Clients -> SUBSET Topics]
    PROVE  ProxiedTypeOK(states)'
    <1>1. inbox' \in [Clients -> Seq(Event)] /\ sess' \in SessionType
        BY ToldAreEvents DEF Recorded
    <1> QED
        BY <1>1 DEF ProxiedTypeOK, GatewayTypeOK, told

\* What the services emit, and leave of the session.
LEMMA ToldSteps ==
    ASSUME sess \in Recorded, inbox \in [Clients -> Seq(Told)]
    PROVE  /\ \A type \in StatusEvents \cup {"sent", "ack", "setup"} :
                 Emit(Ev(type, 0)) => inbox' \in [Clients -> Seq(Told)]
           /\ \A n \in 1..MaxMsgs : Emit(Ev("message", n)) => inbox' \in [Clients -> Seq(Told)]
           /\ \A t \in Topics : Emit(Ev("subscribed", t)) \/ Emit(Ev("unsubscribed", t))
                 => inbox' \in [Clients -> Seq(Told)]
           /\ EmitAll(<<>>) => inbox' \in [Clients -> Seq(Told)]
           /\ EmitAll(<<Ev("error", 0), Ev("close", 0)>>) => inbox' \in [Clients -> Seq(Told)]
           /\ \A n \in 1..MaxMsgs : EmitAll(<<Ev("message", n), Ev("message", n)>>)
                 => inbox' \in [Clients -> Seq(Told)]
    <1>1. \A type \in StatusEvents \cup {"sent", "ack", "setup"} : Ev(type, 0) \in Told
        BY ToldEvents
    <1>2. Ev("error", 0) \in Told /\ Ev("close", 0) \in Told
        BY <1>1 DEF StatusEvents
    <1>3. \A e \in Told : Emit(e) => inbox' \in [Clients -> Seq(Told)]
        BY ToldSeqs, ToldEmit DEF Emit
    <1>4. \A e, f \in Told : EmitAll(<<e, f>>) => inbox' \in [Clients -> Seq(Told)]
        BY ToldSeqs, ToldEmit
    <1>5. EmitAll(<<>>) => inbox' \in [Clients -> Seq(Told)]
        BY ToldSeqs, ToldEmit
    <1>6. \A n \in 1..MaxMsgs : Ev("message", n) \in Told
        BY ToldEvents
    <1>7. \A t \in Topics : Ev("subscribed", t) \in Told /\ Ev("unsubscribed", t) \in Told
        BY ToldEvents
    <1> QED
        BY <1>1, <1>2, <1>3, <1>4, <1>5, <1>6, <1>7

\* What a job of a Socket.IO connection may change, well typed.
SioShape ==
    /\ sess \in Recorded /\ inbox \in [Clients -> Seq(Told)]
    /\ link \in SioLink /\ tracked \in BOOLEAN /\ deleted \in BOOLEAN
    /\ arrived \in 0..MaxMsgs /\ calls \in 0..MaxCalls
    /\ evicted \in SUBSET (1..MaxMsgs)
    /\ auto \in BOOLEAN /\ failed \in BOOLEAN /\ attempts \in 0..MaxAttempts
    /\ subs \in SUBSET Events /\ losses \in 0..MaxLosses
    /\ doubled \in SUBSET (1..MaxMsgs) /\ exited \in BOOLEAN
    /\ acks \in 0..MaxCalls /\ acks <= calls

\* The jobs of a Socket.IO connection are well typed.
LEMMA SioTyped == Course /\ Typed /\ Socket => Typed'
    <1> SUFFICES ASSUME Course, Typed, Socket PROVE Typed'
        OBVIOUS
    <1>0. /\ protocol = "socketio" /\ protocol' = "socketio" /\ SioNext
          /\ SioTypeOK /\ sess \in Recorded /\ inbox \in [Clients -> Seq(Told)]
          /\ acks <= calls
        BY DEF Socket, Typed, TypeOK
    <1>s. \A status \in Status : UpdateStatus(sess, status) \in Recorded
        BY <1>0, RecordedSessions
    <1>f. SioShape
        BY <1>0 DEF SioTypeOK, ProxiedTypeOK, SioShape
    <1> SUFFICES SioShape' /\ UNCHANGED <<browsers, told>>
        <2>1. ASSUME SioShape', UNCHANGED <<browsers, told>> PROVE ProxiedTypeOK(SioLink)'
            <3>1. ProxiedTypeOK(SioLink) /\ UNCHANGED <<online, room, view, seen, drops, leaves>>
                BY <1>0, <2>1 DEF SioTypeOK, browsers
            <3>2. topicsShown' \in [Clients -> SUBSET Topics]
                      /\ guessed' \in [Clients -> SUBSET Topics]
                BY <2>1, <3>1 DEF ProxiedTypeOK, browsers, topicView
            <3> QED
                BY <2>1, <3>1, <3>2, ProxiedKept DEF SioShape
        <2> QED
            BY <1>0, <2>1 DEF Typed, TypeOK, SioTypeOK, SioShape
    <1> USE <1>f DEF browsers, told
    <1>b. \A n \in 0..MaxAttempts : Backoff(n) =>
             link' \in SioLink /\ attempts' \in 0..MaxAttempts
        BY SocketIoAssumption DEF Backoff, SioLink
    <1> USE DEF SioShape
    <1>1. CASE SioConnect
        <2>1. sess' \in Recorded /\ inbox' \in [Clients -> Seq(Told)]
            BY <1>1, <1>s, ToldSteps DEF SioConnect, Status, StatusEvents
        <2> QED
            BY <1>1, <2>1, SocketIoAssumption DEF SioConnect, SioLink
    <1>2. CASE SioConnectError
        <2>1. sess' \in Recorded /\ inbox' \in [Clients -> Seq(Told)]
            <3>1. CASE UNCHANGED <<sess, inbox>>
                BY <3>1
            <3>2. CASE sess' = RecordError(UpdateStatus(sess, "error")) /\ Emit(Ev("error", 0))
                <4>1. UpdateStatus(sess, "error") \in Recorded
                    BY <1>s DEF Status
                <4>2. RecordError(UpdateStatus(sess, "error")) \in Recorded
                    BY <4>1, RecordedSessions
                <4> QED
                    BY <3>2, <4>2, ToldSteps DEF StatusEvents
            <3> QED
                BY <1>2, <3>1, <3>2 DEF SioConnectError
        <2>2. link' \in SioLink /\ attempts' \in 0..MaxAttempts
            BY <1>2, <1>b DEF SioConnectError, SioLink
        <2> QED
            BY <1>2, <2>1, <2>2 DEF SioConnectError
    <1>3. CASE SioReconnectAttempt
        <2>1. sess' \in Recorded /\ inbox' \in [Clients -> Seq(Told)]
            BY <1>3, <1>s, ToldSteps DEF SioReconnectAttempt, Status, StatusEvents
        <2> QED
            BY <1>3, <2>1 DEF SioReconnectAttempt, SioLink
    <1>4. CASE SioDisconnect
        <2>1. sess' \in Recorded /\ inbox' \in [Clients -> Seq(Told)]
            BY <1>4, <1>s, ToldSteps DEF SioDisconnect, Status, StatusEvents
        <2>2. link' \in SioLink /\ attempts' \in 0..MaxAttempts
            BY <1>4, <1>b, SocketIoAssumption DEF SioDisconnect, SioLink
        <2>3. losses' \in 0..MaxLosses
            BY <1>4, SocketIoAssumption DEF SioDisconnect
        <2> QED
            BY <1>4, <2>1, <2>2, <2>3, ProxiedAssumption DEF SioDisconnect
    <1>5. CASE \E e \in Events, bare \in BOOLEAN : SioEvent(e, bare)
        <2>1. PICK e \in Events, bare \in BOOLEAN : SioEvent(e, bare)
            BY <1>5
        <2> DEFINE n == arrived + 1
                   s == RecordReceived(sess, FALSE)
                   b == BufferMessage(s, Ev("message", n))
        <2>2. n \in 1..MaxMsgs /\ arrived' = n
            BY <2>1, ProxiedAssumption DEF SioEvent
        <2>3. s \in Recorded
            BY RecordedSessions
        <2>4. Ev("message", n) \in Kept
            BY <2>2, ToldEvents
        <2>5. b \in Recorded
            BY <2>3, <2>4, RecordedSessions
        <2>6. RecordReceived(b, FALSE) \in Recorded
            BY <2>5, RecordedSessions
        <2>7. sess' \in {b, RecordReceived(b, FALSE)}
            BY <2>1 DEF SioEvent
        <2>8. sess' \in Recorded
            BY <2>5, <2>6, <2>7
        <2>9. inbox' \in [Clients -> Seq(Told)]
            <3>1. EmitAll(<<Ev("message", n)>>) \/ EmitAll(<<Ev("message", n), Ev("message", n)>>)
                BY <2>1 DEF SioEvent
            <3> QED
                BY <2>2, <3>1, ToldSteps DEF Emit
        <2>10. evicted' \in SUBSET (1..MaxMsgs)
            <3>1. CASE evicted' = evicted
                BY <3>1
            <3>2. CASE evicted' = evicted \cup {Head(sess.buffered).id}
                       /\ ~(Len(sess.buffered) < MaxBuffered)
                <4>1. sess.buffered \in Seq(Kept) /\ sess.buffered # <<>>
                    BY <3>2, SessionAssumption, EmptySeq DEF Recorded
                <4>2. Head(sess.buffered) \in Kept
                    BY <4>1, HeadTailProperties
                <4> QED
                    BY <3>2, <4>2 DEF Kept
            <3> QED
                BY <2>1, <3>1, <3>2 DEF SioEvent
        <2>11. doubled' \in SUBSET (1..MaxMsgs)
            BY <2>1, <2>2 DEF SioEvent, Ev
        <2> HIDE DEF n, s, b
        <2> QED
            <3>1. UNCHANGED <<link, tracked, calls, deleted, auto, failed, attempts, subs, acks,
                              losses>>
                BY <2>1 DEF SioEvent
            <3>2. arrived' \in 0..MaxMsgs
                BY <2>2
            <3>3. exited' \in BOOLEAN
                BY <2>1 DEF SioEvent
            <3>4. SioShape'
                BY <2>8, <2>9, <2>10, <2>11, <3>1, <3>2, <3>3
            <3> QED
                BY <2>1, <3>4 DEF SioEvent
    <1>6. CASE \E e \in Events : SioSubscribe(e)
        <2>1. PICK e \in Events : SioSubscribe(e)
            BY <1>6
        <2>2. calls' \in 1..MaxCalls /\ calls' = calls + 1
            BY <2>1, CallSpent DEF SioSubscribe
        <2> QED
            BY <2>1, <2>2 DEF SioSubscribe, gatewayVars
    <1>7. CASE SioAck
        <2>1. inbox' \in [Clients -> Seq(Told)]
            BY <1>7, ToldSteps DEF SioAck
        <2> QED
            BY <1>7, <2>1, ProxiedAssumption DEF SioAck
    <1>8. CASE SioCleanUp
        <2>1. /\ UNCHANGED <<sess, inbox>> /\ link' = "off" /\ tracked' = FALSE
              /\ subs' = {} /\ failed' = FALSE /\ acks' = 0
              /\ UNCHANGED <<deleted, arrived, calls, evicted, auto, attempts, losses, doubled,
                              exited>>
            BY <1>8 DEF SioCleanUp, gatewayVars
        <2>2. UNCHANGED <<browsers, told>>
            BY <1>8 DEF SioCleanUp, gatewayVars
        <2>3. acks' \in 0..MaxCalls /\ acks' <= calls'
            BY <2>1, ProxiedAssumption
        <2>4. SioShape'
            BY <2>1, <2>3 DEF SioLink
        <2> QED
            BY <2>2, <2>4
    <1>9. CASE SioSend
        <2>1. calls' \in 1..MaxCalls /\ calls' = calls + 1
            BY <1>9, CallSpent DEF SioSend
        <2>2. sess' \in Recorded /\ inbox' \in [Clients -> Seq(Told)]
            BY <1>9, RecordedSessions, ToldSteps DEF SioSend
        <2> QED
            BY <1>9, <2>1, <2>2, ProxiedAssumption DEF SioSend
    <1>10. CASE SioDelete
        <2>1. calls' \in 1..MaxCalls /\ calls' = calls + 1
            BY <1>10, CallSpent DEF SioDelete, SioSessionClose
        <2>2. sess' \in Recorded
            BY <1>10, <1>s DEF SioDelete, SioSessionClose, Status
        <2>3. inbox' \in [Clients -> Seq(Told)]
            BY <1>10, ToldSteps DEF SioDelete, SioSessionClose, Emit, StatusEvents
        <2> QED
            <3>1. /\ link' = "off" /\ tracked' = FALSE /\ subs' = {} /\ acks' = 0
                  /\ deleted' = TRUE
                  /\ UNCHANGED <<arrived, evicted, auto, failed, attempts, losses, doubled,
                                  exited>>
                BY <1>10 DEF SioDelete, SioSessionClose
            <3>2. acks' \in 0..MaxCalls /\ acks' <= calls' /\ calls' \in 0..MaxCalls
                BY <2>1, <3>1, ProxiedAssumption
            <3>3. SioShape'
                BY <2>2, <2>3, <3>1, <3>2 DEF SioLink
            <3> QED
                BY <1>10, <3>3 DEF SioDelete, SioSessionClose
    <1> QED
        BY <1>0, <1>1, <1>2, <1>3, <1>4, <1>5, <1>6, <1>7, <1>8, <1>9, <1>10 DEF SioNext

\* What a job of an MQTT connection may change, well typed.
MqttShape ==
    /\ sess \in Recorded /\ inbox \in [Clients -> Seq(Told)]
    /\ link \in MqttLink /\ tracked \in BOOLEAN /\ deleted \in BOOLEAN
    /\ arrived \in 0..MaxMsgs /\ calls \in 0..MaxCalls
    /\ evicted \in SUBSET (1..MaxMsgs)
    /\ topicsShown \in [Clients -> SUBSET Topics]
    /\ guessed \in [Clients -> SUBSET Topics]
    /\ requests \in Seq(Request) /\ answers \in Seq(Answer)
    /\ asked \subseteq [client : Clients, request : Request, number : 1..MaxCalls]
    /\ granted \in SUBSET Topics

\* The subscriptions made on 'connect' are requests (mqtt.service.ts:74-80).
LEMMA InitialRequests ==
    ASSUME requests \in Seq(Request)
    PROVE  requests \o [i \in DOMAIN InitialTopics |-> Subscribe(InitialTopics[i])]
               \in Seq(Request)
    <1>1. /\ DOMAIN InitialTopics = 1..Len(InitialTopics) /\ Len(InitialTopics) \in Nat
          /\ \A i \in DOMAIN InitialTopics : InitialTopics[i] \in Topics
        BY MqttAssumption, LenProperties, ElementOfSeq
    <1>2. [i \in DOMAIN InitialTopics |-> Subscribe(InitialTopics[i])] \in Seq(Request)
        BY <1>1 DEF Subscribe, Request
    <1> QED
        BY <1>2, ConcatProperties

\* The jobs of an MQTT connection are well typed.
LEMMA MqttTyped == Course /\ Typed /\ Mqtt => Typed'
    <1> SUFFICES ASSUME Course, Typed, Mqtt PROVE Typed'
        OBVIOUS
    <1>0. /\ protocol = "mqtt" /\ protocol' = "mqtt" /\ MqttNext
          /\ MqttTypeOK /\ sess \in Recorded /\ inbox \in [Clients -> Seq(Told)]
        BY DEF Mqtt, Typed, TypeOK
    <1>s. \A status \in Status : UpdateStatus(sess, status) \in Recorded
        BY <1>0, RecordedSessions
    <1>f. MqttShape
        BY <1>0 DEF MqttTypeOK, ProxiedTypeOK, MqttShape
    <1> SUFFICES MqttShape' /\ UNCHANGED <<online, room, view, seen, drops, leaves, told>>
        <2>1. ASSUME MqttShape', UNCHANGED <<online, room, view, seen, drops, leaves, told>>
              PROVE  ProxiedTypeOK(MqttLink)'
            BY <1>0, <2>1, ProxiedKept DEF MqttShape, MqttTypeOK
        <2> QED
            BY <1>0, <2>1 DEF Typed, TypeOK, MqttTypeOK, MqttShape
    <1> USE <1>f DEF browsers, told, topicView, mqttVars, MqttShape
    <1>1. CASE MqttConnect
        <2>1. sess' \in Recorded /\ inbox' \in [Clients -> Seq(Told)]
            BY <1>1, <1>s, ToldSteps DEF MqttConnect, Status, StatusEvents
        <2>2. requests' \in Seq(Request)
            BY <1>1, InitialRequests DEF MqttConnect
        <2> QED
            BY <1>1, <2>1, <2>2 DEF MqttConnect, MqttLink
    <1>2. CASE MqttMessage
        <2>1. arrived' \in 1..MaxMsgs /\ arrived' = arrived + 1
            BY <1>2, ProxiedAssumption DEF MqttMessage
        <2>2. sess' \in Recorded /\ inbox' \in [Clients -> Seq(Told)]
            BY <1>2, <2>1, RecordedSessions, ToldSteps DEF MqttMessage
        <2>3. arrived' \in 0..MaxMsgs
            BY <2>1
        <2> QED
            BY <1>2, <2>2, <2>3 DEF MqttMessage
    <1>3. CASE MqttError
        <2>1. UpdateStatus(sess, "error") \in Recorded
            BY <1>s DEF Status
        <2>2. sess' \in Recorded
            BY <1>3, <2>1, RecordedSessions DEF MqttError
        <2>3. inbox' \in [Clients -> Seq(Told)]
            BY <1>3, ToldSteps DEF MqttError, StatusEvents
        <2> QED
            BY <1>3, <2>2, <2>3 DEF MqttError, MqttLink
    <1>4. CASE MqttClose
        <2>1. sess' \in Recorded /\ inbox' \in [Clients -> Seq(Told)]
            BY <1>4, <1>s, ToldSteps DEF MqttClose, Status, StatusEvents
        <2>2. <<>> \in Seq(Request) /\ <<>> \in Seq(Answer)
            BY EmptySeq
        <2> QED
            BY <1>4, <2>1, <2>2 DEF MqttClose, MqttLink
    <1>5. CASE BrokerServes
        <2>1. PICK ok \in BOOLEAN :
                 /\ answers' = Append(answers, [op |-> Head(requests).op,
                                                topic |-> Head(requests).topic, ok |-> ok])
                 /\ granted' \in {granted, granted \ {Head(requests).topic},
                                  granted \cup {Head(requests).topic}}
            BY <1>5 DEF BrokerServes
        <2>2. Head(requests) \in Request /\ Tail(requests) \in Seq(Request)
            BY <1>5, HeadTailProperties DEF BrokerServes
        <2>3. [op |-> Head(requests).op, topic |-> Head(requests).topic, ok |-> ok] \in Answer
            BY <2>2 DEF Request, Answer
        <2>4. answers' \in Seq(Answer)
            BY <2>1, <2>3, AppendProperties
        <2>5. granted' \in SUBSET Topics /\ requests' \in Seq(Request)
            BY <1>5, <2>1, <2>2 DEF BrokerServes, Request
        <2> QED
            BY <1>5, <2>4, <2>5 DEF BrokerServes, gatewayVars
    <1>6. CASE MqttAnswer
        <2>1. Head(answers) \in Answer /\ Tail(answers) \in Seq(Answer)
            BY <1>6, HeadTailProperties DEF MqttAnswer
        <2>2. Head(answers).topic \in Topics
            BY <2>1 DEF Answer
        <2>3. sess' \in Recorded /\ inbox' \in [Clients -> Seq(Told)]
            BY <1>6, <2>2, RecordedSessions, ToldSteps DEF MqttAnswer
        <2> QED
            BY <1>6, <2>1, <2>3 DEF MqttAnswer
    <1>7. ASSUME NEW r \in Request, TakeRequest(r)
          PROVE  /\ calls' \in 0..MaxCalls /\ requests' \in Seq(Request)
                 /\ UNCHANGED <<gatewayVars, topicView, link, tracked, arrived, deleted,
                                told, evicted, answers, granted>>
        <2>1. calls' \in 0..MaxCalls
            BY <1>7, CallSpent DEF TakeRequest
        <2>2. requests' \in Seq(Request)
            BY <1>7, AppendProperties DEF TakeRequest
        <2> QED
            BY <1>7, <2>1, <2>2 DEF TakeRequest
    <1>8. CASE \E r \in Request : MqttRequest(r)
        <2>1. PICK r \in Request : TakeRequest(r) /\ UNCHANGED asked
            BY <1>8 DEF MqttRequest
        <2> QED
            BY <1>7, <2>1 DEF gatewayVars
    <1>9. CASE \E r \in Request, k \in Clients : PanelRequest(k, r)
        <2>1. PICK r \in Request, k \in Clients : PanelRequest(k, r)
            BY <1>9
        <2>2. TakeRequest(r)
                  /\ asked' = asked \cup {[client |-> k, request |-> r, number |-> calls']}
            BY <2>1 DEF PanelRequest
        <2>3. calls' \in 1..MaxCalls
            BY <2>2, CallSpent DEF TakeRequest
        <2>4. asked' \subseteq [client : Clients, request : Request, number : 1..MaxCalls]
            BY <2>2, <2>3
        <2> QED
            BY <1>7, <2>2, <2>4 DEF gatewayVars
    <1>10. CASE \E call \in asked : PanelAnswered(call)
        <2>1. PICK call \in asked : PanelAnswered(call)
            BY <1>10
        <2>2. call.client \in Clients /\ call.request.topic \in Topics
            BY <2>1 DEF Request
        <2>3. /\ topicsShown' \in [Clients -> SUBSET Topics]
              /\ guessed' \in [Clients -> SUBSET Topics]
            <3> DEFINE k == call.client  topic == call.request.topic
            <3>1. /\ \/ topicsShown' = topicsShown
                     \/ topicsShown' = [topicsShown EXCEPT ![k] = @ \cup {topic}]
                     \/ topicsShown' = [topicsShown EXCEPT ![k] = @ \ {topic}]
                  /\ \/ guessed' = guessed
                     \/ guessed' = [guessed EXCEPT ![k] = @ \cup {topic}]
                BY <2>1 DEF PanelAnswered
            <3>2. k \in Clients /\ topic \in Topics
                BY <2>2
            <3> DEFINE Shown == [Clients -> SUBSET Topics]
            <3> HIDE DEF k, topic
            <3>3. \A f \in Shown : /\ [f EXCEPT ![k] = @ \cup {topic}] \in Shown
                                   /\ [f EXCEPT ![k] = @ \ {topic}] \in Shown
                <4>1. SUFFICES ASSUME NEW f \in Shown
                      PROVE /\ [f EXCEPT ![k] = @ \cup {topic}] \in Shown
                            /\ [f EXCEPT ![k] = @ \ {topic}] \in Shown
                    OBVIOUS
                <4>2. f[k] \cup {topic} \in SUBSET Topics /\ f[k] \ {topic} \in SUBSET Topics
                    BY <3>2
                <4> QED
                    BY <3>2, <4>2
            <3>4. topicsShown \in Shown /\ guessed \in Shown
                OBVIOUS
            <3> HIDE DEF Shown
            <3>5. topicsShown' \in Shown
                BY <3>1, <3>3, <3>4
            <3>6. guessed' \in Shown
                BY <3>1, <3>3, <3>4
            <3> QED
                BY <3>5, <3>6 DEF Shown
        <2>4. /\ asked' \subseteq asked
              /\ UNCHANGED <<sess, inbox, online, room, view, seen, drops, leaves, told>>
              /\ UNCHANGED <<link, tracked, arrived, calls, deleted, evicted, requests,
                             answers, granted>>
            BY <2>1 DEF PanelAnswered, gatewayVars
        <2>5. asked' \subseteq [client : Clients, request : Request, number : 1..MaxCalls]
            BY <2>4
        <2> QED
            BY <2>3, <2>4, <2>5
    <1>11. CASE MqttPublish
        <2>1. calls' \in 0..MaxCalls
            BY <1>11, CallSpent DEF MqttPublish
        <2>2. sess' \in Recorded /\ inbox' \in [Clients -> Seq(Told)]
            BY <1>11, RecordedSessions, ToldSteps DEF MqttPublish
        <2> QED
            BY <1>11, <2>1, <2>2 DEF MqttPublish
    <1>12. CASE MqttDelete
        <2>1. calls' \in 0..MaxCalls
            BY <1>12, CallSpent DEF MqttDelete, MqttSessionClose
        <2>2. sess' \in Recorded
            BY <1>12, <1>s DEF MqttDelete, MqttSessionClose, Status
        <2>3. <<>> \in Seq(Request) /\ <<>> \in Seq(Answer)
            BY EmptySeq
        <2> QED
            BY <1>12, <2>1, <2>2, <2>3 DEF MqttDelete, MqttSessionClose, MqttLink
    <1> QED
        BY <1>0, <1>1, <1>2, <1>3, <1>4, <1>5, <1>6, <1>8, <1>9, <1>10, <1>11, <1>12
        DEF MqttNext

\* What a job of an AMQP connection may change, well typed.
AmqpShape ==
    /\ sess \in Recorded /\ inbox \in [Clients -> Seq(Told)]
    /\ link \in AmqpLink /\ tracked \in BOOLEAN /\ deleted \in BOOLEAN
    /\ arrived \in 0..MaxMsgs /\ calls \in 0..MaxCalls
    /\ evicted \in SUBSET (1..MaxMsgs)
    /\ consumer \in {"none", "asked", "on"} /\ noAck \in BOOLEAN
    /\ setup \in 0..MaxSetup
    /\ tags \in SUBSET (1..MaxMsgs) /\ unacked \in SUBSET (1..MaxMsgs)
    /\ closers \in 0..MaxCalls /\ closers <= calls /\ missed \in BOOLEAN

\* The jobs of an AMQP connection are well typed.
LEMMA AmqpTyped == Course /\ Typed /\ Amqp => Typed'
    <1> SUFFICES ASSUME Course, Typed, Amqp PROVE Typed'
        OBVIOUS
    <1>0. /\ protocol = "amqp" /\ protocol' = "amqp" /\ AmqpNext
          /\ AmqpTypeOK /\ sess \in Recorded /\ inbox \in [Clients -> Seq(Told)]
          /\ closers <= calls
        BY DEF Amqp, Typed, TypeOK
    <1>s. \A status \in Status : UpdateStatus(sess, status) \in Recorded
        BY <1>0, RecordedSessions
    <1>f. AmqpShape
        BY <1>0 DEF AmqpTypeOK, ProxiedTypeOK, AmqpShape
    <1> SUFFICES AmqpShape' /\ UNCHANGED <<browsers, told>>
        <2>1. ASSUME AmqpShape', UNCHANGED <<browsers, told>> PROVE ProxiedTypeOK(AmqpLink)'
            <3>1. ProxiedTypeOK(AmqpLink) /\ UNCHANGED <<online, room, view, seen, drops, leaves>>
                BY <1>0, <2>1 DEF AmqpTypeOK, browsers
            <3>2. topicsShown' \in [Clients -> SUBSET Topics]
                      /\ guessed' \in [Clients -> SUBSET Topics]
                BY <2>1, <3>1 DEF ProxiedTypeOK, browsers, topicView
            <3> QED
                BY <2>1, <3>1, <3>2, ProxiedKept DEF AmqpShape
        <2> QED
            BY <1>0, <2>1 DEF Typed, TypeOK, AmqpTypeOK, AmqpShape
    <1> USE <1>f DEF browsers, told, AmqpShape
    <1>g. GoneDown => /\ link' \in AmqpLink /\ consumer' \in {"none", "asked", "on"}
                      /\ setup' \in 0..MaxSetup /\ unacked' \in SUBSET (1..MaxMsgs)
                      /\ closers' = 0 /\ closers' \in 0..MaxCalls
                      /\ tracked' \in BOOLEAN
        BY ProxiedAssumption, AmqpAssumption DEF GoneDown, AmqpLink, Clientless, Making
    <1>0a. CASE AmqpConnected
        BY <1>0a DEF AmqpConnected, AmqpLink, Clientless, Making, gatewayVars, amqpVars
    <1>1. CASE AmqpOpen
        <2>1. sess' \in Recorded /\ inbox' \in [Clients -> Seq(Told)]
            BY <1>1, <1>s, ToldSteps DEF AmqpOpen, Status, StatusEvents
        <2> QED
            BY <1>1, <2>1 DEF AmqpOpen, AmqpLink, Clientless, Making, amqpVars
    <1>2. CASE AmqpRefused
        <2>1. sess' \in Recorded
            BY <1>2, <1>s DEF AmqpRefused, Status
        <2> QED
            BY <1>2, <2>1 DEF AmqpRefused, AmqpLink, Clientless, Making, amqpVars
    <1>3. CASE AmqpDeliver
        <2>1. arrived' \in 1..MaxMsgs /\ arrived' = arrived + 1
            BY <1>3, ProxiedAssumption DEF AmqpDeliver
        <2>2. sess' \in Recorded /\ inbox' \in [Clients -> Seq(Told)]
            BY <1>3, <2>1, RecordedSessions, ToldSteps DEF AmqpDeliver
        <2>3. arrived' \in 0..MaxMsgs
            BY <2>1
        <2>4. tags' \in SUBSET (1..MaxMsgs) /\ unacked' \in SUBSET (1..MaxMsgs)
            BY <1>3, <2>1 DEF AmqpDeliver
        <2> QED
            BY <1>3, <2>2, <2>3, <2>4 DEF AmqpDeliver
    <1>4. CASE AmqpError
        <2>1. UpdateStatus(sess, "error") \in Recorded
            BY <1>s DEF Status
        <2>2. RecordError(UpdateStatus(sess, "error")) \in Recorded
            BY <2>1, RecordedSessions
        <2>3. sess' \in Recorded
            BY <1>4, <2>2, RecordedSessions DEF AmqpError, Status
        <2>4. inbox' \in [Clients -> Seq(Told)]
            BY <1>4, ToldSteps DEF AmqpError
        <2>5. UNCHANGED <<browsers, arrived, calls, deleted, told, evicted, noAck, tags>>
            BY <1>4 DEF AmqpError
        <2>6. closers' <= calls'
            BY <1>4, <1>g, <2>5, ProxiedAssumption DEF AmqpError
        <2> QED
            BY <1>4, <1>g, <2>3, <2>4, <2>5, <2>6 DEF AmqpError
    <1>5. CASE AmqpClose
        <2>1. sess' \in Recorded /\ inbox' \in [Clients -> Seq(Told)]
            BY <1>5, <1>s, ToldSteps DEF AmqpClose, Status, StatusEvents
        <2>2. UNCHANGED <<browsers, arrived, calls, deleted, told, evicted, noAck, tags>>
            BY <1>5 DEF AmqpClose
        <2>3. closers' <= calls'
            BY <1>5, <1>g, <2>2, ProxiedAssumption DEF AmqpClose
        <2> QED
            BY <1>5, <1>g, <2>1, <2>2, <2>3 DEF AmqpClose
    <1>6. CASE AmqpCancelled
        BY <1>6 DEF AmqpCancelled, AmqpLink, Clientless, Making, gatewayVars
    <1>7. CASE AmqpSecondClose
        <2>1. closers' \in 0..MaxCalls /\ closers' <= calls
            BY <1>7, ProxiedAssumption DEF AmqpSecondClose
        <2> QED
            BY <1>7, <2>1 DEF AmqpSecondClose, gatewayVars
    <1>8. CASE AmqpConsuming
        BY <1>8 DEF AmqpConsuming, gatewayVars
    <1>9. CASE AmqpSetupStep
        <2>1. setup' \in 0..MaxSetup
            BY <1>9, AmqpAssumption DEF AmqpSetupStep
        <2>2. inbox' \in [Clients -> Seq(Told)]
            BY <1>9, ToldSteps DEF AmqpSetupStep, Emit
        <2> QED
            BY <1>9, <2>1, <2>2 DEF AmqpSetupStep
    <1>c. SpendCall => calls' \in 0..MaxCalls /\ closers <= calls' /\ closers + 1 <= calls'
                          /\ closers + 1 \in 0..MaxCalls
        BY CallSpent, ProxiedAssumption
    <1>10. CASE AmqpSetup
        <2>1. setup' \in 0..MaxSetup
            BY <1>10 DEF AmqpSetup
        <2> QED
            BY <1>10, <1>c, <2>1 DEF AmqpSetup, gatewayVars
    <1>11. CASE AmqpConsume
        BY <1>11, <1>c DEF AmqpConsume, gatewayVars
    <1>12. CASE \E tag \in tags, multiple \in BOOLEAN : AmqpAck(tag, multiple)
        <2>1. PICK tag \in tags, multiple \in BOOLEAN : AmqpAck(tag, multiple)
            BY <1>12
        <2>2. tags' \subseteq tags /\ unacked' \subseteq unacked
            BY <2>1 DEF AmqpAck
        <2>3. tags' \in SUBSET (1..MaxMsgs) /\ unacked' \in SUBSET (1..MaxMsgs)
            BY <2>2
        <2> QED
            BY <2>1, <1>c, <2>3 DEF AmqpAck, gatewayVars
    <1>13. CASE AmqpPublish
        <2>1. sess' \in Recorded /\ inbox' \in [Clients -> Seq(Told)]
            BY <1>13, RecordedSessions, ToldSteps DEF AmqpPublish
        <2> QED
            BY <1>13, <1>c, <2>1 DEF AmqpPublish, amqpVars
    <1>14. CASE AmqpDelete
        <2>1. sess' \in Recorded
            BY <1>14, <1>s DEF AmqpDelete, AmqpSessionClose, Status
        <2>2. link' \in AmqpLink
            BY <1>14 DEF AmqpDelete, AmqpSessionClose, AmqpLink, Clientless, Making
        <2>3. closers' \in {closers, closers + 1} /\ tracked' \in BOOLEAN
            BY <1>14 DEF AmqpDelete, AmqpSessionClose
        <2>4. closers' \in 0..MaxCalls /\ closers' <= calls' /\ calls' \in 0..MaxCalls
            BY <1>14, <1>c, <2>3 DEF AmqpDelete, AmqpSessionClose
        <2> QED
            BY <1>14, <2>1, <2>2, <2>3, <2>4 DEF AmqpDelete, AmqpSessionClose
    <1> QED
        BY <1>0, <1>0a, <1>1, <1>2, <1>3, <1>4, <1>5, <1>6, <1>7, <1>8, <1>9, <1>10, <1>11,
           <1>12, <1>13, <1>14
        DEF AmqpNext

\* What a browser does is well typed.
LEMMA BrowsersTyped ==
    ASSUME NEW states, Typed, ProxiedTypeOK(states), NEW k \in Clients,
           ProxiedJoin(k) \/ ProxiedReceive(k) \/ ProxiedDrop(k) \/ ProxiedReconnect(k)
    PROVE  ProxiedTypeOK(states)' /\ sess' \in Recorded /\ inbox' \in [Clients -> Seq(Told)]
    <1>2. sess \in Recorded /\ inbox \in [Clients -> Seq(Told)]
        BY DEF Typed
    <1>t. /\ topicsShown \in [Clients -> SUBSET Topics] /\ guessed \in [Clients -> SUBSET Topics]
          /\ GatewayTypeOK
        BY DEF ProxiedTypeOK
    <1>4. CASE ProxiedJoin(k)
        <2>1. sess' \in Recorded
            BY <1>2, <1>4, RecordedSessions DEF ProxiedJoin, Join
        <2>2. inbox' \in [Clients -> Seq(Told)]
            <3>1. inbox[k] \o Replay(sess) \in Seq(Told)
                BY <1>2, ToldReplay, ConcatProperties
            <3> QED
                BY <1>2, <1>4, <3>1 DEF ProxiedJoin, Join
        <2>3. inbox' \in [Clients -> Seq(Event)] /\ sess' \in SessionType
            BY <2>1, <2>2, ToldAreEvents DEF Recorded
        <2>4. GatewayTypeOK'
            BY <1>t, <1>4, <2>3 DEF ProxiedJoin, Join, GatewayTypeOK
        <2> QED
            BY <1>4, <2>1, <2>2, <2>4 DEF ProxiedJoin, ProxiedTypeOK, topicView
    <1>5. CASE ProxiedReceive(k)
        <2> DEFINE ev == Head(inbox[k])
        <2>1. ev \in Told /\ Tail(inbox[k]) \in Seq(Told)
            BY <1>2, <1>5, HeadTailProperties DEF ProxiedReceive, Receive
        <2>2. inbox' \in [Clients -> Seq(Told)] /\ sess' = sess
            BY <1>2, <1>5, <2>1 DEF ProxiedReceive, Receive, serverSide
        <2>3. inbox' \in [Clients -> Seq(Event)] /\ sess' \in SessionType
            BY <1>2, <2>2, ToldAreEvents DEF Recorded
        <2>4. ViewAfter(view[k], ev.type) \in Status
            BY <1>t DEF ViewAfter, Status, GatewayTypeOK
        <2>5. view' \in [Clients -> Status]
            BY <1>5, <1>t, <2>4 DEF ProxiedReceive, Receive, GatewayTypeOK
        <2>6. seen' \in [Clients -> Seq(Nat)]
            <3>1. Append(seen[k], ev.id) \in Seq(Nat)
                BY <1>t, <2>1, AppendProperties DEF GatewayTypeOK, Told, Event
            <3> QED
                BY <1>5, <1>t, <3>1 DEF ProxiedReceive, Receive, GatewayTypeOK
        <2>7. GatewayTypeOK'
            BY <1>t, <1>5, <2>3, <2>5, <2>6 DEF ProxiedReceive, Receive, GatewayTypeOK, serverSide
        <2>8. TopicsAfter(topicsShown[k], ev) \in SUBSET Topics
            BY <1>t, <2>1 DEF TopicsAfter, Told
        <2>9. topicsShown' \in [Clients -> SUBSET Topics]
            BY <1>t, <1>5, <2>8 DEF ProxiedReceive
        <2>10. guessed[k] \ TopicsOf(ev) \in SUBSET Topics
            BY <1>t
        <2>11. guessed' \in [Clients -> SUBSET Topics]
            BY <1>t, <1>5, <2>10 DEF ProxiedReceive
        <2> QED
            BY <1>2, <1>5, <2>2, <2>7, <2>9, <2>11 DEF ProxiedReceive, ProxiedTypeOK
    <1>6. CASE ProxiedDrop(k)
        <2>1. inbox' \in [Clients -> Seq(Told)] /\ sess' = sess
            BY <1>2, <1>6, EmptySeq DEF ProxiedDrop, ControlDrop
        <2>2. inbox' \in [Clients -> Seq(Event)] /\ sess' \in SessionType
            BY <1>2, <2>1, ToldAreEvents DEF Recorded
        <2>3. drops' \in 0..MaxDrops
            BY <1>6, <1>t, GatewayAssumption DEF ProxiedDrop, ControlDrop, GatewayTypeOK
        <2>4. GatewayTypeOK'
            BY <1>t, <1>6, <2>2, <2>3 DEF ProxiedDrop, ControlDrop, GatewayTypeOK
        <2> QED
            BY <1>2, <1>6, <2>1, <2>4 DEF ProxiedDrop, ProxiedTypeOK, topicView
    <1>7. CASE ProxiedReconnect(k)
        <2>1. inbox' = inbox /\ sess' = sess
            BY <1>7 DEF ProxiedReconnect, ControlReconnect
        <2>2. GatewayTypeOK'
            BY <1>t, <1>7 DEF ProxiedReconnect, ControlReconnect, GatewayTypeOK
        <2> QED
            BY <1>2, <1>7, <2>1, <2>2 DEF ProxiedReconnect, ProxiedTypeOK, topicView
    <1> QED
        BY <1>4, <1>5, <1>6, <1>7

\* So every type stays.
LEMMA BrowsersTypedAll ==
    ASSUME Course, Typed, NEW k \in Clients, UNCHANGED <<sioVars, mqttVars, amqpVars>>,
           ProxiedJoin(k) \/ ProxiedReceive(k) \/ ProxiedDrop(k) \/ ProxiedReconnect(k)
    PROVE  Typed'
    <1>1. UNCHANGED <<protocol, link, tracked, arrived, calls, deleted, evicted>>
        BY DEF ProxiedJoin, ProxiedReceive, ProxiedDrop, ProxiedReconnect
    <1>2. CASE protocol = "socketio"
        <2>1. SioTypeOK /\ ProxiedTypeOK(SioLink)
            BY <1>2 DEF Typed, TypeOK, SioTypeOK
        <2>2. ProxiedTypeOK(SioLink)' /\ sess' \in Recorded /\ inbox' \in [Clients -> Seq(Told)]
            BY <2>1, BrowsersTyped
        <2> QED
            BY <1>1, <1>2, <2>1, <2>2 DEF Typed, TypeOK, SioTypeOK, sioVars
    <1>3. CASE protocol = "mqtt"
        <2>1. MqttTypeOK /\ ProxiedTypeOK(MqttLink)
            BY <1>3 DEF Typed, TypeOK, MqttTypeOK
        <2>2. ProxiedTypeOK(MqttLink)' /\ sess' \in Recorded /\ inbox' \in [Clients -> Seq(Told)]
            BY <2>1, BrowsersTyped
        <2> QED
            BY <1>1, <1>3, <2>1, <2>2 DEF Typed, TypeOK, MqttTypeOK, mqttVars
    <1>4. CASE protocol = "amqp"
        <2>1. AmqpTypeOK /\ ProxiedTypeOK(AmqpLink)
            BY <1>4 DEF Typed, TypeOK, AmqpTypeOK
        <2>2. ProxiedTypeOK(AmqpLink)' /\ sess' \in Recorded /\ inbox' \in [Clients -> Seq(Told)]
            BY <2>1, BrowsersTyped
        <2> QED
            BY <1>1, <1>4, <2>1, <2>2 DEF Typed, TypeOK, AmqpTypeOK, amqpVars
    <1> QED
        BY <1>2, <1>3, <1>4 DEF Course

\* The strengthened type invariant is inductive, ...
LEMMA TypedStep == Course /\ Typed /\ [Next]_vars => Typed'
    <1> SUFFICES ASSUME Course, Typed, [Next]_vars PROVE Typed'
        OBVIOUS
    <1>1. CASE Socket \/ Mqtt \/ Amqp
        BY <1>1, SioTyped, MqttTyped, AmqpTyped
    <1>2. CASE \E k \in Clients : BrowserJoins(k) \/ BrowserReceives(k) \/ BrowserMoves(k)
        BY <1>2, BrowsersTypedAll DEF BrowserJoins, BrowserReceives, BrowserMoves
    <1>3. CASE UNCHANGED vars
        BY <1>3
        DEF vars, proxyVars, gatewayVars, sioVars, mqttVars, amqpVars, topicView, Typed, TypeOK,
            SioTypeOK, MqttTypeOK, AmqpTypeOK, ProxiedTypeOK, GatewayTypeOK
    <1> QED
        BY <1>1, <1>2, <1>3 DEF Next

\* ... so it always holds.
LEMMA TypedCorrect == Spec => []Typed
    <1> QED
        BY CourseCorrect, TypedInit, TypedStep, PTL DEF Spec

\* In every run of a proxied connection of any protocol, with any number of
\* browsers and any bounds, every variable keeps its type: no event names a
\* message or a topic there is not, and neither the acknowledgements awaited
\* (socketio.service.ts:232) nor the closings under way (amqp.service.ts:76)
\* outnumber the calls.
THEOREM ProxiesTypeCorrect == Spec => []TypeOK
    <1>1. Typed => TypeOK
        BY DEF Typed
    <1> QED
        BY <1>1, TypedCorrect, PTL


------------------------------------------------------------------------------
(* What the room hears.                                                     *)

\* The reasons a member of the room may believe in a connection that is not up.
Excused(k) ==
    \/ deleted /\ link \in {"ending", "failing", "cancelling", "closing"}
    \/ k \in dropped /\ Retries
    \/ TakenDown

\* What the room hears of the session, strengthened until it is inductive.
Heard ==
    /\ \A k \in room : /\ sess.status = "connected" => HearsConnected(k)
                       /\ HearsConnected(k) => sess.status = "connected" \/ Excused(k)
    /\ sess.status = "connecting" =>
         \A k \in Clients : Quiet(inbox[k]) /\ view[k] # "connected"
    /\ sess.status = "reconnecting" => Retries
    /\ \A k \in Clients \ (room \cup dropped) : inbox[k] = <<>> /\ view[k] = "connecting"
    /\ protocol = "mqtt" /\ deleted => sess.status = "disconnected"

\* What the proofs below use of the types.
LEMMA TypesOfRoom ==
    ASSUME Course, Typed
    PROVE  /\ GatewayTypeOK /\ sess \in Recorded
           /\ inbox \in [Clients -> Seq(Told)] /\ inbox \in [Clients -> Seq(Event)]
           /\ topicsShown \in [Clients -> SUBSET Topics]
           /\ guessed \in [Clients -> SUBSET Topics]
    <1>1. \E states : ProxiedTypeOK(states)
        BY DEF Course, Typed, TypeOK, SioTypeOK, MqttTypeOK, AmqpTypeOK
    <1> QED
        BY <1>1 DEF ProxiedTypeOK, GatewayTypeOK, Typed

\* Emitting what is no status event changes nothing of what is heard.
LEMMA EmittedQuietly ==
    ASSUME inbox \in [Clients -> Seq(Event)], NEW evs \in Seq(Event), Quiet(evs),
           EmitAll(evs), UNCHANGED view
    PROVE  \A k \in Clients : /\ HearsConnected(k)' <=> HearsConnected(k)
                              /\ Quiet(inbox[k]) => Quiet(inbox'[k])
                              /\ k \notin room => inbox'[k] = inbox[k]
    <1> SUFFICES ASSUME NEW k \in Clients
                 PROVE  /\ HearsConnected(k)' <=> HearsConnected(k)
                        /\ Quiet(inbox[k]) => Quiet(inbox'[k])
                        /\ k \notin room => inbox'[k] = inbox[k]
        OBVIOUS
    <1>1. inbox'[k] = IF k \in room THEN inbox[k] \o evs ELSE inbox[k]
        BY DEF EmitAll
    <1>2. CASE k \in room
        BY <1>1, <1>2, QuietIsUnheard DEF HearsConnected
    <1>3. CASE k \notin room
        BY <1>1, <1>3 DEF HearsConnected
    <1> QED
        BY <1>2, <1>3

\* The room hears the last status event it is sent.
LEMMA EmittedStatus ==
    ASSUME inbox \in [Clients -> Seq(Event)], room \subseteq Clients,
           NEW q \in Seq(Event), NEW e \in Event, e.type \in StatusEvents,
           EmitAll(Append(q, e)), UNCHANGED view
    PROVE  /\ \A k \in room : HearsConnected(k)' <=> e.type = "open"
           /\ \A k \in Clients \ room : inbox'[k] = inbox[k]
    <1>1. ASSUME NEW k \in room PROVE HearsConnected(k)' <=> e.type = "open"
        <2> DEFINE earlier == inbox[k] \o q
        <2>1. inbox'[k] = Append(earlier, e)
            BY AppendOfConcat DEF EmitAll
        <2>2. earlier \in Seq(Event)
            BY ConcatProperties
        <2> HIDE DEF earlier
        <2> QED
            BY <2>1, <2>2, LastStatusIsHeard DEF HearsConnected
    <1>2. \A k \in Clients \ room : inbox'[k] = inbox[k]
        BY DEF EmitAll
    <1> QED
        BY <1>1, <1>2

\* A job that leaves the status, and emits nothing about it.
LEMMA HeardQuietly ==
    ASSUME Course, Typed, Heard, NEW evs \in Seq(Event), Quiet(evs), EmitAll(evs),
           UNCHANGED <<view, room, dropped, protocol>>, deleted' = deleted,
           Retries' <=> Retries,
           sess'.status = sess.status, \A k \in room : Excused(k) => Excused(k)'
    PROVE  Heard'
    <1>1. inbox \in [Clients -> Seq(Event)] /\ room \subseteq Clients
        BY TypesOfRoom DEF GatewayTypeOK
    <1>2. \A k \in Clients : /\ HearsConnected(k)' <=> HearsConnected(k)
                             /\ Quiet(inbox[k]) => Quiet(inbox'[k])
                             /\ k \notin room => inbox'[k] = inbox[k]
        BY <1>1, EmittedQuietly
    <1> QED
        BY <1>1, <1>2 DEF Heard

\* A job that leaves the status and emits nothing.
LEMMA HeardNothing ==
    ASSUME Heard, UNCHANGED <<inbox, view, room, dropped, protocol, deleted>>,
           Retries' <=> Retries,
           sess'.status = sess.status, \A k \in room : Excused(k) => Excused(k)'
    PROVE  Heard'
    <1>1. \A k : HearsConnected(k)' <=> HearsConnected(k)
        BY DEF HearsConnected
    <1> QED
        BY <1>1 DEF Heard

\* A job that changes the status, and tells the room.
LEMMA HeardStatus ==
    ASSUME Course, Typed, Heard, NEW q \in Seq(Event), NEW e \in Event,
           e.type \in StatusEvents, EmitAll(Append(q, e)),
           UNCHANGED <<view, room, dropped, protocol>>,
           sess'.status = "connected" <=> e.type = "open",
           sess'.status # "connecting", sess'.status = "reconnecting" => Retries',
           protocol = "mqtt" /\ deleted' => sess'.status = "disconnected"
    PROVE  Heard'
    <1>1. inbox \in [Clients -> Seq(Event)] /\ room \subseteq Clients
        BY TypesOfRoom DEF GatewayTypeOK
    <1>2. /\ \A k \in room : HearsConnected(k)' <=> e.type = "open"
          /\ \A k \in Clients \ room : inbox'[k] = inbox[k]
        BY <1>1, EmittedStatus
    <1> QED
        BY <1>1, <1>2 DEF Heard

\* A job that ends the session, and tells nobody yet.
LEMMA HeardSilently ==
    ASSUME Heard, UNCHANGED <<inbox, view, room, dropped, protocol>>,
           sess'.status \in {"error", "disconnected"},
           protocol = "mqtt" /\ deleted' => sess'.status = "disconnected",
           \A k \in room : HearsConnected(k) => Excused(k)'
    PROVE  Heard'
    <1>1. \A k : HearsConnected(k)' <=> HearsConnected(k)
        BY DEF HearsConnected
    <1> QED
        BY <1>1 DEF Heard

\* The status events one by one, and what is no status event.
LEMMA StatusEventsEmitted ==
    /\ \A type \in StatusEvents :
          /\ Ev(type, 0) \in Event /\ Ev(type, 0).type = type
          /\ Emit(Ev(type, 0)) => EmitAll(Append(<<>>, Ev(type, 0)))
    /\ EmitAll(<<Ev("error", 0), Ev("close", 0)>>)
          => EmitAll(Append(<<Ev("error", 0)>>, Ev("close", 0)))
    /\ <<>> \in Seq(Event) /\ <<Ev("error", 0)>> \in Seq(Event)
    /\ Quiet(<<>>)
    /\ \A type \in EventType \ StatusEvents, n \in Nat :
          /\ <<Ev(type, n)>> \in Seq(Event) /\ Quiet(<<Ev(type, n)>>)
          /\ <<Ev(type, n), Ev(type, n)>> \in Seq(Event)
          /\ Quiet(<<Ev(type, n), Ev(type, n)>>)
    /\ {"message", "sent", "ack", "subscribed", "unsubscribed", "setup"}
          \subseteq EventType \ StatusEvents
    /\ {"open", "error", "close", "reconnecting"} \subseteq StatusEvents
    <1>1. \A type \in EventType, n \in Nat : Ev(type, n) \in Event /\ Ev(type, n).type = type
        BY DEF Ev, Event
    <1>2. StatusEvents \subseteq EventType
        BY DEF EventType
    <1>3. \A e : Append(<<>>, e) = <<e>>
        OBVIOUS
    <1>4. \A e, f \in Event : Append(<<e>>, f) = <<e, f>>
        <2> SUFFICES ASSUME NEW e \in Event, NEW f \in Event PROVE Append(<<e>>, f) = <<e, f>>
            OBVIOUS
        <2>1. <<e>> \in Seq(Event) /\ Len(<<e>>) = 1 /\ <<e>>[1] = e
            OBVIOUS
        <2>2. /\ Append(<<e>>, f) \in Seq(Event) /\ Len(Append(<<e>>, f)) = 2
              /\ Append(<<e>>, f)[1] = e /\ Append(<<e>>, f)[2] = f
            BY <2>1, AppendProperties
        <2>3. <<e, f>> \in Seq(Event) /\ Len(<<e, f>>) = 2
                  /\ <<e, f>>[1] = e /\ <<e, f>>[2] = f
            OBVIOUS
        <2>4. \A i \in 1..2 : Append(<<e>>, f)[i] = <<e, f>>[i]
            BY <2>2, <2>3
        <2> QED
            BY <2>2, <2>3, <2>4, SeqEqual
    <1>5. \A type \in EventType \ StatusEvents, n \in Nat :
             /\ <<Ev(type, n)>> \in Seq(Event) /\ Quiet(<<Ev(type, n)>>)
             /\ <<Ev(type, n), Ev(type, n)>> \in Seq(Event)
             /\ Quiet(<<Ev(type, n), Ev(type, n)>>)
        BY <1>1 DEF Quiet
    <1>6. /\ {"message", "sent", "ack", "subscribed", "unsubscribed", "setup"}
                \subseteq EventType \ StatusEvents
          /\ {"open", "error", "close", "reconnecting"} \subseteq StatusEvents
        BY DEF EventType, StatusEvents
    <1>7. Quiet(<<>>) /\ <<>> \in Seq(Event) /\ <<Ev("error", 0)>> \in Seq(Event)
        BY <1>1, <1>2, <1>6 DEF Quiet
    <1> QED
        BY <1>1, <1>2, <1>3, <1>4, <1>5, <1>6, <1>7 DEF Emit


\* Counting changes neither the status nor the errors of a session.
LEMMA StatusStays ==
    ASSUME Course, NEW topic
    PROVE  /\ RecordSent(sess).status = sess.status
           /\ RecordReceived(sess, FALSE).status = sess.status
           /\ AddTopic(sess, topic).status = sess.status
           /\ RemoveTopic(sess, topic).status = sess.status
           /\ \A status : UpdateStatus(sess, status).status = status
           /\ RecordError(UpdateStatus(sess, "error")).status = "error"
           /\ UpdateStatus(RecordError(UpdateStatus(sess, "error")), "disconnected").status
                 = "disconnected"
    <1>1. Sound(sess)
        BY DEF Course
    <1>2. \A status : Sound(UpdateStatus(sess, status))
        BY <1>1, StatusSet
    <1>3. Sound(RecordError(UpdateStatus(sess, "error")))
        BY <1>2, ErrorCounted
    <1>4. /\ RecordSent(sess).status = sess.status
          /\ RecordReceived(sess, FALSE).status = sess.status
          /\ AddTopic(sess, topic).status = sess.status
          /\ RemoveTopic(sess, topic).status = sess.status
        BY <1>1, OthersFollow DEF Follows
    <1>5. \A status : UpdateStatus(sess, status).status = status
        BY <1>1, StatusSet
    <1>6. RecordError(UpdateStatus(sess, "error")).status = "error"
        BY <1>2, <1>5, ErrorCounted
    <1>7. UpdateStatus(RecordError(UpdateStatus(sess, "error")), "disconnected").status
              = "disconnected"
        BY <1>3, StatusSet
    <1> QED
        BY <1>4, <1>5, <1>6, <1>7

\* The jobs of a Socket.IO connection.
LEMMA SioHeard == Course /\ Typed /\ Heard /\ Socket /\ UNCHANGED Retries => Heard'
    <1> SUFFICES ASSUME Course, Typed, Heard, Socket, UNCHANGED Retries PROVE Heard'
        OBVIOUS
    <1>0. /\ protocol = "socketio" /\ protocol' = "socketio" /\ SioNext /\ SioCourse
          /\ Sound(sess) /\ room \subseteq Clients
        BY TypesOfRoom DEF Course, Socket, GatewayTypeOK
    <1>1. UNCHANGED <<view, room, dropped>>
        BY <1>0
        DEF SioNext, SioConnect, SioConnectError, SioReconnectAttempt, SioDisconnect, SioEvent,
            SioSubscribe, SioAck, SioCleanUp, SioSend, SioDelete, SioSessionClose, browsers, told, gatewayVars
    <1>k. \A k : k \in dropped /\ Retries => (k \in dropped /\ Retries)'
        BY <1>1
    <1>2. CASE SioConnect
        <2>1. sess'.status = "connected" /\ Emit(Ev("open", 0))
            BY <1>2, StatusStays DEF SioConnect
        <2> QED
            BY <1>0, <1>1, <2>1, StatusEventsEmitted, HeardStatus
    <1>3. CASE SioConnectError
        <2>1. CASE failed /\ UNCHANGED <<sess, inbox>>
            <3>1. ~TakenDown /\ link = "opening" /\ UNCHANGED deleted
                BY <1>3 DEF SioConnectError, TakenDown
            <3>2. \A k : Excused(k) => Excused(k)'
                BY <1>k, <3>1 DEF Excused
            <3> QED
                BY <1>0, <1>1, <2>1, <3>1, <3>2, HeardNothing
        <2>2. CASE sess' = RecordError(UpdateStatus(sess, "error")) /\ Emit(Ev("error", 0))
            <3>1. sess'.status = "error"
                BY <2>2, StatusStays
            <3> QED
                BY <1>0, <1>1, <2>2, <3>1, StatusEventsEmitted, HeardStatus
        <2> QED
            BY <1>3, <2>1, <2>2 DEF SioConnectError
    <1>4. CASE SioReconnectAttempt
        <2>1. sess'.status = "reconnecting" /\ Emit(Ev("reconnecting", 0)) /\ Retries
            BY <1>0, <1>4, StatusStays DEF SioReconnectAttempt, SioCourse, Retries
        <2> QED
            BY <1>0, <1>1, <2>1, StatusEventsEmitted, HeardStatus
    <1>5. CASE SioDisconnect
        <2>1. sess'.status = "disconnected" /\ Emit(Ev("close", 0))
            BY <1>5, StatusStays DEF SioDisconnect
        <2> QED
            BY <1>0, <1>1, <2>1, StatusEventsEmitted, HeardStatus
    <1>6. CASE \E e \in Events, bare \in BOOLEAN : SioEvent(e, bare)
        <2>1. PICK e \in Events, bare \in BOOLEAN : SioEvent(e, bare)
            BY <1>6
        <2> DEFINE ev == Ev("message", arrived + 1)
                   s == RecordReceived(sess, FALSE)
                   b == BufferMessage(s, ev)
        <2>2. sess'.status = sess.status
            <3>1. Follows(sess, s) /\ Sound(s)
                BY <1>0, OthersFollow DEF Follows
            <3>2. Follows(s, b) /\ Sound(b)
                BY <3>1, OthersFollow DEF Follows
            <3>3. Follows(b, RecordReceived(b, FALSE))
                BY <3>2, OthersFollow
            <3>4. sess' \in {b, RecordReceived(b, FALSE)}
                BY <2>1 DEF SioEvent
            <3> HIDE DEF s, b
            <3> QED
                BY <3>1, <3>2, <3>3, <3>4 DEF Follows
        <2>3. arrived + 1 \in Nat
            BY <1>0 DEF Typed, TypeOK, SioTypeOK, ProxiedTypeOK
        <2>4. EmitAll(<<ev>>) \/ EmitAll(<<ev, ev>>)
            BY <2>1 DEF SioEvent
        <2>5. /\ <<ev>> \in Seq(Event) /\ Quiet(<<ev>>)
              /\ <<ev, ev>> \in Seq(Event) /\ Quiet(<<ev, ev>>)
            BY <2>3, StatusEventsEmitted
        <2>6. ~TakenDown /\ UNCHANGED <<link, deleted>>
            BY <2>1 DEF SioEvent, TakenDown
        <2>7. \A k : Excused(k) => Excused(k)'
            BY <1>k, <2>6 DEF Excused
        <2> HIDE DEF ev, s, b
        <2> QED
            BY <1>0, <1>1, <2>2, <2>4, <2>5, <2>6, <2>7, HeardQuietly
    <1>7. CASE \E e \in Events : SioSubscribe(e)
        <2>1. UNCHANGED <<sess, inbox, link, deleted>>
            BY <1>7 DEF SioSubscribe, gatewayVars
        <2>2. \A k : Excused(k) => Excused(k)'
            BY <1>k, <2>1 DEF Excused, TakenDown
        <2> QED
            BY <1>0, <1>1, <2>1, <2>2, HeardNothing
    <1>8. CASE SioAck \/ SioSend
        <2>1. /\ UNCHANGED <<link, deleted>> /\ sess'.status = sess.status
              /\ link = "open"
              /\ Emit(Ev("ack", 0)) \/ Emit(Ev("sent", 0))
            BY <1>8, StatusStays DEF SioAck, SioSend
        <2>2. \A k : Excused(k) => Excused(k)'
            BY <1>k, <2>1 DEF Excused, TakenDown
        <2> QED
            BY <1>0, <1>1, <2>1, <2>2, StatusEventsEmitted, HeardQuietly DEF Emit
    <1>9. CASE SioCleanUp
        <2>1. UNCHANGED <<sess, inbox, deleted>> /\ link' = "off"
            BY <1>9 DEF SioCleanUp, gatewayVars
        <2>2. link \notin {"ending", "failing", "cancelling", "closing"}
            BY <1>0 DEF SioCourse, SioLink
        <2>3. \A k : Excused(k) => Excused(k)'
            BY <1>k, <2>1, <2>2 DEF Excused, TakenDown
        <2> QED
            BY <1>0, <1>1, <2>1, <2>3, HeardNothing
    <1>10. CASE SioDelete
        <2>1. sess'.status = "disconnected" /\ sess'.errors = sess.errors /\ link' = "off"
            BY <1>0, <1>10, StatusSet DEF SioDelete, SioSessionClose
        <2>2. CASE link = "open"
            <3>1. Emit(Ev("close", 0))
                BY <1>10, <2>2 DEF SioDelete, SioSessionClose, Emit
            <3> QED
                BY <1>0, <1>1, <2>1, <3>1, StatusEventsEmitted, HeardStatus
        <2>3. CASE link # "open"
            <3>1. EmitAll(<<>>)
                BY <1>10, <2>3 DEF SioDelete, SioSessionClose
            <3>2. inbox' = inbox
                <4>1. inbox \in [Clients -> Seq(Event)]
                    BY TypesOfRoom
                <4>2. \A k \in Clients : inbox[k] \o <<>> = inbox[k]
                    BY <4>1, ConcatEmptySeq
                <4> QED
                    BY <3>1, <4>1, <4>2 DEF EmitAll
            <3>3. sess.status = "connected" => TakenDown
                BY <1>0, <2>3 DEF SioCourse, SioLink, TakenDown, Retries
            <3>4. link \notin {"ending", "failing", "cancelling", "closing"}
                BY <1>0 DEF SioCourse, SioLink
            <3>5. \A k : Excused(k) => Excused(k)'
                BY <1>k, <2>1, <3>4 DEF Excused, TakenDown
            <3>6. TakenDown => TakenDown'
                BY <2>1 DEF TakenDown
            <3>7. \A k \in room : HearsConnected(k) => Excused(k)'
                BY <3>3, <3>5, <3>6 DEF Heard, Excused
            <3> QED
                BY <1>0, <1>1, <2>1, <3>2, <3>7, HeardSilently
        <2> QED
            BY <2>2, <2>3
    <1> QED
        BY <1>0, <1>2, <1>3, <1>4, <1>5, <1>6, <1>7, <1>8, <1>9, <1>10 DEF SioNext


\* The jobs of an MQTT connection.
LEMMA MqttHeard == Course /\ Typed /\ Heard /\ Mqtt /\ UNCHANGED Retries => Heard'
    <1> SUFFICES ASSUME Course, Typed, Heard, Mqtt, UNCHANGED Retries PROVE Heard'
        OBVIOUS
    <1>0. /\ protocol = "mqtt" /\ protocol' = "mqtt" /\ MqttNext /\ MqttCourse
          /\ room \subseteq Clients /\ MqttTypeOK
        BY TypesOfRoom DEF Course, Mqtt, GatewayTypeOK, Typed, TypeOK
    <1>1. UNCHANGED <<view, room, dropped>>
        BY <1>0
        DEF MqttNext, MqttConnect, MqttMessage, MqttError, MqttClose, BrokerServes, MqttAnswer,
            MqttRequest, PanelRequest, TakeRequest, PanelAnswered, MqttPublish, MqttDelete, MqttSessionClose,
            browsers, told, gatewayVars
    <1>2. ~Retries /\ ~TakenDown
        BY <1>0 DEF Retries, TakenDown
    <1>k. \A k : UNCHANGED <<link, deleted>> => (Excused(k) => Excused(k)')
        BY <1>2 DEF Excused
    <1>3. CASE MqttConnect
        <2>1. sess'.status = "connected" /\ Emit(Ev("open", 0)) /\ ~deleted'
            BY <1>0, <1>3, StatusStays DEF MqttConnect, MqttCourse
        <2> QED
            BY <1>0, <1>1, <2>1, StatusEventsEmitted, HeardStatus
    <1>4. CASE MqttMessage \/ MqttPublish
        <2>1. arrived + 1 \in Nat
            BY <1>0 DEF MqttTypeOK, ProxiedTypeOK
        <2>2. /\ UNCHANGED <<link, deleted>> /\ sess'.status = sess.status
              /\ Emit(Ev("message", arrived + 1)) \/ Emit(Ev("sent", 0))
            BY <1>4, StatusStays DEF MqttMessage, MqttPublish
        <2> QED
            BY <1>0, <1>1, <1>k, <2>1, <2>2, StatusEventsEmitted, HeardQuietly DEF Emit
    <1>5. CASE MqttError
        <2>1. sess'.status = "error" /\ Emit(Ev("error", 0)) /\ ~deleted'
            BY <1>0, <1>5, StatusStays DEF MqttError, MqttCourse
        <2> QED
            BY <1>0, <1>1, <2>1, StatusEventsEmitted, HeardStatus
    <1>6. CASE MqttClose
        <2>1. CASE sess.status = "error" /\ UNCHANGED <<sess, inbox>>
            <3>1. deleted' = deleted /\ ~deleted
                BY <1>0, <1>6, <2>1 DEF MqttClose, Heard
            <3>2. \A k \in room : Excused(k) => Excused(k)'
                BY <1>2, <3>1 DEF Excused
            <3> QED
                BY <1>0, <1>1, <2>1, <3>1, <3>2, HeardNothing
        <2>2. CASE sess' = UpdateStatus(sess, "disconnected") /\ Emit(Ev("close", 0))
            <3>1. sess'.status = "disconnected"
                BY <2>2, StatusStays
            <3> QED
                BY <1>0, <1>1, <2>2, <3>1, StatusEventsEmitted, HeardStatus
        <2> QED
            BY <1>6, <2>1, <2>2 DEF MqttClose
    <1>7. CASE BrokerServes
        <2>1. UNCHANGED <<sess, inbox, link, deleted>>
            BY <1>7 DEF BrokerServes, gatewayVars
        <2> QED
            BY <1>0, <1>1, <1>k, <2>1, HeardNothing
    <1>8. CASE MqttAnswer
        <2> DEFINE t == Head(answers).topic
        <2>1. UNCHANGED <<link, deleted>>
            BY <1>8 DEF MqttAnswer
        <2>2. CASE UNCHANGED <<sess, inbox>>
            BY <1>0, <1>1, <1>k, <2>1, <2>2, HeardNothing
        <2>3. CASE \/ sess' = AddTopic(sess, t) /\ Emit(Ev("subscribed", t))
                   \/ sess' = RemoveTopic(sess, t) /\ Emit(Ev("unsubscribed", t))
            <3>1. t \in Nat
                <4>1. Head(answers) \in Answer
                    BY <1>0, <1>8, HeadTailProperties DEF MqttAnswer, MqttTypeOK
                <4> QED
                    BY <4>1, ProxiedAssumption DEF Answer
            <3>2. sess'.status = sess.status
                BY <2>3, StatusStays
            <3> HIDE DEF t
            <3> QED
                BY <1>0, <1>1, <1>k, <2>1, <2>3, <3>1, <3>2, StatusEventsEmitted, HeardQuietly
                DEF Emit
        <2> QED
            BY <1>8, <2>2, <2>3 DEF MqttAnswer
    <1>9. CASE \/ \E r \in Request : MqttRequest(r) \/ \E k \in Clients : PanelRequest(k, r)
               \/ \E call \in asked : PanelAnswered(call)
        <2>1. UNCHANGED <<sess, inbox, link, deleted>>
            BY <1>9 DEF MqttRequest, PanelRequest, TakeRequest, PanelAnswered, gatewayVars
        <2> QED
            BY <1>0, <1>1, <1>k, <2>1, HeardNothing
    <1>10. CASE MqttDelete
        <2>1. sess'.status = "disconnected" /\ deleted' /\ UNCHANGED inbox
            BY <1>10, StatusStays DEF MqttDelete, MqttSessionClose
        <2>2. ASSUME NEW k \in room, HearsConnected(k) PROVE Excused(k)'
            <3>1. CASE sess.status = "connected"
                <4>1. link = "online"
                    BY <1>0, <3>1 DEF MqttCourse, MqttLink
                <4> QED
                    BY <1>10, <2>1, <4>1 DEF MqttDelete, MqttSessionClose, Excused
            <3>2. CASE Excused(k)
                <4>1. link \in {"ending", "failing"}
                    BY <1>0, <1>2, <3>2 DEF Excused, MqttCourse, MqttLink
                <4> QED
                    BY <1>10, <2>1, <4>1 DEF MqttDelete, MqttSessionClose, Excused
            <3> QED
                BY <2>2, <3>1, <3>2 DEF Heard
        <2> QED
            BY <1>0, <1>1, <2>1, <2>2, HeardSilently
    <1> QED
        BY <1>0, <1>3, <1>4, <1>5, <1>6, <1>7, <1>8, <1>9, <1>10 DEF MqttNext

\* The jobs of an AMQP connection.
LEMMA AmqpHeard == Course /\ Typed /\ Heard /\ Amqp /\ UNCHANGED Retries => Heard'
    <1> SUFFICES ASSUME Course, Typed, Heard, Amqp, UNCHANGED Retries PROVE Heard'
        OBVIOUS
    <1>0. /\ protocol = "amqp" /\ protocol' = "amqp" /\ AmqpNext /\ AmqpCourse
          /\ room \subseteq Clients /\ AmqpTypeOK
        BY TypesOfRoom DEF Course, Amqp, GatewayTypeOK, Typed, TypeOK
    <1>1. UNCHANGED <<view, room, dropped>>
        BY <1>0
        DEF AmqpNext, AmqpConnected, AmqpOpen, AmqpRefused, AmqpDeliver, AmqpError, AmqpClose, AmqpCancelled,
            AmqpSecondClose, AmqpConsuming, AmqpSetupStep, AmqpSetup, AmqpConsume, AmqpAck,
            AmqpPublish, AmqpDelete, AmqpSessionClose, browsers, told, gatewayVars
    <1>2. ~Retries /\ ~TakenDown
        BY <1>0 DEF Retries, TakenDown
    <1>k. \A k : UNCHANGED <<link, deleted>> => (Excused(k) => Excused(k)')
        BY <1>2 DEF Excused
    <1>2a. CASE AmqpConnected
        <2>1. UNCHANGED <<sess, inbox, deleted>> /\ link = "opening"
            BY <1>2a DEF AmqpConnected, gatewayVars
        <2>2. \A k : Excused(k) => Excused(k)'
            BY <1>2, <2>1 DEF Excused
        <2> QED
            BY <1>0, <1>1, <2>1, <2>2, HeardNothing
    <1>3. CASE AmqpOpen
        <2>1. sess'.status = "connected" /\ Emit(Ev("open", 0))
            BY <1>3, StatusStays DEF AmqpOpen
        <2> QED
            BY <1>0, <1>1, <2>1, StatusEventsEmitted, HeardStatus
    <1>4. CASE AmqpRefused
        <2>1. sess'.status = "error" /\ sess.status # "connected" /\ UNCHANGED inbox
            BY <1>0, <1>4, StatusStays DEF AmqpRefused, AmqpCourse
        <2>2. \A k \in room : ~HearsConnected(k)
            BY <1>0, <1>2, <1>4, <2>1 DEF Heard, Excused, AmqpRefused, Making
        <2> QED
            BY <1>0, <1>1, <2>1, <2>2, HeardSilently
    <1>5. CASE AmqpDeliver \/ AmqpPublish
        <2>1. arrived + 1 \in Nat
            BY <1>0 DEF AmqpTypeOK, ProxiedTypeOK
        <2>2. /\ UNCHANGED <<link, deleted>> /\ sess'.status = sess.status
              /\ Emit(Ev("message", arrived + 1)) \/ Emit(Ev("sent", 0))
            BY <1>5, StatusStays DEF AmqpDeliver, AmqpPublish
        <2> QED
            BY <1>0, <1>1, <1>k, <2>1, <2>2, StatusEventsEmitted, HeardQuietly DEF Emit
    <1>6. CASE AmqpError
        <2>1. sess'.status = "disconnected" /\ EmitAll(<<Ev("error", 0), Ev("close", 0)>>)
            BY <1>6, StatusStays DEF AmqpError
        <2> QED
            BY <1>0, <1>1, <2>1, StatusEventsEmitted, HeardStatus
    <1>7. CASE AmqpClose
        <2>1. sess'.status = "disconnected" /\ Emit(Ev("close", 0))
            BY <1>7, StatusStays DEF AmqpClose
        <2> QED
            BY <1>0, <1>1, <2>1, StatusEventsEmitted, HeardStatus
    <1>8. CASE AmqpCancelled
        <2>1. UNCHANGED <<sess, inbox, deleted>> /\ link' = "closing"
            BY <1>8 DEF AmqpCancelled, gatewayVars
        <2>2. \A k : Excused(k) => Excused(k)'
            BY <1>2, <2>1 DEF Excused
        <2> QED
            BY <1>0, <1>1, <2>1, <2>2, HeardNothing
    <1>9. CASE \/ AmqpSecondClose \/ AmqpConsuming \/ AmqpSetup \/ AmqpConsume
               \/ \E tag \in tags, multiple \in BOOLEAN : AmqpAck(tag, multiple)
        <2>1. UNCHANGED <<sess, inbox, link, deleted>>
            BY <1>9 DEF AmqpSecondClose, AmqpConsuming, AmqpSetup, AmqpConsume, AmqpAck,
                        gatewayVars
        <2> QED
            BY <1>0, <1>1, <1>k, <2>1, HeardNothing
    <1>10. CASE AmqpSetupStep
        <2>1. /\ UNCHANGED <<sess, link, deleted>>
              /\ EmitAll(<<>>) \/ EmitAll(<<Ev("setup", 0)>>)
            BY <1>10 DEF AmqpSetupStep
        <2> QED
            BY <1>0, <1>1, <1>k, <2>1, StatusEventsEmitted, HeardQuietly
    <1>11. CASE AmqpDelete
        <2>1. sess'.status = "disconnected" /\ deleted' /\ UNCHANGED inbox
            BY <1>11, StatusStays DEF AmqpDelete, AmqpSessionClose
        <2>2. ASSUME NEW k \in room, HearsConnected(k) PROVE Excused(k)'
            <3>1. link \in {"up", "cancelling", "closing"}
                <4>1. CASE sess.status = "connected"
                    BY <1>0, <4>1 DEF AmqpCourse, AmqpLink, Clientless, Making
                <4>2. CASE Excused(k)
                    BY <1>0, <1>2, <4>2 DEF Excused, AmqpCourse, AmqpLink, Clientless, Making
                <4> QED
                    BY <2>2, <4>1, <4>2 DEF Heard
            <3>2. link' \in {"cancelling", "closing"}
                BY <1>11, <3>1 DEF AmqpDelete, AmqpSessionClose, Clientless, Making
            <3> QED
                BY <2>1, <3>2 DEF Excused
        <2> QED
            BY <1>0, <1>1, <2>1, <2>2, HeardSilently
    <1> QED
        BY <1>0, <1>2a, <1>3, <1>4, <1>5, <1>6, <1>7, <1>8, <1>9, <1>10, <1>11 DEF AmqpNext


\* Browsers that join, receive, drop and come back.
LEMMA BrowsersHeard ==
    ASSUME Course, Typed, Heard, NEW k \in Clients,
           BrowserJoins(k) \/ BrowserReceives(k) \/ BrowserMoves(k)
    PROVE  Heard'
    <1>0. /\ sess \in Recorded /\ sess \in SessionType /\ Quiet(sess.buffered)
          /\ inbox \in [Clients -> Seq(Event)] /\ \A c \in Clients : inbox[c] \in Seq(Event)
          /\ room \subseteq Clients /\ view \in [Clients -> Status]
        <2>1. sess \in Recorded /\ inbox \in [Clients -> Seq(Event)] /\ GatewayTypeOK
            BY TypesOfRoom
        <2>2. Quiet(sess.buffered)
            <3>1. sess.buffered \in Seq(Kept)
                BY <2>1 DEF Recorded
            <3>2. \A i \in DOMAIN sess.buffered : sess.buffered[i] \in Kept
                BY <3>1
            <3> QED
                BY <3>2 DEF Quiet, Kept, StatusEvents
        <2> QED
            BY <2>1, <2>2 DEF Recorded, GatewayTypeOK
    <1>1. sess'.status = sess.status /\ sess'.errors = sess.errors
              /\ UNCHANGED <<link, deleted, protocol, auto>>
        BY BrowsersFollow DEF Follows, sioVars
    <1>2. \A c : Excused(c) /\ dropped \subseteq dropped' => Excused(c)'
        BY <1>1 DEF Excused, TakenDown, Retries
    <1>r. Retries' <=> Retries
        BY <1>1 DEF Retries
    <1>3. CASE BrowserJoins(k)
        <2>1. /\ inbox' = [inbox EXCEPT ![k] = @ \o Replay(sess)]
              /\ room' = room \cup {k} /\ k \notin room /\ UNCHANGED <<view, dropped>>
            BY <1>3 DEF BrowserJoins, ProxiedJoin, Join
        <2>2. /\ \A c \in Clients : c # k => inbox'[c] = inbox[c]
              /\ \A c \in room : HearsConnected(c)' <=> HearsConnected(c)
            BY <1>0, <2>1 DEF HearsConnected
        <2>3. CASE sess.status \in {"connecting", "reconnecting"}
            <3>1. Replay(sess) = <<>>
                BY <2>3 DEF Replay
            <3>2. inbox' = inbox
                BY <1>0, <2>1, <3>1, ConcatEmptySeq
            <3>3. HearsConnected(k)' => Excused(k)
                <4>1. CASE sess.status = "connecting"
                    BY <2>1, <3>2, <4>1 DEF Heard, HearsConnected, Hears, Quiet, StatusEvents
                <4>2. CASE sess.status = "reconnecting" /\ k \in dropped
                    BY <4>2 DEF Heard, Excused
                <4>3. CASE k \notin dropped
                    BY <2>1, <3>2, <4>3 DEF Heard, HearsConnected, Hears
                <4> QED
                    BY <2>3, <4>1, <4>2, <4>3
            <3> QED
                BY <1>0, <1>1, <1>2, <1>r, <2>1, <2>2, <2>3, <3>2, <3>3 DEF Heard
        <2>4. CASE sess.status \notin {"connecting", "reconnecting"}
            <3>1. HearsConnected(k)' <=> sess.status = "connected"
                BY <1>0, <2>1, <2>4, JoiningIsHearing DEF HearsConnected
            <3> QED
                BY <1>0, <1>1, <1>2, <1>r, <2>1, <2>2, <2>4, <3>1 DEF Heard
        <2> QED
            BY <2>3, <2>4
    <1>4. CASE BrowserReceives(k)
        <2>1. /\ inbox[k] # <<>>
              /\ inbox'[k] = Tail(inbox[k])
              /\ view'[k] = ViewAfter(view[k], Head(inbox[k]).type)
              /\ \A c \in Clients : c # k => inbox'[c] = inbox[c] /\ view'[c] = view[c]
              /\ UNCHANGED <<room, dropped>>
            BY <1>0, <1>4 DEF BrowserReceives, ProxiedReceive, Receive, serverSide
        <2>2. /\ HearsConnected(k)' <=> HearsConnected(k)
              /\ Quiet(inbox[k]) => Quiet(inbox'[k]) /\ view'[k] = view[k]
            BY <1>0, <2>1, ReceivingIsHearing DEF HearsConnected
        <2>3. \A c \in Clients : c # k => (HearsConnected(c)' <=> HearsConnected(c))
            BY <2>1 DEF HearsConnected
        <2> QED
            BY <1>0, <1>1, <1>2, <1>r, <2>1, <2>2, <2>3 DEF Heard
    <1>5. CASE BrowserMoves(k)
        <2>1. CASE ProxiedDrop(k)
            <3>1. /\ room' = room \ {k} /\ dropped' = dropped \cup {k} /\ UNCHANGED view
                  /\ \A c \in Clients : inbox'[c] = inbox[c] \/ (c = k /\ inbox'[c] = <<>>)
                BY <1>0, <2>1 DEF ProxiedDrop, ControlDrop
            <3>2. \A c \in Clients : c # k => (HearsConnected(c)' <=> HearsConnected(c))
                BY <3>1 DEF HearsConnected
            <3>3. \A c \in Clients : Quiet(inbox[c]) => Quiet(inbox'[c])
                BY <3>1 DEF Quiet
            <3> QED
                BY <1>0, <1>1, <1>2, <1>r, <3>1, <3>2, <3>3 DEF Heard
        <2>2. CASE ProxiedReconnect(k)
            <3>1. UNCHANGED <<inbox, view, room, dropped>>
                BY <2>2 DEF ProxiedReconnect, ControlReconnect
            <3> QED
                BY <1>1, <1>2, <1>r, <3>1, HeardNothing
        <2> QED
            BY <1>5, <2>1, <2>2 DEF BrowserMoves
    <1> QED
        BY <1>3, <1>4, <1>5

\* What the room hears is kept by every job, ...
LEMMA HeardStep == Course /\ Typed /\ Heard /\ [Next]_vars => Heard'
    <1> SUFFICES ASSUME Course, Typed, Heard, [Next]_vars PROVE Heard'
        OBVIOUS
    <1>0. UNCHANGED Retries
        BY RetriesKept
    <1>1. CASE Socket \/ Mqtt \/ Amqp
        BY <1>0, <1>1, SioHeard, MqttHeard, AmqpHeard
    <1>2. CASE \E k \in Clients : BrowserJoins(k) \/ BrowserReceives(k) \/ BrowserMoves(k)
        BY <1>2, BrowsersHeard
    <1>3. CASE UNCHANGED vars
        <2>1. UNCHANGED <<sess, inbox, view, room, dropped, protocol, deleted, link>>
            BY <1>3 DEF vars, proxyVars, gatewayVars
        <2>2. \A k : Excused(k) => Excused(k)'
            BY <1>0, <2>1 DEF Excused, TakenDown
        <2> QED
            BY <1>0, <2>1, <2>2, HeardNothing
    <1> QED
        BY <1>1, <1>2, <1>3 DEF Next

\* ... and there at the start.
LEMMA HeardInit == Init => Heard
    BY DEF Init, ProxiedInit, GatewayInit, NewSession, Heard, Quiet

\* In every run of a proxied Socket.IO, MQTT or AMQP connection what a member of
\* the room was told last about the connection, in flight or received, agrees
\* with the session (events.gateway.ts:56-103): whatever the order in which
\* browsers join and lose their socket, the library fails, retries and closes,
\* and the user deletes; save while a close that will be told is under way, for
\* a browser that came back while the client retries, and for a Socket.IO client
\* the clean-up took down.
THEOREM ProxiedRoomAgreesWithSession == Spec => []RoomHearsTheSession
    <1>1. Heard => RoomHearsTheSession
        BY DEF Heard, RoomHearsTheSession, Excused
    <1> QED
        BY <1>1, CourseCorrect, TypedCorrect, HeardInit, HeardStep, PTL DEF Spec


------------------------------------------------------------------------------
(* The topics of an MQTT connection.                                        *)

\* Whether something holds once everything in q was handled: the last element of
\* q about it decides, or what holds now when there is none.
Ends(q, adds, about, now) ==
    \/ \E i \in DOMAIN q : q[i] \in adds /\ \A j \in DOMAIN q : j > i => q[j] \notin about
    \/ now /\ \A i \in DOMAIN q : q[i] \notin about

\* One more element decides, if it is about it.
LEMMA EndsAppend ==
    ASSUME NEW S, NEW q \in Seq(S), NEW e \in S, NEW about, NEW adds \in SUBSET about, NEW now
    PROVE  Ends(Append(q, e), adds, about, now) <=>
               IF e \in about THEN e \in adds ELSE Ends(q, adds, about, now)
    <1> DEFINE r == Append(q, e)
    <1>1. /\ DOMAIN q = 1..Len(q) /\ Len(q) \in Nat
          /\ DOMAIN r = 1..(Len(q) + 1)
          /\ r[Len(q) + 1] = e /\ \A i \in 1..Len(q) : r[i] = q[i]
        BY LenProperties, AppendProperties
    <1>2. DOMAIN r = DOMAIN q \cup {Len(q) + 1} /\ \A i \in DOMAIN q : Len(q) + 1 > i
        BY <1>1
    <1> HIDE DEF r
    <1>3. CASE e \in about
        <2>1. ~\A i \in DOMAIN r : r[i] \notin about
            BY <1>1, <1>2, <1>3
        <2>2. ASSUME NEW i \in DOMAIN r, \A j \in DOMAIN r : j > i => r[j] \notin about
              PROVE  i = Len(q) + 1
            BY <1>1, <1>2, <1>3, <2>2
        <2>3. \A j \in DOMAIN r : ~(j > Len(q) + 1)
            BY <1>1
        <2> QED
            BY <1>1, <1>2, <1>3, <2>1, <2>2, <2>3 DEF Ends, r
    <1>4. CASE e \notin about
        <2>1. e \notin adds
            BY <1>4
        <2>2. \A i \in DOMAIN q : (\A j \in DOMAIN r : j > i => r[j] \notin about)
                                      <=> \A j \in DOMAIN q : j > i => q[j] \notin about
            BY <1>1, <1>2, <1>4
        <2>3. (\A i \in DOMAIN r : r[i] \notin about) <=> \A i \in DOMAIN q : q[i] \notin about
            BY <1>1, <1>2, <1>4
        <2>4. (\E i \in DOMAIN r : r[i] \in adds /\ \A j \in DOMAIN r : j > i => r[j] \notin about)
              <=> \E i \in DOMAIN q : q[i] \in adds /\ \A j \in DOMAIN q : j > i => q[j] \notin about
            BY <1>1, <1>2, <2>1, <2>2
        <2> QED
            BY <1>4, <2>3, <2>4 DEF Ends, r
    <1> QED
        BY <1>3, <1>4

\* Handling the first element leaves the end as it is.
LEMMA EndsTail ==
    ASSUME NEW S, NEW q \in Seq(S), q # <<>>, NEW about, NEW adds \in SUBSET about, NEW now,
           NEW then, IF Head(q) \in about THEN then <=> Head(q) \in adds ELSE then <=> now
    PROVE  Ends(Tail(q), adds, about, then) <=> Ends(q, adds, about, now)
    <1>1. /\ DOMAIN q = 1..Len(q) /\ Len(q) \in Nat \ {0} /\ Head(q) = q[1]
          /\ DOMAIN Tail(q) = 1..(Len(q) - 1)
          /\ \A i \in 1..(Len(q) - 1) : Tail(q)[i] = q[i + 1]
        BY LenProperties, HeadTailProperties, EmptySeq
    <1>2. /\ \A i \in DOMAIN q : i # 1 => i - 1 \in DOMAIN Tail(q) /\ q[i] = Tail(q)[i - 1]
          /\ \A i \in DOMAIN Tail(q) : i + 1 \in DOMAIN q /\ i + 1 > 1 /\ q[i + 1] = Tail(q)[i]
          /\ 1 \in DOMAIN q
        BY <1>1
    <1> DEFINE LastAdd(s, i) == s[i] \in adds /\ \A j \in DOMAIN s : j > i => s[j] \notin about
               Free(s) == \A i \in DOMAIN s : s[i] \notin about
    <1>3. Free(q) <=> q[1] \notin about /\ Free(Tail(q))
        BY <1>2
    <1>4. ASSUME NEW i \in DOMAIN q, i # 1, LastAdd(q, i)
          PROVE  i - 1 \in DOMAIN Tail(q) /\ LastAdd(Tail(q), i - 1)
        BY <1>1, <1>2, <1>4
    <1>5. ASSUME NEW i \in DOMAIN Tail(q), LastAdd(Tail(q), i)
          PROVE  i + 1 \in DOMAIN q /\ i + 1 # 1 /\ LastAdd(q, i + 1)
        <2>1. ASSUME NEW j \in DOMAIN q, j > i + 1 PROVE q[j] \notin about
            <3>1. j # 1 /\ j - 1 > i
                BY <1>1, <2>1
            <3> QED
                BY <1>2, <1>5, <3>1
        <2>2. i + 1 \in DOMAIN q /\ i + 1 # 1 /\ q[i + 1] \in adds
            BY <1>1, <1>2, <1>5
        <2> QED
            BY <2>1, <2>2
    <1>6. LastAdd(q, 1) <=> q[1] \in adds /\ Free(Tail(q))
        <2>1. \A j \in DOMAIN q : j > 1 <=> j # 1
            BY <1>1
        <2> QED
            BY <1>2, <2>1
    <1> HIDE DEF LastAdd, Free
    <1>7. (\E i \in DOMAIN q : LastAdd(q, i)) <=>
              LastAdd(q, 1) \/ \E i \in DOMAIN Tail(q) : LastAdd(Tail(q), i)
        BY <1>2, <1>4, <1>5
    <1>8. \A s, x : Ends(s, adds, about, x) <=> (\E i \in DOMAIN s : LastAdd(s, i)) \/ (x /\ Free(s))
        BY DEF Ends, LastAdd, Free
    <1> DEFINE t == Tail(q)
               inTail == \E i \in DOMAIN t : LastAdd(t, i)
    <1>9. /\ Ends(q, adds, about, now) <=> LastAdd(q, 1) \/ inTail \/ (now /\ Free(q))
          /\ Ends(t, adds, about, then) <=> inTail \/ (then /\ Free(t))
        BY <1>7, <1>8
    <1> HIDE DEF t, inTail
    <1>10. CASE q[1] \in about
        <2>1. ~Free(q) /\ (then <=> q[1] \in adds)
            BY <1>1, <1>3, <1>10
        <2>2. LastAdd(q, 1) <=> then /\ Free(t)
            BY <1>6, <2>1 DEF t
        <2> QED
            BY <1>9, <2>1, <2>2 DEF t
    <1>11. CASE q[1] \notin about
        <2>1. (Free(q) <=> Free(t)) /\ (then <=> now)
            BY <1>1, <1>3, <1>11 DEF t
        <2>2. ~LastAdd(q, 1)
            BY <1>6, <1>11
        <2> QED
            BY <1>9, <2>1, <2>2 DEF t
    <1> QED
        BY <1>10, <1>11

\* A list of different elements without one of them.
Different(list) == \A i, j \in DOMAIN list : list[i] = list[j] => i = j

Listed(list, e) == \E i \in DOMAIN list : list[i] = e

\* Removing e from a list of different elements removes it and nothing else.
LEMMA WithoutLists ==
    ASSUME NEW T, NEW list \in Seq(T), Different(list), NEW e
    PROVE  /\ Different(Without(list, e))
           /\ \A x : Listed(Without(list, e), x) <=> Listed(list, x) /\ x # e
    <1>1. CASE ~Listed(list, e)
        BY <1>1 DEF Without, Listed
    <1>2. CASE Listed(list, e)
        <2> DEFINE at == CHOOSE i \in DOMAIN list : list[i] = e
                   left == SubSeq(list, 1, at - 1)
                   right == SubSeq(list, at + 1, Len(list))
        <2>1. at \in DOMAIN list /\ list[at] = e
            BY <1>2 DEF Listed
        <2>2. DOMAIN list = 1..Len(list) /\ Len(list) \in Nat
            BY LenProperties
        <2>3. Without(list, e) = left \o right
            BY <1>2 DEF Without, Listed
        <2> HIDE DEF at
        <2>4. /\ left \in Seq(T) /\ Len(left) = at - 1
              /\ \A i \in 1..(at - 1) : left[i] = list[i]
            <3>1. \A i \in 1..(at - 1) : list[i] \in T
                BY <2>1, <2>2, ElementOfSeq
            <3> QED
                BY <2>1, <2>2, <3>1, SubSeqProperties
        <2>5. /\ right \in Seq(T) /\ Len(right) = Len(list) - at
              /\ \A i \in 1..(Len(list) - at) : right[i] = list[i + at]
            <3>1. \A i \in (at + 1)..Len(list) : list[i] \in T
                BY <2>1, <2>2, ElementOfSeq
            <3> QED
                BY <2>1, <2>2, <3>1, SubSeqProperties
        <2> HIDE DEF left, right
        <2> DEFINE w == left \o right
        <2>6. /\ DOMAIN w = 1..(Len(list) - 1)
              /\ \A i \in 1..(Len(list) - 1) : w[i] = IF i < at THEN list[i] ELSE list[i + 1]
            <3>1. Len(w) = Len(left) + Len(right) /\ w \in Seq(T)
                  /\ \A i \in 1..Len(w) : w[i] = IF i <= Len(left) THEN left[i]
                                                 ELSE right[i - Len(left)]
                BY <2>4, <2>5, ConcatProperties
            <3>2. Len(w) = Len(list) - 1
                BY <2>1, <2>2, <2>4, <2>5, <3>1
            <3>3. ASSUME NEW i \in 1..(Len(list) - 1)
                  PROVE  w[i] = IF i < at THEN list[i] ELSE list[i + 1]
                <4>1. CASE i < at
                    BY <2>1, <2>2, <2>4, <3>1, <3>2, <4>1
                <4>2. CASE ~(i < at)
                    <5>1. i - (at - 1) \in 1..(Len(list) - at) /\ ~(i <= at - 1)
                              /\ (i - (at - 1)) + at = i + 1
                        BY <2>1, <2>2, <4>2
                    <5> QED
                        BY <2>1, <2>2, <2>4, <2>5, <3>1, <3>2, <4>2, <5>1
                <4> QED
                    BY <4>1, <4>2
            <3> QED
                BY <3>1, <3>2, <3>3, LenProperties
        <2> HIDE DEF w
        <2>7. ASSUME NEW i \in DOMAIN w
              PROVE  \E j \in DOMAIN list : j # at /\ w[i] = list[j]
                         /\ j = IF i < at THEN i ELSE i + 1
            BY <2>1, <2>2, <2>6
        <2>8. ASSUME NEW j \in DOMAIN list, j # at
              PROVE  \E i \in DOMAIN w : w[i] = list[j]
            <3>1. CASE j < at
                <4>1. j \in 1..(Len(list) - 1)
                    BY <2>1, <2>2, <3>1
                <4> QED
                    BY <2>6, <3>1, <4>1
            <3>2. CASE ~(j < at)
                <4>1. j - 1 \in 1..(Len(list) - 1) /\ ~(j - 1 < at) /\ (j - 1) + 1 = j
                    BY <2>1, <2>2, <2>8, <3>2
                <4> QED
                    BY <2>6, <4>1
            <3> QED
                BY <3>1, <3>2
        <2>9. Different(w)
            <3> SUFFICES ASSUME NEW i \in DOMAIN w, NEW j \in DOMAIN w, w[i] = w[j] PROVE i = j
                BY DEF Different
            <3>1. i \in Int /\ j \in Int /\ at \in Int
                BY <2>1, <2>2, <2>6
            <3>2. PICK m \in DOMAIN list : w[i] = list[m] /\ m = IF i < at THEN i ELSE i + 1
                BY <2>7
            <3>3. PICK n \in DOMAIN list : w[j] = list[n] /\ n = IF j < at THEN j ELSE j + 1
                BY <2>7
            <3>4. m = n
                BY <3>2, <3>3 DEF Different
            <3> QED
                BY <3>1, <3>2, <3>3, <3>4
        <2>10. ASSUME NEW x PROVE Listed(w, x) <=> Listed(list, x) /\ x # e
            BY <2>1, <2>7, <2>8 DEF Listed, Different
        <2> QED
            BY <2>3, <2>9, <2>10 DEF w
    <1> QED
        BY <1>1, <1>2

\* A list with one more element that was not in it.
LEMMA AddLists ==
    ASSUME NEW T, NEW list \in Seq(T), Different(list), NEW e \in T
    PROVE  LET new == IF \E i \in DOMAIN list : list[i] = e THEN list ELSE Append(list, e)
           IN  Different(new) /\ \A x : Listed(new, x) <=> Listed(list, x) \/ x = e
    <1>1. CASE Listed(list, e)
        BY <1>1 DEF Listed
    <1>2. CASE ~Listed(list, e)
        <2> DEFINE new == Append(list, e)
        <2>1. /\ DOMAIN list = 1..Len(list) /\ Len(list) \in Nat
              /\ DOMAIN new = 1..(Len(list) + 1)
              /\ new[Len(list) + 1] = e /\ \A i \in 1..Len(list) : new[i] = list[i]
            BY LenProperties, AppendProperties
        <2>2. DOMAIN new = DOMAIN list \cup {Len(list) + 1}
            BY <2>1
        <2> HIDE DEF new
        <2>3. Different(new)
            BY <1>2, <2>1, <2>2 DEF Different, Listed
        <2>4. \A x : Listed(new, x) <=> Listed(list, x) \/ x = e
            BY <2>1, <2>2 DEF Listed
        <2> QED
            BY <1>2, <2>3, <2>4 DEF Listed, new
    <1> QED
        BY <1>1, <1>2


\* What only a subscription changes of a session stays.
LEMMA TopicsStay ==
    ASSUME NEW s \in Recorded
    PROVE  /\ \A status \in Status : UpdateStatus(s, status).topics = s.topics
           /\ RecordSent(s).topics = s.topics /\ RecordError(s).topics = s.topics
           /\ RecordReceived(s, FALSE).topics = s.topics
           /\ \A ev : BufferMessage(s, ev).topics = s.topics
           /\ AfterReplay(s).topics = s.topics
    <1>1. "topics" \in DOMAIN s
        BY DEF Recorded, SessionType
    <1> QED
        BY <1>1 DEF UpdateStatus, RecordSent, RecordError, RecordReceived, BufferMessage,
                    AfterReplay, Recorded, SessionType

\* The topics of a session are different, and once the answers under way are
\* handled, those the broker delivers.
Effective(t) == {a \in Answer : a.ok /\ a.topic = t}
Grants(t) == {a \in Effective(t) : a.op = "subscribe"}

Ledger ==
    /\ Different(sess.topics)
    /\ protocol = "mqtt" /\ link = "connecting" =>
         answers = <<>> /\ granted = {} /\ sess.topics = <<>>
    /\ protocol = "mqtt" /\ link = "online" =>
         \A t \in Topics :
            Ends(answers, Grants(t), Effective(t), Listed(sess.topics, t)) <=> t \in granted

\* Only the answers of an MQTT broker change the topics of a session.
LEMMA TopicsOnlyByAnswers ==
    ASSUME Course, Typed, [Next]_vars, ~(Mqtt /\ MqttAnswer)
    PROVE  sess'.topics = sess.topics
    <1>0. sess \in Recorded /\ {"connected", "error", "reconnecting", "disconnected"} \subseteq Status
        BY TypesOfRoom DEF Status
    <1>1. \A status \in {"connected", "error", "reconnecting", "disconnected"} :
             UpdateStatus(sess, status) \in Recorded
             /\ UpdateStatus(sess, status).topics = sess.topics
        BY <1>0, RecordedSessions, TopicsStay
    <1>2. /\ RecordError(UpdateStatus(sess, "error")) \in Recorded
          /\ RecordError(UpdateStatus(sess, "error")).topics = sess.topics
        BY <1>1, RecordedSessions, TopicsStay
    <1>3. UpdateStatus(RecordError(UpdateStatus(sess, "error")), "disconnected").topics
              = sess.topics
        BY <1>0, <1>2, TopicsStay
    <1>4. ASSUME NEW e \in Events, NEW bare \in BOOLEAN, protocol = "socketio",
                 SioEvent(e, bare)
          PROVE  sess'.topics = sess.topics
        <2> DEFINE s == RecordReceived(sess, FALSE)
                   b == BufferMessage(s, Ev("message", arrived + 1))
        <2>1. s \in Recorded /\ s.topics = sess.topics
            BY <1>0, RecordedSessions, TopicsStay
        <2>2. Ev("message", arrived + 1) \in Kept
            <3>1. arrived + 1 \in 1..MaxMsgs
                BY <1>4, ProxiedAssumption DEF SioEvent, Typed, TypeOK, SioTypeOK, ProxiedTypeOK
            <3> QED
                BY <3>1, ToldEvents
        <2>3. b \in Recorded /\ b.topics = sess.topics
            BY <2>1, <2>2, RecordedSessions, TopicsStay
        <2>4. RecordReceived(b, FALSE).topics = sess.topics
            BY <2>3, TopicsStay
        <2>5. sess' \in {b, RecordReceived(b, FALSE)}
            BY <1>4 DEF SioEvent
        <2> HIDE DEF b
        <2> QED
            BY <2>3, <2>4, <2>5
    <1>5. CASE Socket
        <2>1. protocol = "socketio" /\ SioNext
            BY <1>5 DEF Socket
        <2> QED
            BY <1>0, <1>1, <1>2, <1>4, <2>1, TopicsStay
            DEF SioNext, SioConnect, SioConnectError, SioReconnectAttempt, SioDisconnect,
                SioSubscribe, SioAck, SioCleanUp, SioSend, SioDelete, SioSessionClose, gatewayVars
    <1>6. CASE Mqtt
        <2>1. protocol = "mqtt" /\ MqttNext /\ ~MqttAnswer
            BY <1>6 DEF Mqtt
        <2> QED
            BY <1>0, <1>1, <1>2, <2>1, TopicsStay
            DEF MqttNext, MqttConnect, MqttMessage, MqttError, MqttClose, BrokerServes,
                MqttRequest, PanelRequest, TakeRequest, PanelAnswered, MqttPublish, MqttDelete, MqttSessionClose,
                gatewayVars
    <1>7. CASE Amqp
        <2>1. AmqpNext
            BY <1>7 DEF Amqp
        <2> QED
            BY <1>0, <1>1, <1>3, <2>1, TopicsStay
            DEF AmqpNext, AmqpConnected, AmqpOpen, AmqpRefused, AmqpDeliver, AmqpError, AmqpClose,
                AmqpCancelled, AmqpSecondClose, AmqpConsuming, AmqpSetupStep, AmqpSetup,
                AmqpConsume, AmqpAck, AmqpPublish, AmqpDelete, AmqpSessionClose, gatewayVars
    <1>8. CASE \E k \in Clients : BrowserJoins(k) \/ BrowserReceives(k) \/ BrowserMoves(k)
        BY <1>0, <1>8, TopicsStay
        DEF BrowserJoins, ProxiedJoin, Join, BrowserReceives, ProxiedReceive, Receive,
            BrowserMoves, ProxiedDrop, ControlDrop, ProxiedReconnect, ControlReconnect,
            serverSide
    <1>9. CASE UNCHANGED vars
        BY <1>9 DEF vars, proxyVars, gatewayVars
    <1> QED
        BY <1>5, <1>6, <1>7, <1>8, <1>9 DEF Next


\* A topic is added once, and removed.
LEMMA TopicsChange ==
    ASSUME NEW s \in Recorded, Different(s.topics), NEW t \in Topics
    PROVE  /\ Different(AddTopic(s, t).topics) /\ Different(RemoveTopic(s, t).topics)
           /\ \A x : Listed(AddTopic(s, t).topics, x) <=> Listed(s.topics, x) \/ x = t
           /\ \A x : Listed(RemoveTopic(s, t).topics, x) <=> Listed(s.topics, x) /\ x # t
    <1> DEFINE list == s.topics
               new == IF \E i \in DOMAIN list : list[i] = t THEN list ELSE Append(list, t)
    <1>1. AddTopic(s, t).topics = new /\ RemoveTopic(s, t).topics = Without(list, t)
        <2>1. "topics" \in DOMAIN s
            BY DEF Recorded, SessionType
        <2>2. AddTopic(s, t).topics = new
            BY <2>1 DEF AddTopic, Recorded, SessionType
        <2>3. RemoveTopic(s, t).topics = Without(list, t)
            BY <2>1 DEF RemoveTopic, Recorded, SessionType
        <2> QED
            BY <2>2, <2>3
    <1>2. list \in Seq(Topics)
        BY DEF Recorded
    <1>3. Different(new) /\ \A x : Listed(new, x) <=> Listed(list, x) \/ x = t
        BY <1>2, AddLists
    <1>4. /\ Different(Without(list, t))
          /\ \A x : Listed(Without(list, t), x) <=> Listed(list, x) /\ x # t
        BY <1>2, WithoutLists
    <1> HIDE DEF list, new
    <1>5. /\ Different(AddTopic(s, t).topics)
          /\ \A x : Listed(AddTopic(s, t).topics, x) <=> Listed(list, x) \/ x = t
        BY <1>1, <1>3
    <1>6. /\ Different(RemoveTopic(s, t).topics)
          /\ \A x : Listed(RemoveTopic(s, t).topics, x) <=> Listed(list, x) /\ x # t
        BY <1>1, <1>4
    <1> QED
        BY <1>5, <1>6 DEF list

\* The ledger is kept by every job, ...
LEMMA LedgerStep == Course /\ Typed /\ Ledger /\ [Next]_vars => Ledger'
    <1> SUFFICES ASSUME Course, Typed, Ledger, [Next]_vars PROVE Ledger'
        OBVIOUS
    <1>0. sess \in Recorded /\ sess.topics \in Seq(Topics)
        BY TypesOfRoom DEF Recorded
    <1>a. protocol = "mqtt" => answers \in Seq(Answer) /\ requests \in Seq(Request)
        BY DEF Typed, TypeOK, MqttTypeOK
    <1>g. \A t : Grants(t) \in SUBSET Effective(t)
        BY DEF Grants
    <1>1. CASE protocol = "mqtt" /\ Mqtt /\ MqttAnswer
        <2> DEFINE a == Head(answers)
        <2>1. /\ link = "online" /\ link' = "online" /\ answers # <<>> /\ answers' = Tail(answers)
              /\ granted' = granted /\ protocol' = "mqtt"
              /\ \/ ~a.ok /\ UNCHANGED sess
                 \/ a.ok /\ a.op = "subscribe" /\ sess' = AddTopic(sess, a.topic)
                 \/ a.ok /\ a.op = "unsubscribe" /\ sess' = RemoveTopic(sess, a.topic)
            BY <1>1 DEF MqttAnswer, Mqtt
        <2>2. a \in Answer
            BY <1>1, <1>a, <2>1, HeadTailProperties
        <2>3. a.topic \in Topics /\ a.op \in {"subscribe", "unsubscribe"}
            BY <2>2 DEF Answer
        <2>4. Different(sess'.topics)
            <3>1. CASE UNCHANGED sess
                BY <3>1 DEF Ledger
            <3>2. CASE sess' = AddTopic(sess, a.topic)
                BY <1>0, <2>3, <3>2, TopicsChange DEF Ledger
            <3>3. CASE sess' = RemoveTopic(sess, a.topic)
                BY <1>0, <2>3, <3>3, TopicsChange DEF Ledger
            <3> QED
                BY <2>1, <3>1, <3>2, <3>3
        <2>5. ASSUME NEW t \in Topics
              PROVE  IF a \in Effective(t) THEN Listed(sess'.topics, t) <=> a \in Grants(t)
                     ELSE Listed(sess'.topics, t) <=> Listed(sess.topics, t)
            <3>1. CASE ~a.ok /\ UNCHANGED sess
                BY <3>1 DEF Effective
            <3>2. CASE a.ok /\ a.op = "subscribe" /\ sess' = AddTopic(sess, a.topic)
                <4>1. Listed(sess'.topics, t) <=> Listed(sess.topics, t) \/ t = a.topic
                    BY <1>0, <2>3, <3>2, TopicsChange DEF Ledger
                <4>2. /\ a \in Effective(t) <=> t = a.topic
                      /\ a \in Grants(t) <=> t = a.topic
                    BY <2>2, <3>2 DEF Effective, Grants
                <4> QED
                    BY <4>1, <4>2
            <3>3. CASE a.ok /\ a.op = "unsubscribe" /\ sess' = RemoveTopic(sess, a.topic)
                <4>1. Listed(sess'.topics, t) <=> Listed(sess.topics, t) /\ t # a.topic
                    BY <1>0, <2>3, <3>3, TopicsChange DEF Ledger
                <4>2. (a \in Effective(t) <=> t = a.topic) /\ a \notin Grants(t)
                    BY <2>2, <3>3 DEF Effective, Grants
                <4> QED
                    BY <4>1, <4>2
            <3> QED
                BY <2>1, <3>1, <3>2, <3>3
        <2>6. ASSUME NEW t \in Topics
              PROVE  Ends(answers', Grants(t), Effective(t), Listed(sess'.topics, t))
                         <=> t \in granted'
            <3>1. Ends(Tail(answers), Grants(t), Effective(t), Listed(sess'.topics, t))
                      <=> Ends(answers, Grants(t), Effective(t), Listed(sess.topics, t))
                BY <1>1, <1>a, <1>g, <2>1, <2>5, EndsTail
            <3> QED
                BY <1>1, <2>1, <3>1 DEF Ledger
        <2> QED
            BY <2>1, <2>4, <2>6 DEF Ledger
    <1>2. ASSUME ~(Mqtt /\ MqttAnswer) PROVE sess'.topics = sess.topics
        BY <1>2, TopicsOnlyByAnswers
    <1>3. CASE protocol = "mqtt" /\ Mqtt /\ BrokerServes /\ ~MqttAnswer
        <2> DEFINE r == Head(requests)
        <2>1. PICK ok \in BOOLEAN :
                 /\ r.op = "unsubscribe" => ok
                 /\ answers' = Append(answers, [op |-> r.op, topic |-> r.topic, ok |-> ok])
                 /\ granted' = CASE r.op = "unsubscribe" -> granted \ {r.topic}
                                 [] r.op = "subscribe" /\ ok -> granted \cup {r.topic}
                                 [] OTHER -> granted
            BY <1>3 DEF BrokerServes
        <2>2. /\ link = "online" /\ link' = "online" /\ requests # <<>>
              /\ sess'.topics = sess.topics /\ protocol' = "mqtt"
            BY <1>2, <1>3 DEF BrokerServes, Mqtt
        <2>3. r \in Request
            BY <1>3, <1>a, <2>2, HeadTailProperties
        <2> DEFINE a == [op |-> r.op, topic |-> r.topic, ok |-> ok]
        <2>4. /\ a \in Answer /\ r.op \in {"subscribe", "unsubscribe"} /\ r.topic \in Topics
              /\ a.op = r.op /\ a.topic = r.topic /\ a.ok = ok
            BY <2>3 DEF Request, Answer
        <2>5. granted' = IF r.op = "unsubscribe" THEN granted \ {r.topic}
                         ELSE IF ok THEN granted \cup {r.topic} ELSE granted
            BY <2>1, <2>4
        <2> HIDE DEF r, a
        <2>6. ASSUME NEW t \in Topics
              PROVE  Ends(answers', Grants(t), Effective(t), Listed(sess'.topics, t))
                         <=> t \in granted'
            <3>1. Ends(Append(answers, a), Grants(t), Effective(t), Listed(sess.topics, t))
                      <=> IF a \in Effective(t) THEN a \in Grants(t)
                          ELSE Ends(answers, Grants(t), Effective(t), Listed(sess.topics, t))
                BY <1>3, <1>a, <1>g, <2>4, EndsAppend
            <3>2. Ends(answers, Grants(t), Effective(t), Listed(sess.topics, t)) <=> t \in granted
                BY <1>3, <2>2 DEF Ledger
            <3>3. IF a \in Effective(t) THEN t \in granted' <=> a \in Grants(t)
                  ELSE t \in granted' <=> t \in granted
                BY <2>1, <2>4, <2>5 DEF Effective, Grants
            <3>4. answers' = Append(answers, a)
                BY <2>1 DEF a
            <3> QED
                BY <2>2, <3>1, <3>2, <3>3, <3>4
        <2> QED
            BY <2>2, <2>6 DEF Ledger
    <1>4. CASE protocol = "mqtt" /\ Mqtt /\ ~BrokerServes /\ ~MqttAnswer
        <2>1. sess'.topics = sess.topics /\ protocol' = "mqtt"
            BY <1>2, <1>4 DEF Mqtt
        <2>2. CASE MqttConnect
            <3>1. link = "connecting" /\ link' = "online" /\ answers' = answers /\ granted' = granted
                BY <2>2 DEF MqttConnect
            <3>2. answers = <<>> /\ granted = {} /\ sess.topics = <<>>
                BY <1>4, <3>1 DEF Ledger
            <3>3. \A t : ~Ends(<<>>, Grants(t), Effective(t), Listed(<<>>, t))
                BY DEF Ends, Listed
            <3> QED
                BY <2>1, <3>1, <3>2, <3>3 DEF Ledger
        <2>3. CASE ~MqttConnect
            <3>1. \/ UNCHANGED <<answers, granted, link>>
                  \/ link' \notin {"connecting", "online"}
                <4>1. CASE MqttMessage \/ MqttPublish
                    BY <4>1 DEF MqttMessage, MqttPublish, mqttVars
                <4>2. CASE MqttError \/ MqttClose
                    BY <4>2 DEF MqttError, MqttClose
                <4>3. CASE \/ \E r \in Request :
                                 MqttRequest(r) \/ \E k \in Clients : PanelRequest(k, r)
                           \/ \E call \in asked : PanelAnswered(call)
                    BY <4>3 DEF MqttRequest, PanelRequest, TakeRequest, PanelAnswered
                <4>4. CASE MqttDelete
                    <5>1. link \in MqttLink
                        BY <1>4 DEF Course, MqttCourse
                    <5> QED
                        BY <4>4, <5>1 DEF MqttDelete, MqttSessionClose, MqttLink
                <4> QED
                    BY <1>4, <2>3, <4>1, <4>2, <4>3, <4>4 DEF Mqtt, MqttNext
            <3>2. CASE UNCHANGED <<answers, granted, link>>
                BY <1>4, <2>1, <3>2 DEF Ledger
            <3>3. CASE link' \notin {"connecting", "online"}
                BY <2>1, <3>3 DEF Ledger
            <3> QED
                BY <3>1, <3>2, <3>3
        <2> QED
            BY <2>2, <2>3
    <1>5. CASE ~Mqtt
        <2>1. \/ protocol # "mqtt" /\ protocol' # "mqtt"
              \/ UNCHANGED <<answers, granted, link, protocol>>
            <3>1. CASE \E k \in Clients : BrowserJoins(k) \/ BrowserReceives(k) \/ BrowserMoves(k)
                BY <3>1, BrowsersFollow DEF mqttVars
            <3>2. CASE Socket \/ Amqp
                BY <3>2 DEF Socket, Amqp
            <3>3. CASE UNCHANGED vars
                BY <3>3 DEF vars, proxyVars, mqttVars
            <3> QED
                BY <1>5, <3>1, <3>2, <3>3 DEF Next
        <2> QED
            BY <1>2, <1>5, <2>1 DEF Ledger
    <1> QED
        BY <1>1, <1>3, <1>4, <1>5 DEF Mqtt


\* ... and there at the start; so it always holds.
LEMMA LedgerCorrect == Spec => []Ledger
    <1>1. Init => Ledger
        BY DEF Init, ProxiedInit, GatewayInit, NewSession, SioInit, MqttInit, AmqpInit, MqttIdle,
               Ledger, Different
    <1> QED
        BY <1>1, CourseCorrect, TypedCorrect, LedgerStep, PTL DEF Spec

\* In every run of a proxied MQTT connection, for any topics, any number of
\* calls and whatever the broker grants, refuses and in which order: when no
\* packet is on its way, the topics the session lists are those the broker
\* delivers (mqtt.service.ts:151-226).
THEOREM TopicsAreThoseGranted == Spec => []TopicsAreGranted
    <1>1. ASSUME Course, Typed, Ledger PROVE TopicsAreGranted
        <2> SUFFICES ASSUME protocol = "mqtt", link = "online", answers = <<>>
                     PROVE  {sess.topics[i] : i \in DOMAIN sess.topics} = granted
            BY DEF TopicsAreGranted
        <2>1. /\ granted \in SUBSET Topics
              /\ \A i \in DOMAIN sess.topics : sess.topics[i] \in Topics
            <3>1. sess.topics \in Seq(Topics)
                BY <1>1, TypesOfRoom DEF Recorded
            <3> QED
                BY <1>1, <3>1, ElementOfSeq, LenProperties DEF Typed, TypeOK, MqttTypeOK
        <2>2. \A t \in Topics : Listed(sess.topics, t) <=> t \in granted
            BY <1>1 DEF Ledger, Ends
        <2> QED
            BY <2>1, <2>2 DEF Listed
    <1> QED
        BY <1>1, CourseCorrect, TypedCorrect, LedgerCorrect, PTL

\* What a tab will show of topic t once it received everything.
About(t) == {Ev("subscribed", t), Ev("unsubscribed", t)}
Adding(t) == {Ev("subscribed", t)}
WillShow(k, t) == Ends(inbox[k], Adding(t), About(t), t \in topicsShown[k])
Pending(k, t) == \E i \in DOMAIN inbox[k] : inbox[k][i] \in About(t)

\* The topics a tab shows, strengthened until it is inductive.
Known ==
    /\ \A k \in Clients \ (room \cup dropped) : topicsShown[k] \subseteq guessed[k]
    /\ protocol = "mqtt" /\ link \in {"connecting", "online"} =>
         \A k \in room \ dropped, t \in Topics :
            t \notin guessed[k] \/ Pending(k, t) =>
                (WillShow(k, t) <=> Listed(sess.topics, t))

\* An event about no topic leaves what is pending and what will be shown; an
\* event about a topic decides what will be shown of it.
LEMMA TellingTopics ==
    ASSUME inbox \in [Clients -> Seq(Event)], NEW k \in Clients, NEW e \in Event,
           inbox'[k] = Append(inbox[k], e), UNCHANGED topicsShown, NEW t
    PROVE  /\ e \notin About(t) => /\ WillShow(k, t)' <=> WillShow(k, t)
                                   /\ Pending(k, t)' <=> Pending(k, t)
           /\ e \in About(t) => (WillShow(k, t)' <=> e \in Adding(t))
    <1>1. inbox[k] \in Seq(Event) /\ Adding(t) \in SUBSET About(t)
        BY DEF Adding, About
    <1>2. WillShow(k, t)' <=> IF e \in About(t) THEN e \in Adding(t) ELSE WillShow(k, t)
        <2>1. \A now : Ends(Append(inbox[k], e), Adding(t), About(t), now) <=>
                  IF e \in About(t) THEN e \in Adding(t)
                  ELSE Ends(inbox[k], Adding(t), About(t), now)
            BY <1>1, EndsAppend
        <2> QED
            BY <2>1 DEF WillShow
    <1>3. e \notin About(t) => (Pending(k, t)' <=> Pending(k, t))
        <2>1. /\ DOMAIN inbox[k] = 1..Len(inbox[k]) /\ Len(inbox[k]) \in Nat
              /\ DOMAIN inbox'[k] = 1..(Len(inbox[k]) + 1)
              /\ inbox'[k][Len(inbox[k]) + 1] = e
              /\ \A i \in 1..Len(inbox[k]) : inbox'[k][i] = inbox[k][i]
            BY <1>1, LenProperties, AppendProperties
        <2>2. DOMAIN inbox'[k] = DOMAIN inbox[k] \cup {Len(inbox[k]) + 1}
            BY <2>1
        <2> QED
            BY <2>1, <2>2 DEF Pending
    <1> QED
        BY <1>2, <1>3

\* Receiving an event leaves what will be shown.
LEMMA ReceivingTopics ==
    ASSUME inbox \in [Clients -> Seq(Event)], topicsShown \in [Clients -> SUBSET Topics],
           guessed \in [Clients -> SUBSET Topics],
           NEW k \in Clients, ProxiedReceive(k), NEW t
    PROVE  /\ WillShow(k, t)' <=> WillShow(k, t)
           /\ t \notin guessed'[k] \/ Pending(k, t)' => t \notin guessed[k] \/ Pending(k, t)
    <1> DEFINE e == Head(inbox[k])
    <1>1. /\ inbox[k] \in Seq(Event) /\ inbox[k] # <<>> /\ Adding(t) \in SUBSET About(t)
          /\ inbox'[k] = Tail(inbox[k])
          /\ topicsShown'[k] = TopicsAfter(topicsShown[k], e)
          /\ guessed'[k] = guessed[k] \ TopicsOf(e)
        BY DEF ProxiedReceive, Receive, Adding, About
    <1>2. e \in Event
        BY <1>1, HeadTailProperties
    <1>3. e \in About(t) <=> e.type \in {"subscribed", "unsubscribed"} /\ e.id = t
        BY <1>2 DEF About, Ev, Event
    <1>4. e \in Adding(t) <=> e.type = "subscribed" /\ e.id = t
        BY <1>2 DEF Adding, Ev, Event
    <1> HIDE DEF e
    <1>5. IF e \in About(t) THEN t \in topicsShown'[k] <=> e \in Adding(t)
          ELSE t \in topicsShown'[k] <=> t \in topicsShown[k]
        BY <1>1, <1>3, <1>4 DEF TopicsAfter
    <1>6. WillShow(k, t)' <=> WillShow(k, t)
        <2>1. Ends(Tail(inbox[k]), Adding(t), About(t), t \in topicsShown'[k])
                  <=> Ends(inbox[k], Adding(t), About(t), t \in topicsShown[k])
            <3> DEFINE now == t \in topicsShown[k]  then == t \in topicsShown'[k]
            <3>1. IF Head(inbox[k]) \in About(t) THEN then <=> Head(inbox[k]) \in Adding(t)
                  ELSE then <=> now
                BY <1>5 DEF e
            <3> HIDE DEF now, then
            <3>2. Ends(Tail(inbox[k]), Adding(t), About(t), then)
                      <=> Ends(inbox[k], Adding(t), About(t), now)
                BY <1>1, <3>1, EndsTail
            <3> QED
                BY <3>2 DEF now, then
        <2> QED
            BY <1>1, <2>1 DEF WillShow
    <1>7. t \notin guessed'[k] => t \notin guessed[k] \/ e \in About(t)
        BY <1>1, <1>3 DEF TopicsOf
    <1>8. e \in About(t) \/ Pending(k, t)' => Pending(k, t)
        <2>1. /\ DOMAIN inbox[k] = 1..Len(inbox[k]) /\ Len(inbox[k]) \in Nat \ {0}
              /\ e = inbox[k][1]
              /\ DOMAIN inbox'[k] = 1..(Len(inbox[k]) - 1)
              /\ \A i \in 1..(Len(inbox[k]) - 1) : inbox'[k][i] = inbox[k][i + 1]
            BY <1>1, LenProperties, HeadTailProperties, EmptySeq DEF e
        <2>2. 1 \in DOMAIN inbox[k] /\ \A i \in DOMAIN inbox'[k] : i + 1 \in DOMAIN inbox[k]
            BY <2>1
        <2> QED
            BY <2>1, <2>2 DEF Pending
    <1> QED
        BY <1>6, <1>7, <1>8


\* A browser that joins a connected session is told each of its topics, once.
LEMMA ReplayTopics ==
    ASSUME NEW s \in Recorded, s.status = "connected", Different(s.topics), NEW t, NEW shown
    PROVE  /\ (\E i \in DOMAIN Replay(s) : Replay(s)[i] \in About(t)) <=> Listed(s.topics, t)
           /\ Ends(Replay(s), Adding(t), About(t), t \in shown)
                 <=> Listed(s.topics, t) \/ t \in shown
    <1> DEFINE list == s.topics
               rest == [i \in 1..Len(list) |-> Ev("subscribed", list[i])]
               first == <<Ev("open", 0)>> \o s.buffered
               q == first \o rest
    <1>1. /\ s.buffered \in Seq(Kept) /\ list \in Seq(Topics)
          /\ DOMAIN list = 1..Len(list) /\ Len(list) \in Nat
          /\ \A i \in 1..Len(list) : list[i] \in Topics
        BY LenProperties, ElementOfSeq DEF Recorded
    <1>2. Replay(s) = q
        BY DEF Replay
    <1>3. Ev("open", 0) \in Told /\ Kept \subseteq Told
        BY ToldEvents, ProxiedAssumption DEF StatusEvents, Kept, Told, Event, EventType
    <1>4. s.buffered \in Seq(Told) /\ <<Ev("open", 0)>> \in Seq(Told)
        BY <1>1, <1>3, SeqMonotonic, ToldSeqs
    <1>5. /\ first \in Seq(Told) /\ Len(first) \in Nat
          /\ \A i \in 1..Len(first) : first[i].type \in {"open", "message"}
        <2>1. /\ first \in Seq(Told) /\ Len(first) = 1 + Len(s.buffered)
              /\ Len(s.buffered) \in Nat
              /\ \A i \in 1..Len(first) :
                    first[i] = IF i <= 1 THEN <<Ev("open", 0)>>[i] ELSE s.buffered[i - 1]
            BY <1>4, ConcatProperties, LenProperties
        <2>2. \A i \in 1..Len(s.buffered) : s.buffered[i].type = "message"
            <3>1. \A i \in 1..Len(s.buffered) : s.buffered[i] \in Kept
                BY <1>1, ElementOfSeq
            <3> QED
                BY <3>1 DEF Kept
        <2>3. ASSUME NEW i \in 1..Len(first) PROVE first[i].type \in {"open", "message"}
            <3>1. CASE i = 1
                BY <2>1, <3>1 DEF Ev
            <3>2. CASE i # 1
                <4>1. i - 1 \in 1..Len(s.buffered) /\ ~(i <= 1)
                    BY <2>1, <3>2
                <4> QED
                    BY <2>1, <2>2, <4>1
            <3> QED
                BY <3>1, <3>2
        <2> QED
            BY <2>1, <2>3
    <1>6. /\ rest \in Seq(Told) /\ Len(rest) = Len(list)
          /\ \A i \in 1..Len(list) : rest[i] = Ev("subscribed", list[i])
        <2>1. \A i \in 1..Len(list) : Ev("subscribed", list[i]) \in Told
            BY <1>1, ToldEvents
        <2>2. rest \in [1..Len(list) -> Told]
            BY <2>1
        <2>3. rest \in Seq(Told) /\ DOMAIN rest = 1..Len(list)
            BY <1>1, <2>2
        <2>4. Len(rest) = Len(list)
            BY <1>1, <2>3, LenProperties
        <2> QED
            BY <2>3, <2>4
    <1> HIDE DEF first, rest
    <1> DEFINE n == Len(first)
    <1>7. /\ DOMAIN q = 1..(n + Len(list)) /\ n \in Nat
          /\ \A i \in 1..(n + Len(list)) : q[i] = IF i <= n THEN first[i] ELSE rest[i - n]
        <2>1. /\ q \in Seq(Told) /\ Len(q) = Len(first) + Len(rest)
              /\ \A i \in 1..Len(q) : q[i] = IF i <= Len(first) THEN first[i]
                                            ELSE rest[i - Len(first)]
            <3>1. \A x, y \in Seq(Told) :
                     /\ x \o y \in Seq(Told) /\ Len(x \o y) = Len(x) + Len(y)
                     /\ \A i \in 1..Len(x \o y) : (x \o y)[i] = IF i <= Len(x) THEN x[i]
                                                                ELSE y[i - Len(x)]
                BY ConcatProperties
            <3> QED
                BY <1>5, <1>6, <3>1
        <2>2. DOMAIN q = 1..Len(q)
            BY <2>1, LenProperties
        <2>3. Len(q) = n + Len(list) /\ n \in Nat
            BY <1>5, <1>6, <2>1
        <2> HIDE DEF q
        <2>4. \A i \in 1..Len(q) : q[i] = IF i <= n THEN first[i] ELSE rest[i - n]
            BY <2>1
        <2> HIDE DEF n
        <2> QED
            BY <2>2, <2>3, <2>4
    <1> HIDE DEF n, q
    <1>8. ASSUME NEW i \in DOMAIN q, i <= n PROVE q[i] \notin About(t)
        <2>1. q[i].type \in {"open", "message"}
            BY <1>5, <1>7, <1>8 DEF n
        <2> QED
            BY <2>1 DEF About, Ev
    <1>9. ASSUME NEW i \in DOMAIN q, ~(i <= n)
          PROVE  i - n \in DOMAIN list /\ q[i] = Ev("subscribed", list[i - n])
        <2>1. i - n \in 1..Len(list)
            BY <1>1, <1>7, <1>9
        <2> QED
            BY <1>1, <1>6, <1>7, <1>9, <2>1
    <1>10. \A x : /\ Ev("subscribed", x) \in About(t) <=> x = t
                  /\ Ev("subscribed", x) \in Adding(t) <=> x = t
        BY DEF About, Adding, Ev
    <1>11. ASSUME NEW i \in DOMAIN q, q[i] \in About(t)
           PROVE  ~(i <= n) /\ i - n \in DOMAIN list /\ list[i - n] = t /\ q[i] \in Adding(t)
        <2>1. ~(i <= n)
            BY <1>8, <1>11
        <2>2. i - n \in DOMAIN list /\ q[i] = Ev("subscribed", list[i - n])
            BY <1>9, <2>1
        <2> QED
            BY <1>10, <1>11, <2>1, <2>2
    <1>12. ASSUME NEW i \in DOMAIN list, list[i] = t
           PROVE  n + i \in DOMAIN q /\ q[n + i] \in Adding(t) /\ q[n + i] \in About(t)
        <2>1. n + i \in DOMAIN q /\ ~(n + i <= n) /\ (n + i) - n = i
            BY <1>1, <1>7
        <2> QED
            BY <1>9, <1>10, <1>12, <2>1
    <1>13. ASSUME NEW i \in DOMAIN q, NEW j \in DOMAIN q, q[i] \in About(t), q[j] \in About(t)
           PROVE  ~(j > i)
        <2>1. i - n = j - n
            BY <1>11, <1>13 DEF Different
        <2> QED
            BY <1>7, <2>1
    <1>14. (\E i \in DOMAIN q : q[i] \in About(t)) <=> Listed(list, t)
        BY <1>11, <1>12 DEF Listed
    <1>15. (\E i \in DOMAIN q : q[i] \in Adding(t) /\ \A j \in DOMAIN q : j > i => q[j] \notin About(t))
              <=> Listed(list, t)
        <2>1. Adding(t) \subseteq About(t)
            BY DEF Adding, About
        <2> QED
            BY <1>11, <1>12, <1>13, <2>1 DEF Listed
    <1> QED
        BY <1>2, <1>14, <1>15 DEF Ends

\* A job that emits one event, which says what it changed of the topics.
LEMMA KnownEmit ==
    ASSUME Course, Typed, Known, NEW e \in Event, Emit(e),
           UNCHANGED <<room, dropped, topicsShown, guessed, protocol>>,
           link' \in {"connecting", "online"} => link \in {"connecting", "online"},
           \A t \in Topics : IF e \in About(t)
                             THEN Listed(sess'.topics, t) <=> e \in Adding(t)
                             ELSE Listed(sess'.topics, t) <=> Listed(sess.topics, t)
    PROVE  Known'
    <1>1. inbox \in [Clients -> Seq(Event)] /\ room \subseteq Clients
        BY TypesOfRoom DEF GatewayTypeOK
    <1>2. \A k \in room : inbox'[k] = Append(inbox[k], e)
        <2>1. \A k \in room : inbox'[k] = inbox[k] \o <<e>>
            BY <1>1 DEF Emit, EmitAll
        <2> QED
            BY <1>1, <2>1, AppendIsConcat
    <1>3. ASSUME NEW k \in room, NEW t \in Topics
          PROVE  /\ e \notin About(t) => /\ WillShow(k, t)' <=> WillShow(k, t)
                                         /\ Pending(k, t)' <=> Pending(k, t)
                 /\ e \in About(t) => (WillShow(k, t)' <=> e \in Adding(t))
        BY <1>1, <1>2, TellingTopics
    <1> QED
        BY <1>1, <1>3 DEF Known

\* A job that emits nothing, and leaves the topics alone.
LEMMA KnownSilent ==
    ASSUME Known, UNCHANGED <<inbox, room, dropped, topicsShown, guessed, protocol>>,
           link' \in {"connecting", "online"} => link \in {"connecting", "online"},
           sess'.topics = sess.topics
    PROVE  Known'
    <1>1. \A k, t : /\ WillShow(k, t)' <=> WillShow(k, t)
                    /\ Pending(k, t)' <=> Pending(k, t)
        BY DEF WillShow, Pending
    <1> QED
        BY <1>1 DEF Known


\* The jobs of an MQTT connection.
LEMMA MqttKnown == Course /\ Typed /\ Ledger /\ Known /\ Mqtt => Known'
    <1> SUFFICES ASSUME Course, Typed, Ledger, Known, Mqtt PROVE Known'
        OBVIOUS
    <1>0. /\ protocol = "mqtt" /\ protocol' = "mqtt" /\ MqttNext /\ link \in MqttLink
          /\ sess \in Recorded /\ MqttTypeOK
        BY TypesOfRoom DEF Course, MqttCourse, Mqtt, Typed, TypeOK
    <1>1. ~MqttAnswer => sess'.topics = sess.topics
        BY TopicsOnlyByAnswers DEF Next
    <1> USE DEF browsers, told, topicView
    <1>e. \A type \in EventType \ {"subscribed", "unsubscribed"}, n \in Nat :
             Ev(type, n) \in Event /\ \A t : Ev(type, n) \notin About(t)
        BY DEF Ev, Event, About
    <1>t. {"open", "message", "sent"} \subseteq EventType \ {"subscribed", "unsubscribed"}
        BY DEF EventType, StatusEvents
    <1>2. CASE (MqttConnect \/ MqttMessage \/ MqttPublish) /\ ~MqttAnswer
        <2>1. arrived + 1 \in Nat
            BY <1>0 DEF MqttTypeOK, ProxiedTypeOK
        <2>2. PICK type \in EventType \ {"subscribed", "unsubscribed"}, n \in Nat :
                 Emit(Ev(type, n))
            BY <1>2, <1>t, <2>1 DEF MqttConnect, MqttMessage, MqttPublish
        <2>3. Ev(type, n) \in Event /\ \A t : Ev(type, n) \notin About(t)
            BY <1>e
        <2>4. /\ UNCHANGED <<room, dropped, topicsShown, guessed>>
              /\ link \in {"connecting", "online"}
            BY <1>2 DEF MqttConnect, MqttMessage, MqttPublish
        <2> QED
            BY <1>0, <1>1, <1>2, <2>2, <2>3, <2>4, KnownEmit
    <1>3. CASE MqttAnswer
        <2> DEFINE a == Head(answers)
        <2>1. /\ UNCHANGED <<room, dropped, topicsShown, guessed, link>>
              /\ answers \in Seq(Answer) /\ answers # <<>>
              /\ \/ UNCHANGED <<sess, inbox>>
                 \/ sess' = AddTopic(sess, a.topic) /\ Emit(Ev("subscribed", a.topic))
                 \/ sess' = RemoveTopic(sess, a.topic) /\ Emit(Ev("unsubscribed", a.topic))
            BY <1>0, <1>3 DEF MqttAnswer, MqttTypeOK
        <2>2. a.topic \in Topics
            <3>1. a \in Answer
                BY <2>1, HeadTailProperties
            <3> QED
                BY <3>1 DEF Answer
        <2> HIDE DEF a
        <2>3. CASE UNCHANGED <<sess, inbox>>
            BY <1>0, <2>1, <2>3, KnownSilent
        <2>4. CASE sess' = AddTopic(sess, a.topic) /\ Emit(Ev("subscribed", a.topic))
            <3> DEFINE e == Ev("subscribed", a.topic)
            <3>1. e \in Event
                BY <2>2, ToldEvents
            <3>2. \A t : /\ e \in About(t) <=> t = a.topic
                         /\ e \in Adding(t) <=> t = a.topic
                BY DEF About, Adding, Ev
            <3>3. \A t : Listed(sess'.topics, t) <=> Listed(sess.topics, t) \/ t = a.topic
                BY <1>0, <2>2, <2>4, TopicsChange DEF Ledger
            <3>4. Emit(e)
                BY <2>4
            <3> HIDE DEF e
            <3> QED
                BY <1>0, <2>1, <3>1, <3>2, <3>3, <3>4, KnownEmit
        <2>5. CASE sess' = RemoveTopic(sess, a.topic) /\ Emit(Ev("unsubscribed", a.topic))
            <3> DEFINE e == Ev("unsubscribed", a.topic)
            <3>1. e \in Event
                BY <2>2, ToldEvents
            <3>2. \A t : (e \in About(t) <=> t = a.topic) /\ e \notin Adding(t)
                BY DEF About, Adding, Ev
            <3>3. \A t : Listed(sess'.topics, t) <=> Listed(sess.topics, t) /\ t # a.topic
                BY <1>0, <2>2, <2>5, TopicsChange DEF Ledger
            <3>4. Emit(e)
                BY <2>5
            <3> HIDE DEF e
            <3> QED
                BY <1>0, <2>1, <3>1, <3>2, <3>3, <3>4, KnownEmit
        <2> QED
            BY <2>1, <2>3, <2>4, <2>5
    <1>4. CASE (MqttError \/ MqttClose \/ MqttDelete) /\ ~MqttAnswer
        <2>1. /\ UNCHANGED <<room, dropped, topicsShown, guessed>>
              /\ link' \notin {"connecting", "online"}
            BY <1>0, <1>4 DEF MqttError, MqttClose, MqttDelete, MqttSessionClose, MqttLink
        <2> QED
            BY <2>1 DEF Known
    <1>5. CASE (\/ BrokerServes
                \/ \E r \in Request : MqttRequest(r) \/ \E k \in Clients : PanelRequest(k, r))
               /\ ~MqttAnswer
        <2>1. UNCHANGED <<inbox, room, dropped, topicsShown, guessed, link>>
            BY <1>5 DEF BrokerServes, MqttRequest, PanelRequest, TakeRequest, gatewayVars
        <2> QED
            BY <1>0, <1>1, <1>5, <2>1, KnownSilent
    <1>6. CASE (\E call \in asked : PanelAnswered(call)) /\ ~MqttAnswer
        <2>1. PICK call \in asked : PanelAnswered(call)
            BY <1>6
        <2> DEFINE c == call.client  topic == call.request.topic
        <2>2. c \in Clients /\ topic \in Topics
            BY <1>0, <2>1 DEF MqttTypeOK, Request
        <2>3. UNCHANGED <<sess, inbox, room, dropped, link>>
            BY <2>1 DEF PanelAnswered, gatewayVars
        <2>4. \/ UNCHANGED <<topicsShown, guessed>>
              \/ /\ \/ topicsShown' = [topicsShown EXCEPT ![c] = @ \cup {topic}]
                    \/ topicsShown' = [topicsShown EXCEPT ![c] = @ \ {topic}]
                 /\ guessed' = [guessed EXCEPT ![c] = @ \cup {topic}]
            BY <2>1 DEF PanelAnswered
        <2> HIDE DEF c, topic
        <2>5. topicsShown \in [Clients -> SUBSET Topics] /\ guessed \in [Clients -> SUBSET Topics]
            BY TypesOfRoom
        <2>6. \A k \in Clients : \A t :
                 \/ (t \in topicsShown'[k] <=> t \in topicsShown[k])
                        /\ (t \in guessed'[k] <=> t \in guessed[k])
                 \/ k = c /\ t = topic /\ t \in guessed'[k]
            BY <2>2, <2>4, <2>5
        <2>7. \A k, t : Pending(k, t)' <=> Pending(k, t)
            BY <2>3 DEF Pending
        <2>8. ASSUME NEW k \in Clients, NEW t,
                     t \notin guessed'[k] \/ Pending(k, t)'
              PROVE  /\ t \notin guessed[k] \/ Pending(k, t)
                     /\ WillShow(k, t)' <=> WillShow(k, t)
            <3>1. CASE Pending(k, t)
                BY <2>3, <3>1 DEF Pending, WillShow, Ends
            <3>2. CASE t \notin guessed'[k]
                <4>1. (t \in topicsShown'[k] <=> t \in topicsShown[k]) /\ t \notin guessed[k]
                    BY <2>6, <3>2
                <4> QED
                    BY <2>3, <4>1 DEF WillShow, Ends
            <3> QED
                BY <2>7, <2>8, <3>1, <3>2
        <2>9. ASSUME NEW k \in Clients \ (room' \cup dropped')
              PROVE  topicsShown'[k] \subseteq guessed'[k]
            BY <2>3, <2>6 DEF Known
        <2>10. room \subseteq Clients
            BY TypesOfRoom DEF GatewayTypeOK
        <2> QED
            BY <1>0, <2>3, <2>8, <2>9, <2>10 DEF Known
    <1> QED
        BY <1>0, <1>2, <1>3, <1>4, <1>5, <1>6 DEF MqttNext

\* Browsers that join, receive, drop and come back.
LEMMA BrowsersKnown ==
    ASSUME Course, Typed, Heard, Ledger, Known, NEW k \in Clients,
           BrowserJoins(k) \/ BrowserReceives(k) \/ BrowserMoves(k)
    PROVE  Known'
    <1>0. /\ sess \in Recorded /\ inbox \in [Clients -> Seq(Event)] /\ room \subseteq Clients
          /\ topicsShown \in [Clients -> SUBSET Topics]
          /\ guessed \in [Clients -> SUBSET Topics]
        BY TypesOfRoom DEF GatewayTypeOK
    <1>1. UNCHANGED <<link, protocol>> /\ sess'.topics = sess.topics
        <2>1. sess'.topics = sess.topics
            BY <1>0, TopicsStay
            DEF BrowserJoins, ProxiedJoin, Join, BrowserReceives, ProxiedReceive, Receive,
                BrowserMoves, ProxiedDrop, ControlDrop, ProxiedReconnect, ControlReconnect,
                serverSide
        <2> QED
            BY <2>1, BrowsersFollow
    <1> USE DEF topicView
    <1>2. CASE BrowserJoins(k)
        <2>1. /\ inbox' = [inbox EXCEPT ![k] = @ \o Replay(sess)]
              /\ room' = room \cup {k} /\ k \notin room
              /\ UNCHANGED <<dropped, topicsShown, guessed>>
            BY <1>2 DEF BrowserJoins, ProxiedJoin, Join
        <2>2. \A c \in Clients, t \in Topics : c # k => /\ WillShow(c, t)' <=> WillShow(c, t)
                                                        /\ Pending(c, t)' <=> Pending(c, t)
            BY <1>0, <2>1 DEF WillShow, Pending
        <2>3. ASSUME protocol = "mqtt", link \in {"connecting", "online"}, k \notin dropped,
                     NEW t \in Topics, t \notin guessed[k] \/ Pending(k, t)'
              PROVE  WillShow(k, t)' <=> Listed(sess.topics, t)
            <3>1. inbox[k] = <<>> /\ topicsShown[k] \subseteq guessed[k]
                BY <2>1, <2>3 DEF Heard, Known
            <3>2. Replay(sess) \in Seq(Told)
                BY <1>0, ToldReplay
            <3>3. inbox'[k] = Replay(sess)
                BY <1>0, <2>1, <3>1, <3>2, ConcatEmptySeq
            <3>4. CASE link = "online"
                <4>1. sess.status = "connected"
                    BY <2>3, <3>4 DEF Course, MqttCourse
                <4>2. /\ Pending(k, t)' <=> Listed(sess.topics, t)
                      /\ WillShow(k, t)' <=> Listed(sess.topics, t) \/ t \in topicsShown[k]
                    <5> DEFINE q == Replay(sess)  shown == topicsShown[k]
                    <5>1. /\ (\E i \in DOMAIN q : q[i] \in About(t)) <=> Listed(sess.topics, t)
                          /\ Ends(q, Adding(t), About(t), t \in shown)
                                <=> Listed(sess.topics, t) \/ t \in shown
                        BY <1>0, <4>1, ReplayTopics DEF Ledger
                    <5> HIDE DEF q
                    <5>2. inbox'[k] = q /\ UNCHANGED topicsShown
                        BY <2>1, <3>3 DEF q
                    <5>3. Pending(k, t)' <=> Listed(sess.topics, t)
                        BY <5>1, <5>2 DEF Pending
                    <5>4. WillShow(k, t)' <=> Ends(q, Adding(t), About(t), t \in shown)
                        BY <5>2 DEF WillShow
                    <5> QED
                        BY <5>1, <5>3, <5>4
                <4> QED
                    BY <2>3, <3>1, <4>2
            <3>5. CASE link = "connecting"
                <4>1. sess.status = "connecting" /\ sess.topics = <<>>
                    BY <2>3, <3>5 DEF Course, MqttCourse, Ledger
                <4>2. inbox'[k] = <<>>
                    BY <3>3, <4>1 DEF Replay
                <4> QED
                    BY <2>1, <2>3, <3>1, <4>1, <4>2 DEF WillShow, Ends, Pending, Listed
            <3> QED
                BY <2>3, <3>4, <3>5
        <2> QED
            BY <1>0, <1>1, <2>1, <2>2, <2>3 DEF Known
    <1>3. CASE BrowserReceives(k)
        <2>1. /\ ProxiedReceive(k) /\ inbox[k] # <<>> /\ UNCHANGED <<room, dropped>>
              /\ \A c \in Clients : c # k => /\ inbox'[c] = inbox[c]
                                             /\ topicsShown'[c] = topicsShown[c]
                                             /\ guessed'[c] = guessed[c]
            BY <1>0, <1>3 DEF BrowserReceives, ProxiedReceive, Receive, serverSide
        <2>2. \A c \in Clients, t \in Topics : c # k => /\ WillShow(c, t)' <=> WillShow(c, t)
                                                        /\ Pending(c, t)' <=> Pending(c, t)
            BY <2>1 DEF WillShow, Pending
        <2>3. \A t : /\ WillShow(k, t)' <=> WillShow(k, t)
                     /\ t \notin guessed'[k] \/ Pending(k, t)'
                            => t \notin guessed[k] \/ Pending(k, t)
            BY <1>0, <2>1, ReceivingTopics
        <2>4. k \in room \cup dropped
            BY <2>1 DEF Heard
        <2> QED
            BY <1>0, <1>1, <2>1, <2>2, <2>3, <2>4 DEF Known
    <1>4. CASE BrowserMoves(k)
        <2>1. /\ UNCHANGED <<topicsShown, guessed>>
              /\ \/ room' = room \ {k} /\ dropped' = dropped \cup {k}
                 \/ UNCHANGED <<room, dropped>>
              /\ \A c \in Clients : c # k \/ c \in room' => inbox'[c] = inbox[c]
            BY <1>0, <1>4
            DEF BrowserMoves, ProxiedDrop, ControlDrop, ProxiedReconnect, ControlReconnect
        <2>2. \A c \in Clients, t \in Topics : c \in room' => /\ WillShow(c, t)' <=> WillShow(c, t)
                                                              /\ Pending(c, t)' <=> Pending(c, t)
            BY <2>1 DEF WillShow, Pending
        <2>3. room' \subseteq room /\ dropped \subseteq dropped'
            BY <2>1
        <2>4. Clients \ (room' \cup dropped') \subseteq Clients \ (room \cup dropped)
            BY <2>1
        <2> QED
            BY <1>0, <1>1, <2>1, <2>2, <2>3, <2>4 DEF Known
    <1> QED
        BY <1>2, <1>3, <1>4

\* The topics the room knows are kept by every job, ...
LEMMA KnownStep == Course /\ Typed /\ Heard /\ Ledger /\ Known /\ [Next]_vars => Known'
    <1> SUFFICES ASSUME Course, Typed, Heard, Ledger, Known, [Next]_vars PROVE Known'
        OBVIOUS
    <1>1. CASE Mqtt
        BY <1>1, MqttKnown
    <1>2. CASE Socket \/ Amqp
        <2>1. protocol' # "mqtt"
            BY <1>2 DEF Socket, Amqp
        <2>2. UNCHANGED <<room, dropped, topicsShown, guessed>>
            <3>1. CASE Socket
                BY <3>1
                DEF Socket, SioNext, SioConnect, SioConnectError, SioReconnectAttempt,
                    SioDisconnect, SioEvent, SioSubscribe, SioAck, SioCleanUp, SioSend, SioDelete, SioSessionClose,
                    browsers, told, gatewayVars, topicView
            <3>2. CASE Amqp
                BY <3>2
                DEF Amqp, AmqpNext, AmqpConnected, AmqpOpen, AmqpRefused, AmqpDeliver, AmqpError, AmqpClose,
                    AmqpCancelled, AmqpSecondClose, AmqpConsuming, AmqpSetupStep, AmqpSetup,
                    AmqpConsume, AmqpAck, AmqpPublish, AmqpDelete, AmqpSessionClose, browsers, told, gatewayVars,
                    topicView
            <3> QED
                BY <1>2, <3>1, <3>2
        <2> QED
            BY <2>1, <2>2 DEF Known
    <1>3. CASE \E k \in Clients : BrowserJoins(k) \/ BrowserReceives(k) \/ BrowserMoves(k)
        BY <1>3, BrowsersKnown
    <1>4. CASE UNCHANGED vars
        BY <1>4, KnownSilent DEF vars, proxyVars, gatewayVars, topicView
    <1> QED
        BY <1>1, <1>2, <1>3, <1>4 DEF Next

\* In every run of a proxied MQTT connection, a browser that has received
\* everything and never lost its socket shows the topics of the session, however
\* many browsers join, before, between and after the broker's answers; but for a
\* topic its panel changed by itself since the last event about it
\* (events.gateway.ts:56-92, MessageFeed.tsx:99-112).
THEOREM TopicsAreKnown == Spec => []RoomKnowsTopics
    <1>1. Init => Known
        BY DEF Init, ProxiedInit, GatewayInit, Known
    <1>2. Spec => []Heard
        BY CourseCorrect, TypedCorrect, HeardInit, HeardStep, PTL DEF Spec
    <1>3. Spec => []Known
        BY <1>1, <1>2, CourseCorrect, TypedCorrect, LedgerCorrect, KnownStep, PTL DEF Spec
    <1>4. ASSUME Known PROVE RoomKnowsTopics
        <2> SUFFICES ASSUME NEW k \in room \ dropped, protocol = "mqtt", link = "online",
                            inbox[k] = <<>>, NEW t \in Topics \ guessed[k]
                     PROVE  t \in topicsShown[k] <=> Listed(sess.topics, t)
            BY DEF RoomKnowsTopics, Listed
        <2>1. WillShow(k, t) <=> Listed(sess.topics, t)
            BY <1>4 DEF Known
        <2> QED
            BY <2>1 DEF WillShow, Ends
    <1> QED
        BY <1>3, <1>4, PTL

------------------------------------------------------------------------------
(* What the first browser of a Socket.IO connection receives.               *)

\* How often message n is in what a tab received, s, and will receive, q.
Copies(s, q, n) == Count(s, {n}) + Count(q, {Ev("message", n)})

\* Events that are no messages add no copies.
LEMMA OthersAreNoCopies ==
    ASSUME NEW s \in Seq(Nat), NEW q \in Seq(Event), NEW r \in Seq(Event),
           Where(r, Messages) = {}, NEW n \in Nat
    PROVE  Copies(s, q \o r, n) = Copies(s, q, n)
    <1> DEFINE A == {Ev("message", n)}
    <1>1. Ev("message", n) \in Messages
        BY EventTypes DEF Messages, Ev
    <1>2. Where(r, A) = {}
        BY <1>1 DEF Where
    <1> HIDE DEF A
    <1>3. Count(r, A) = 0
        BY <1>2, FS_EmptySet DEF Count
    <1>4. Count(q \o r, A) = Count(q, A) + Count(r, A) /\ Count(q, A) \in Nat
        BY CountConcat, CountType
    <1>5. Count(q \o r, A) = Count(q, A)
        BY <1>3, <1>4
    <1> QED
        BY <1>5 DEF Copies, A

\* A message that is sent is one copy of it, and of no other.
LEMMA MessageIsCopied ==
    ASSUME NEW s \in Seq(Nat), NEW q \in Seq(Event), NEW m \in Nat, NEW n \in Nat
    PROVE  /\ Copies(s, q \o <<Ev("message", m)>>, n)
                = Copies(s, q, n) + IF m = n THEN 1 ELSE 0
           /\ Copies(s, q \o <<Ev("message", m), Ev("message", m)>>, n)
                = Copies(s, q, n) + IF m = n THEN 2 ELSE 0
    <1> DEFINE A == {Ev("message", n)}
               e == Ev("message", m)
               one == <<e>>
               two == <<e, e>>
    <1>1. e \in Event /\ (e \in A <=> m = n)
        BY EventTypes DEF Ev
    <1> HIDE DEF A, e
    <1>2. one \in Seq(Event) /\ two \in Seq(Event) /\ two = one \o one
        BY <1>1
    <1>3. Count(one, A) = IF m = n THEN 1 ELSE 0
        BY <1>1, CountOne
    <1> HIDE DEF one, two
    <1>4. /\ Count(q \o one, A) = Count(q, A) + Count(one, A)
          /\ Count(q \o two, A) = Count(q, A) + Count(two, A)
          /\ Count(one \o one, A) = Count(one, A) + Count(one, A)
        <2>1. Count(q \o one, A) = Count(q, A) + Count(one, A)
            BY <1>2, CountConcat
        <2>2. Count(q \o two, A) = Count(q, A) + Count(two, A)
            BY <1>2, CountConcat
        <2>3. Count(one \o one, A) = Count(one, A) + Count(one, A)
            BY <1>2, CountConcat
        <2> QED
            BY <2>1, <2>2, <2>3
    <1>5. Count(q, A) \in Nat /\ Count(s, {n}) \in Nat
        BY CountType
    <1>6. /\ Count(q \o one, A) = Count(q, A) + IF m = n THEN 1 ELSE 0
          /\ Count(q \o two, A) = Count(q, A) + IF m = n THEN 2 ELSE 0
        BY <1>2, <1>3, <1>4, <1>5
    <1>7. /\ Count(s, {n}) + Count(q \o one, A)
                = (Count(s, {n}) + Count(q, A)) + IF m = n THEN 1 ELSE 0
          /\ Count(s, {n}) + Count(q \o two, A)
                = (Count(s, {n}) + Count(q, A)) + IF m = n THEN 2 ELSE 0
        BY <1>5, <1>6
    <1> QED
        BY <1>7 DEF Copies, A, e, one, two

\* Receiving a message leaves its copies.
LEMMA ReceivingIsNoCopy ==
    ASSUME NEW s \in Seq(Nat), NEW q \in Seq(Event), q # <<>>, NEW t,
           t = IF Head(q).type = "message" THEN Append(s, Head(q).id) ELSE s,
           NEW n \in Nat
    PROVE  Copies(t, Tail(q), n) = Copies(s, q, n)
    <1> DEFINE A == {Ev("message", n)}
               e == Head(q)
    <1>1. e \in Event /\ Tail(q) \in Seq(Event)
        BY HeadTailProperties
    <1>2. e \in A <=> e.type = "message" /\ e.id = n
        BY <1>1 DEF Event, Ev
    <1> HIDE DEF A
    <1>3. Count(q, A) = Count(Tail(q), A) + (IF e \in A THEN 1 ELSE 0)
        BY CountTail
    <1>4. Count(Tail(q), A) \in Nat /\ Count(s, {n}) \in Nat
        BY <1>1, CountType
    <1> HIDE DEF e
    <1>5. CASE e.type = "message"
        <2>1. t = Append(s, e.id) /\ e.id \in Nat
            BY <1>1, <1>5 DEF e, Event
        <2>2. Count(t, {n}) = Count(s, {n}) + (IF e.id \in {n} THEN 1 ELSE 0)
            BY <2>1, CountAppend
        <2>3. Count(t, {n}) + Count(Tail(q), A) = Count(s, {n}) + Count(q, A)
            BY <1>2, <1>3, <1>4, <1>5, <2>2
        <2> QED
            BY <2>3 DEF Copies, A
    <1>6. CASE e.type # "message"
        <2>1. t = s
            BY <1>6 DEF e
        <2>2. Count(q, A) = Count(Tail(q), A)
            BY <1>2, <1>3, <1>4, <1>6
        <2> QED
            BY <2>1, <2>2 DEF Copies, A
    <1> QED
        BY <1>5, <1>6

\* A buffer holds one copy of each of its messages.
LEMMA BufferIsCopiedOnce ==
    ASSUME NEW q \in Seq(Event), NoneTwice(q), NEW n \in Nat
    PROVE  Count(q, {Ev("message", n)}) = IF n \in Sent(q) THEN 1 ELSE 0
    <1> DEFINE A == {Ev("message", n)}
    <1>0. \A i \in DOMAIN q : q[i] \in Messages
        BY DEF NoneTwice
    <1>1. \A i \in DOMAIN q : q[i] \in A <=> q[i].id = n
        BY <1>0 DEF Messages, Event, Ev
    <1>2. CASE n \in Sent(q)
        <2>1. PICK i \in DOMAIN q : q[i].id = n
            BY <1>2 DEF Sent, Where
        <2>2. \A j \in DOMAIN q : q[j].id = n => j = i
            BY <2>1 DEF NoneTwice
        <2> HIDE DEF A
        <2>3. Where(q, A) = {i}
            BY <1>1, <2>1, <2>2 DEF Where
        <2> QED
            BY <1>2, <2>3, FS_Singleton DEF Count, A
    <1>3. CASE n \notin Sent(q)
        <2>1. \A i \in DOMAIN q : q[i].id # n
            BY <1>0, <1>3 DEF Sent, Where
        <2> HIDE DEF A
        <2>2. Where(q, A) = {}
            BY <1>1, <2>1 DEF Where
        <2> QED
            BY <1>3, <2>2, FS_EmptySet DEF Count, A
    <1> QED
        BY <1>2, <1>3

\* A browser that joins a connected session gets one copy of what is buffered.
LEMMA ReplayIsCopiedOnce ==
    ASSUME NEW s \in SessionType, NoneTwice(s.buffered), s.status = "connected",
           NEW n \in Nat
    PROVE  Copies(<<>>, Replay(s), n) = IF n \in Sent(s.buffered) THEN 1 ELSE 0
    <1> DEFINE open == <<Ev("open", 0)>>
               subscribed == [i \in 1..Len(s.topics) |-> Ev("subscribed", s.topics[i])]
               b == s.buffered
               A == {Ev("message", n)}
    <1>1. b \in Seq(Event) /\ s.topics \in Seq(Nat)
        BY DEF SessionType
    <1>2. open \in Seq(Event) /\ Ev("open", 0) \notin A
        BY EventTypes, EventSeqs DEF Ev
    <1>3. subscribed \in Seq(Event) /\ Where(subscribed, Messages) = {}
        <2>1. Len(s.topics) \in Nat /\ \A i \in 1..Len(s.topics) : s.topics[i] \in Nat
            BY <1>1, LenProperties, ElementOfSeq
        <2>2. subscribed \in Seq(Event)
            BY <2>1 DEF Ev, Event, EventType
        <2>3. \A i \in DOMAIN subscribed : subscribed[i].type # "message"
            BY DEF Ev
        <2> QED
            BY <2>2, <2>3 DEF Where, Messages
    <1>4. Replay(s) = (open \o b) \o subscribed
        BY DEF Replay
    <1>5. Count(b, A) = IF n \in Sent(b) THEN 1 ELSE 0
        BY <1>1, BufferIsCopiedOnce
    <1>6. Count(open, A) = 0 /\ Count(<<>>, {n}) = 0
        BY <1>2, CountOne
    <1>7. <<>> \in Seq(Nat)
        OBVIOUS
    <1> HIDE DEF open, subscribed, b, A
    <1>8. open \o b \in Seq(Event) /\ Count(open \o b, A) = Count(open, A) + Count(b, A)
        <2>1. open \o b \in Seq(Event)
            BY <1>1, <1>2, ConcatProperties
        <2>2. Count(open \o b, A) = Count(open, A) + Count(b, A)
            BY <1>1, <1>2, CountConcat
        <2> QED
            BY <2>1, <2>2
    <1>9. Copies(<<>>, Replay(s), n) = Copies(<<>>, open \o b, n)
        <2> DEFINE before == open \o b
                   nothing == <<>>
        <2>1. before \in Seq(Event) /\ nothing \in Seq(Nat)
            BY <1>7, <1>8
        <2> HIDE DEF before, nothing
        <2>2. Copies(nothing, before \o subscribed, n) = Copies(nothing, before, n)
            BY <1>3, <2>1, OthersAreNoCopies
        <2> QED
            BY <1>4, <2>2 DEF before, nothing
    <1>10. Copies(<<>>, open \o b, n) = Count(<<>>, {n}) + Count(open \o b, A)
        BY DEF Copies, A
    <1>11. Copies(<<>>, open \o b, n) = IF n \in Sent(b) THEN 1 ELSE 0
        BY <1>5, <1>6, <1>8, <1>10
    <1> QED
        BY <1>9, <1>11 DEF b

\* Until a browser joins, the buffer has every message it did not shift out; and
\* the first that joined has every one of them, received or on its way.
Delivered ==
    protocol = "socketio" =>
        /\ sess.status = "connecting" => arrived = 0
        /\ ~joined =>
              /\ room = {} /\ primary = NoClient
              /\ \A k \in Clients : inbox[k] = <<>> /\ seen[k] = <<>>
              /\ NoneTwice(sess.buffered)
              /\ Sent(sess.buffered) \subseteq 1..arrived
              /\ 1..arrived \subseteq Sent(sess.buffered) \cup evicted
        /\ primary # NoClient =>
              /\ primary \in room
              /\ \A n \in Nat : n > arrived => Times(primary, n) = 0
              /\ \A n \in 1..arrived :
                    /\ Times(primary, n) = 0 => n \in evicted
                    /\ Times(primary, n) > 1 => n \in doubled /\ Times(primary, n) = 2

\* Times in these terms.
LEMMA TimesAreCopies == \A k, n : Times(k, n) = Copies(seen[k], inbox[k], n)
    BY DEF Times, Copies, Count, Where

\* And in the next state.
LEMMA TimesLater == \A k, n : Times(k, n)' = Copies(seen'[k], inbox'[k], n)
    BY DEF Times, Copies, Count, Where

\* What the proofs below use of the types.
LEMMA TypesOfMessages ==
    ASSUME Course, Typed
    PROVE  /\ sess \in SessionType /\ room \subseteq Clients
           /\ seen \in [Clients -> Seq(Nat)] /\ inbox \in [Clients -> Seq(Event)]
           /\ arrived \in Nat /\ NoClient \notin Clients
    <1>1. \E states : ProxiedTypeOK(states)
        BY DEF Course, Typed, TypeOK, SioTypeOK, MqttTypeOK, AmqpTypeOK
    <1> QED
        BY <1>1, ProxiedAssumption DEF ProxiedTypeOK, GatewayTypeOK

\* A job that handles no message of the target.
LEMMA DeliveredQuietly ==
    ASSUME Course, Typed, Delivered, NEW evs \in Seq(Event), Where(evs, Messages) = {},
           EmitAll(evs) \/ UNCHANGED inbox,
           UNCHANGED <<protocol, seen, room, joined, primary, arrived, evicted, doubled>>,
           sess'.buffered = sess.buffered,
           sess'.status = "connecting" => sess.status = "connecting"
    PROVE  Delivered'
    <1>0. /\ room \subseteq Clients /\ seen \in [Clients -> Seq(Nat)]
          /\ inbox \in [Clients -> Seq(Event)] /\ NoClient \notin Clients
        BY TypesOfMessages
    <1>1. room = {} => \A k \in Clients : inbox'[k] = inbox[k]
        BY DEF EmitAll
    <1>2. ASSUME NEW k \in room, NEW n \in Nat PROVE Times(k, n)' = Times(k, n)
        <2>1. Copies(seen[k], inbox[k] \o evs, n) = Copies(seen[k], inbox[k], n)
            <3>1. seen[k] \in Seq(Nat) /\ inbox[k] \in Seq(Event)
                BY <1>0
            <3> QED
                BY <3>1, OthersAreNoCopies
        <2>2. inbox'[k] = inbox[k] \o evs \/ inbox'[k] = inbox[k]
            BY <1>0 DEF EmitAll
        <2>3. Copies(seen[k], inbox'[k], n) = Copies(seen[k], inbox[k], n)
            BY <2>1, <2>2
        <2>4. seen'[k] = seen[k]
            OBVIOUS
        <2>5. Copies(seen'[k], inbox'[k], n) = Copies(seen[k], inbox'[k], n)
            BY <2>4
        <2> QED
            BY <2>3, <2>5, TimesAreCopies, TimesLater
    <1>3. \A n \in 1..arrived : n \in Nat
        OBVIOUS
    <1> QED
        BY <1>1, <1>2, <1>3 DEF Delivered

\* A job that leaves the session's buffer leaves what the browsers have of it.
LEMMA BufferStays ==
    ASSUME sess \in SessionType
    PROVE  /\ \A status \in Status : UpdateStatus(sess, status).buffered = sess.buffered
           /\ RecordSent(sess).buffered = sess.buffered
           /\ RecordError(UpdateStatus(sess, "error")).buffered = sess.buffered
           /\ RecordReceived(sess, FALSE) \in SessionType
           /\ RecordReceived(sess, FALSE).buffered = sess.buffered
           /\ \A ev \in Event :
                 LET b == BufferMessage(RecordReceived(sess, FALSE), ev)
                 IN  RecordReceived(b, FALSE).buffered = b.buffered
    <1>1. \A status \in Status : /\ UpdateStatus(sess, status) \in SessionType
                                 /\ UpdateStatus(sess, status).buffered = sess.buffered
        BY UpdateStatusType
    <1>2. \A s \in SessionType : SameAs(s, RecordSent(s)) /\ SameAs(s, RecordError(s))
                                     /\ SameAs(s, RecordReceived(s, FALSE))
        BY RecordTypes
    <1>3. "error" \in Status
        BY DEF Status
    <1>4. RecordError(UpdateStatus(sess, "error")).buffered = sess.buffered
        BY <1>1, <1>2, <1>3 DEF SameAs
    <1>5. RecordReceived(sess, FALSE) \in SessionType
        BY <1>2 DEF SameAs
    <1>6. \A ev \in Event : BufferMessage(RecordReceived(sess, FALSE), ev) \in SessionType
        BY <1>5, BufferMessageType
    <1> QED
        BY <1>1, <1>2, <1>4, <1>5, <1>6 DEF SameAs

\* No event but "message" is a message.
LEMMA NoMessages ==
    /\ Where(<<>>, Messages) = {}
    /\ \A type \in EventType \ {"message"} :
          <<Ev(type, 0)>> \in Seq(Event) /\ Where(<<Ev(type, 0)>>, Messages) = {}
    /\ {"open", "error", "close", "reconnecting", "sent", "ack"} \subseteq EventType \ {"message"}
    <1>1. \A type \in EventType : Ev(type, 0) \in Event /\ Ev(type, 0).type = type
        BY DEF Ev, Event
    <1>2. \A type \in EventType \ {"message"} : Ev(type, 0) \notin Messages
        BY <1>1 DEF Messages
    <1> QED
        BY <1>1, <1>2 DEF Where, EventType, StatusEvents

\* A message of the target.
LEMMA MessageDelivered ==
    ASSUME Course, Typed, Delivered, protocol = "socketio", UNCHANGED protocol,
           NEW e \in Events, NEW bare \in BOOLEAN, SioEvent(e, bare)
    PROVE  Delivered'
    <1> DEFINE n == arrived + 1
               ev == Ev("message", n)
               s == RecordReceived(sess, FALSE)
               b == BufferMessage(s, ev)
               k == primary
               again == e \in subs /\ ~bare
               evs == IF again THEN <<ev, ev>> ELSE <<ev>>
    <1>0. /\ sess \in SessionType /\ room \subseteq Clients
          /\ seen \in [Clients -> Seq(Nat)] /\ inbox \in [Clients -> Seq(Event)]
          /\ arrived \in Nat /\ NoClient \notin Clients
        BY TypesOfMessages
    <1>1. /\ UNCHANGED <<room, seen, joined, primary>> /\ arrived' = n
          /\ EmitAll(evs) /\ sess' \in {b, RecordReceived(b, FALSE)}
          /\ doubled' = IF again THEN doubled \cup {ev.id} ELSE doubled
          /\ evicted' = IF room # {} \/ Len(sess.buffered) < MaxBuffered
                        THEN evicted ELSE evicted \cup {Head(sess.buffered).id}
        BY DEF SioEvent, browsers, told
    <1>2. n \in Nat /\ ev \in Event /\ ev.id = n
        BY <1>0, EventTypes DEF Ev
    <1>3. s \in SessionType /\ s.buffered = sess.buffered
        BY <1>0, BufferStays
    <1>4. sess'.status # "connecting" /\ sess'.buffered = b.buffered
        <2>1. b \in SessionType /\ b.status = s.status
            BY <1>2, <1>3, BufferMessageType
        <2>2. SameAs(b, RecordReceived(b, FALSE)) /\ s.status = sess.status
            BY <1>0, <2>1, RecordTypes DEF SameAs
        <2>3. sess.status = "connected"
            BY DEF Course, SioCourse, SioEvent
        <2> HIDE DEF b, s
        <2> QED
            BY <1>1, <2>1, <2>2, <2>3 DEF SameAs
    <1>5. ASSUME ~joined
          PROVE  /\ room' = {} /\ primary' = NoClient
                 /\ \A c \in Clients : inbox'[c] = <<>> /\ seen'[c] = <<>>
                 /\ NoneTwice(sess'.buffered)
                 /\ Sent(sess'.buffered) \subseteq 1..arrived'
                 /\ 1..arrived' \subseteq Sent(sess'.buffered) \cup evicted'
        <2>1. /\ room = {} /\ primary = NoClient
              /\ \A c \in Clients : inbox[c] = <<>> /\ seen[c] = <<>>
              /\ NoneTwice(sess.buffered)
              /\ Sent(sess.buffered) \subseteq 1..arrived
              /\ 1..arrived \subseteq Sent(sess.buffered) \cup evicted
            BY <1>5 DEF Delivered
        <2>2. \A c \in Clients : inbox'[c] = <<>> /\ seen'[c] = <<>>
            BY <1>1, <2>1 DEF EmitAll
        <2> DEFINE t == b.buffered
                   q == sess.buffered
        <2>3. n \notin Sent(s.buffered) /\ NoneTwice(s.buffered)
            <3>1. n \notin Sent(q) /\ NoneTwice(q)
                <4>1. n \notin 1..arrived
                    BY <1>0
                <4> QED
                    BY <2>1, <4>1
            <3>2. s.buffered = q
                BY <1>3
            <3> HIDE DEF q, s
            <3> QED
                BY <3>1, <3>2
        <2>t. t = BufferMessage(s, Ev("message", n)).buffered
            OBVIOUS
        <2> HIDE DEF s, n, ev, t, b
        <2>4. /\ NoneTwice(t)
              /\ n \in Sent(t) /\ Sent(t) \subseteq Sent(s.buffered) \cup {n}
              /\ Sent(s.buffered) \subseteq
                    Sent(t) \cup IF Len(s.buffered) < MaxBuffered THEN {} ELSE {Head(s.buffered).id}
            <3> DEFINE kept == BufferMessage(s, Ev("message", n)).buffered
            <3> HIDE DEF kept
            <3>1. kept = BufferMessage(s, Ev("message", n)).buffered
                BY DEF kept
            <3>2. /\ NoneTwice(kept)
                  /\ n \in Sent(kept) /\ Sent(kept) \subseteq Sent(s.buffered) \cup {n}
                  /\ Sent(s.buffered) \subseteq
                        Sent(kept) \cup IF Len(s.buffered) < MaxBuffered THEN {} ELSE {Head(s.buffered).id}
                BY <1>2, <1>3, <2>3, <3>1, BufferKeeps
            <3>3. t = kept
                BY <2>t DEF kept
            <3> QED
                BY <3>2, <3>3
        <2>5. sess'.buffered = t
            BY <1>4 DEF t
        <2>6. evicted' = IF Len(q) < MaxBuffered THEN evicted
                         ELSE evicted \cup {Head(q).id}
            BY <1>1, <2>1
        <2>7. Sent(t) \subseteq Sent(q) \cup {n} /\ n \in Sent(t)
                  /\ Sent(q) \subseteq
                        Sent(t) \cup IF Len(q) < MaxBuffered THEN {} ELSE {Head(q).id}
            BY <1>3, <2>4
        <2>8. 1..n = 1..arrived \cup {n}
            BY <1>0 DEF n
        <2>9. Sent(q) \subseteq 1..arrived /\ 1..arrived \subseteq Sent(q) \cup evicted
            BY <2>1
        <2> HIDE DEF q, t
        <2>10. Sent(t) \subseteq 1..n
            BY <2>7, <2>8, <2>9
        <2>11. 1..n \subseteq Sent(t) \cup evicted'
            BY <2>6, <2>7, <2>8, <2>9
        <2> QED
            BY <1>1, <2>1, <2>2, <2>4, <2>5, <2>10, <2>11
    <1>6. ASSUME primary # NoClient
          PROVE  /\ primary' \in room'
                 /\ \A m \in Nat : m > arrived' => Times(primary, m)' = 0
                 /\ \A m \in 1..arrived' :
                       /\ Times(primary, m)' = 0 => m \in evicted'
                       /\ Times(primary, m)' > 1 => m \in doubled' /\ Times(primary, m)' = 2
        <2>1. /\ primary \in room
              /\ \A m \in Nat : m > arrived => Times(primary, m) = 0
              /\ \A m \in 1..arrived :
                    /\ Times(primary, m) = 0 => m \in evicted
                    /\ Times(primary, m) > 1 => m \in doubled /\ Times(primary, m) = 2
            BY <1>6 DEF Delivered
        <2>2. /\ primary \in Clients /\ seen[k] \in Seq(Nat) /\ inbox[k] \in Seq(Event)
              /\ inbox'[k] = inbox[k] \o evs /\ seen'[k] = seen[k]
            BY <1>0, <1>1, <2>1 DEF EmitAll
        <2>3. evicted \subseteq evicted' /\ doubled \subseteq doubled'
                  /\ (again => n \in doubled')
            BY <1>1, <1>2
        <2> DEFINE more == IF again THEN 2 ELSE 1
        <2>4. ASSUME NEW m \in Nat
              PROVE  /\ Times(primary, m)' = Times(primary, m) + (IF n = m THEN more ELSE 0)
                     /\ Times(primary, m) \in Nat
            <3>1. /\ Copies(seen[k], inbox[k] \o <<ev>>, m)
                        = Copies(seen[k], inbox[k], m) + IF n = m THEN 1 ELSE 0
                  /\ Copies(seen[k], inbox[k] \o <<ev, ev>>, m)
                        = Copies(seen[k], inbox[k], m) + IF n = m THEN 2 ELSE 0
                BY <1>2, <2>2, MessageIsCopied
            <3>2. Copies(seen'[k], inbox'[k], m) = Copies(seen[k], inbox[k] \o evs, m)
                BY <2>2
            <3> HIDE DEF ev
            <3>3. Copies(seen[k], inbox[k] \o evs, m)
                      = Copies(seen[k], inbox[k], m) + IF n = m THEN more ELSE 0
                BY <3>1
            <3>4. Copies(seen[k], inbox[k], m) \in Nat
                BY <2>2, CountType DEF Copies
            <3>5. /\ Times(k, m) = Copies(seen[k], inbox[k], m)
                  /\ Times(primary, m)' = Copies(seen'[primary'], inbox'[primary'], m)
                BY TimesAreCopies, TimesLater DEF Times, Copies, Count, Where
            <3> QED
                BY <1>1, <3>2, <3>3, <3>4, <3>5
        <2> HIDE DEF n
        <2>5. arrived' = n /\ n = arrived + 1
            BY <1>1 DEF n
        <2>6. Times(primary, n) = 0
            BY <1>0, <2>1, <2>5
        <2>7. ASSUME NEW m \in Nat, m > arrived' PROVE Times(primary, m)' = 0
            BY <1>0, <2>1, <2>4, <2>5, <2>7
        <2>8. ASSUME NEW m \in 1..arrived'
              PROVE  /\ Times(primary, m)' = 0 => m \in evicted'
                     /\ Times(primary, m)' > 1 => m \in doubled' /\ Times(primary, m)' = 2
            <3>1. CASE m = n
                <4>1. Times(primary, m)' = more
                    BY <1>2, <2>4, <2>6, <3>1
                <4> QED
                    BY <2>3, <3>1, <4>1
            <3>2. CASE m # n
                <4>1. m \in 1..arrived /\ Times(primary, m)' = Times(primary, m)
                    BY <1>0, <2>4, <2>5, <3>2
                <4> QED
                    BY <2>1, <2>3, <4>1
            <3> QED
                BY <3>1, <3>2
        <2> QED
            BY <1>1, <2>1, <2>7, <2>8
    <1> HIDE DEF n, ev, s, b, evs
    <1> QED
        BY <1>1, <1>4, <1>5, <1>6 DEF Delivered

\* The jobs of a Socket.IO connection.
LEMMA SioDelivered == Course /\ Typed /\ Delivered /\ Socket => Delivered'
    <1> SUFFICES ASSUME Course, Typed, Delivered, Socket PROVE Delivered'
        OBVIOUS
    <1>0. /\ protocol = "socketio" /\ UNCHANGED protocol /\ SioNext
          /\ sess \in SessionType
        BY TypesOfMessages DEF Socket
    <1>1. CASE \E e \in Events, bare \in BOOLEAN : SioEvent(e, bare)
        BY <1>0, <1>1, MessageDelivered
    <1>2. ASSUME ~ \E e \in Events, bare \in BOOLEAN : SioEvent(e, bare) PROVE Delivered'
        <2>1. UNCHANGED <<seen, room, joined, primary, arrived, evicted, doubled>>
            BY <1>0, <1>2
            DEF SioNext, SioConnect, SioConnectError, SioReconnectAttempt, SioDisconnect,
                SioSubscribe, SioAck, SioCleanUp, SioSend, SioDelete, SioSessionClose, browsers, told,
                gatewayVars
        <2>2. /\ sess'.buffered = sess.buffered
              /\ sess'.status = "connecting" => sess.status = "connecting"
            <3>1. \/ UNCHANGED sess \/ sess' = RecordSent(sess)
                  \/ sess' = RecordError(UpdateStatus(sess, "error"))
                  \/ \E status \in Status \ {"connecting"} : sess' = UpdateStatus(sess, status)
                BY <1>0, <1>2
                DEF SioNext, SioConnect, SioConnectError, SioReconnectAttempt, SioDisconnect,
                    SioSubscribe, SioAck, SioCleanUp, SioSend, SioDelete, SioSessionClose, gatewayVars, Status
            <3>2. CASE UNCHANGED sess
                BY <3>2
            <3>3. CASE sess' = RecordSent(sess)
                BY <1>0, <3>3, BufferStays, StatusStays
            <3>4. CASE sess' = RecordError(UpdateStatus(sess, "error"))
                BY <1>0, <3>4, BufferStays, StatusStays
            <3>5. CASE \E status \in Status \ {"connecting"} : sess' = UpdateStatus(sess, status)
                BY <1>0, <3>5, BufferStays, StatusStays
            <3> QED
                BY <3>1, <3>2, <3>3, <3>4, <3>5
        <2>3. \/ UNCHANGED inbox \/ EmitAll(<<>>)
              \/ \E type \in EventType \ {"message"} : EmitAll(<<Ev(type, 0)>>)
            BY <1>0, <1>2, NoMessages
            DEF SioNext, SioConnect, SioConnectError, SioReconnectAttempt, SioDisconnect,
                SioSubscribe, SioAck, SioCleanUp, SioSend, SioDelete, SioSessionClose, gatewayVars, Emit
        <2>4. <<>> \in Seq(Event)
            OBVIOUS
        <2>5. CASE UNCHANGED inbox \/ EmitAll(<<>>)
            BY <1>0, <2>1, <2>2, <2>4, <2>5, NoMessages, DeliveredQuietly
        <2>6. CASE \E type \in EventType \ {"message"} : EmitAll(<<Ev(type, 0)>>)
            <3>1. PICK type \in EventType \ {"message"} : EmitAll(<<Ev(type, 0)>>)
                BY <2>6
            <3>2. <<Ev(type, 0)>> \in Seq(Event) /\ Where(<<Ev(type, 0)>>, Messages) = {}
                BY NoMessages
            <3> QED
                BY <1>0, <2>1, <2>2, <3>1, <3>2, DeliveredQuietly
        <2> QED
            BY <2>3, <2>5, <2>6
    <1> QED
        BY <1>1, <1>2

\* Browsers that join, receive, drop and come back.
LEMMA BrowsersDelivered ==
    ASSUME Course, Typed, Delivered, NEW k \in Clients,
           BrowserJoins(k) \/ BrowserReceives(k) \/ BrowserMoves(k)
    PROVE  Delivered'
    <1> SUFFICES ASSUME protocol = "socketio" PROVE Delivered'
        BY BrowsersFollow DEF Delivered
    <1>0. /\ sess \in SessionType /\ room \subseteq Clients
          /\ seen \in [Clients -> Seq(Nat)] /\ inbox \in [Clients -> Seq(Event)]
          /\ arrived \in Nat /\ NoClient \notin Clients
        BY TypesOfMessages
    <1>1. UNCHANGED <<protocol, arrived, evicted, doubled>> /\ sess'.status = sess.status
        BY BrowsersFollow
        DEF BrowserJoins, BrowserReceives, BrowserMoves, ProxiedJoin, ProxiedReceive,
            ProxiedDrop, ProxiedReconnect, sioVars, Follows
    <1>2. CASE BrowserJoins(k)
        <2>1. /\ k \notin room /\ room' = room \cup {k} /\ joined' = TRUE
              /\ inbox' = [inbox EXCEPT ![k] = @ \o Replay(sess)] /\ UNCHANGED seen
              /\ primary' = IF ~joined /\ sess.status \in {"connecting", "connected"}
                            THEN k ELSE primary
            BY <1>2 DEF BrowserJoins, ProxiedJoin, Join
        <2>2. CASE ~joined /\ sess.status \in {"connecting", "connected"}
            <3>1. /\ inbox[k] = <<>> /\ seen[k] = <<>> /\ NoneTwice(sess.buffered)
                  /\ Sent(sess.buffered) \subseteq 1..arrived
                  /\ 1..arrived \subseteq Sent(sess.buffered) \cup evicted
                  /\ sess.status = "connecting" => arrived = 0
                BY <1>0, <2>2 DEF Delivered
            <3>2. inbox'[k] = Replay(sess) /\ seen'[k] = <<>> /\ primary' = k
                <4>1. Replay(sess) \in Seq(Event)
                    BY <1>0, ReplayType
                <4>2. <<>> \o Replay(sess) = Replay(sess)
                    BY <4>1, ConcatEmptySeq
                <4> QED
                    BY <1>0, <2>1, <2>2, <3>1, <4>2
            <3>3. ASSUME NEW n \in Nat
                  PROVE  Times(primary, n)' = Copies(<<>>, Replay(sess), n)
                BY <3>2, TimesLater
            <3>4. CASE sess.status = "connecting"
                <4>1. Replay(sess) = <<>>
                    BY <3>4 DEF Replay
                <4>2. ASSUME NEW n \in Nat PROVE Times(primary, n)' = 0
                    <5>1. Copies(<<>>, <<>>, n) = 0 + 0
                        BY CountOne, Zenon DEF Copies
                    <5>2. Copies(<<>>, Replay(sess), n) = Copies(<<>>, <<>>, n)
                        BY <4>1
                    <5> QED
                        BY <3>3, <5>1, <5>2
                <4> QED
                    BY <1>1, <2>1, <3>1, <3>2, <3>4, <4>2 DEF Delivered
            <3>5. CASE sess.status = "connected"
                <4>1. \A n \in Nat : Times(primary, n)' = IF n \in Sent(sess.buffered) THEN 1 ELSE 0
                    BY <1>0, <3>1, <3>3, <3>5, ReplayIsCopiedOnce
                <4>2. \A n \in Nat : n > arrived => n \notin Sent(sess.buffered)
                    <5>1. \A n \in Nat : n > arrived => n \notin 1..arrived
                        BY <1>0
                    <5> QED
                        BY <3>1, <5>1
                <4>3. \A n \in 1..arrived : n \in Nat /\ (n \in Sent(sess.buffered) \/ n \in evicted)
                    BY <1>0, <3>1
                <4>4. \A n \in Nat : n > arrived => Times(primary, n)' = 0
                    BY <4>1, <4>2
                <4>5. \A n \in 1..arrived : /\ Times(primary, n)' = 0 => n \in evicted
                                            /\ ~(Times(primary, n)' > 1)
                    BY <4>1, <4>3
                <4> QED
                    BY <1>1, <2>1, <3>2, <3>5, <4>4, <4>5 DEF Delivered
            <3> QED
                BY <2>2, <3>4, <3>5
        <2>3. CASE ~(~joined /\ sess.status \in {"connecting", "connected"})
            <3>1. primary' = primary
                BY <2>1, <2>3
            <3>2. CASE primary = NoClient
                BY <1>1, <2>1, <3>1, <3>2 DEF Delivered
            <3>3. CASE primary # NoClient
                <4>1. primary \in room /\ primary # k
                    BY <2>1, <3>3 DEF Delivered
                <4>2. inbox'[primary] = inbox[primary]
                    BY <1>0, <2>1, <4>1
                <4>3. \A n : Times(primary, n)' = Times(primary, n)
                    BY <2>1, <3>1, <4>2, TimesAreCopies, TimesLater
                <4> QED
                    BY <1>1, <2>1, <3>1, <3>3, <4>1, <4>3 DEF Delivered
            <3> QED
                BY <3>2, <3>3
        <2> QED
            BY <2>2, <2>3
    <1>3. CASE BrowserReceives(k)
        <2>1. /\ UNCHANGED <<sess, room, joined, primary>>
              /\ inbox[k] # <<>> /\ inbox[k] \in Seq(Event) /\ seen[k] \in Seq(Nat)
              /\ seen'[k] = IF Head(inbox[k]).type = "message"
                            THEN Append(seen[k], Head(inbox[k]).id) ELSE seen[k]
              /\ inbox'[k] = Tail(inbox[k])
              /\ \A c \in Clients : c # k => inbox'[c] = inbox[c] /\ seen'[c] = seen[c]
            BY <1>0, <1>3 DEF BrowserReceives, ProxiedReceive, Receive, serverSide
        <2>2. joined
            BY <2>1 DEF Delivered
        <2>3. ASSUME NEW c \in Clients, NEW n \in Nat PROVE Times(c, n)' = Times(c, n)
            <3>1. CASE c # k
                BY <2>1, <3>1, TimesAreCopies, TimesLater
            <3>2. CASE c = k
                <4>1. Copies(seen'[k], Tail(inbox[k]), n) = Copies(seen[k], inbox[k], n)
                    BY <2>1, ReceivingIsNoCopy
                <4>2. Copies(seen'[k], inbox'[k], n) = Copies(seen[k], inbox[k], n)
                    BY <2>1, <4>1
                <4> QED
                    BY <3>2, <4>2, TimesAreCopies, TimesLater
            <3> QED
                BY <3>1, <3>2
        <2>4. \A n \in 1..arrived : n \in Nat
            OBVIOUS
        <2>5. \A n \in Nat : primary \in room => Times(primary, n)' = Times(primary, n)
            BY <1>0, <2>1, <2>3
        <2> QED
            BY <1>1, <2>1, <2>2, <2>4, <2>5 DEF Delivered
    <1>4. CASE BrowserMoves(k)
        <2>1. CASE ProxiedDrop(k)
            <3>1. /\ UNCHANGED <<sess, seen, joined>> /\ room' = room \ {k}
                  /\ primary' = IF primary = k THEN NoClient ELSE primary
                  /\ inbox' = [inbox EXCEPT ![k] = <<>>]
                BY <2>1 DEF ProxiedDrop, ControlDrop
            <3>2. primary' # NoClient =>
                     primary' = primary /\ primary # k /\ primary # NoClient
                BY <1>0, <3>1
            <3>3. \A c \in Clients : inbox[c] = <<>> => inbox'[c] = <<>>
                BY <1>0, <3>1
            <3>4. ASSUME primary' # NoClient, NEW n PROVE Times(primary, n)' = Times(primary, n)
                <4>1. inbox'[primary] = inbox[primary] /\ primary' = primary
                    BY <1>0, <3>1, <3>2, <3>4
                <4> QED
                    BY <3>1, <4>1, TimesAreCopies, TimesLater
            <3> QED
                BY <1>1, <3>1, <3>2, <3>3, <3>4 DEF Delivered
        <2>2. CASE ProxiedReconnect(k)
            <3>1. UNCHANGED <<sess, room, inbox, seen, joined, primary>>
                BY <2>2 DEF ProxiedReconnect, ControlReconnect
            <3>2. \A n : Times(primary, n)' = Times(primary, n)
                BY <3>1 DEF Times
            <3> QED
                BY <1>1, <3>1, <3>2 DEF Delivered
        <2> QED
            BY <1>4, <2>1, <2>2 DEF BrowserMoves
    <1> QED
        BY <1>2, <1>3, <1>4

\* What the first browser has is kept by every job.
LEMMA DeliveredStep == Course /\ Typed /\ Delivered /\ [Next]_vars => Delivered'
    <1> SUFFICES ASSUME Course, Typed, Delivered, [Next]_vars PROVE Delivered'
        OBVIOUS
    <1>1. CASE Socket
        BY <1>1, SioDelivered
    <1>2. CASE Mqtt \/ Amqp
        BY <1>2 DEF Mqtt, Amqp, Delivered
    <1>3. CASE \E k \in Clients : BrowserJoins(k) \/ BrowserReceives(k) \/ BrowserMoves(k)
        BY <1>3, BrowsersDelivered
    <1>4. CASE UNCHANGED vars
        <2>1. /\ UNCHANGED <<protocol, sess, room, inbox, seen, joined, primary>>
              /\ UNCHANGED <<arrived, evicted, doubled>>
            BY <1>4 DEF vars, proxyVars, gatewayVars, sioVars
        <2>2. \A n : Times(primary, n)' = Times(primary, n)
            BY <2>1 DEF Times
        <2> QED
            BY <2>1, <2>2 DEF Delivered
    <1> QED
        BY <1>1, <1>2, <1>3, <1>4 DEF Next

\* In every run of a proxied Socket.IO connection the first browser to join gets
\* every event of the target, those from before it joined included, once, and
\* twice only when the event was also subscribed to; however many events came
\* before it, save those the full buffer shifted out, and however the connection
\* failed and came back since (socketio.service.ts:82-99, 184-207, session.service.ts:98,
\* events.gateway.ts:56-92).
THEOREM FirstBrowserIsServed == Spec => []FirstJoinerGetsAll
    <1>1. Init => Delivered
        <2>1. \A n \in 1..0 : FALSE
            OBVIOUS
        <2> QED
            BY <2>1 DEF Init, ProxiedInit, GatewayInit, NewSession, Delivered, NoneTwice, Sent, Where
    <1>2. Spec => []Delivered
        BY <1>1, CourseCorrect, TypedCorrect, DeliveredStep, PTL DEF Spec
    <1>3. Delivered => FirstJoinerGetsAll
        BY DEF Delivered, FirstJoinerGetsAll
    <1> QED
        BY <1>2, <1>3, PTL

==============================================================================
