---------------------------- MODULE WsProxyProofs ----------------------------
(****************************************************************************)
(* Proofs about WsProxy, for every set of clients and conditions and every  *)
(* value of the bounds.                                                     *)
(****************************************************************************)
EXTENDS WsProxy, GatewayProofs

-----------------------------------------------------------------------------
(* The handlers' effect on the session. *)

\* The 'error' and 'close' handlers' effect on the session.
LEMMA ErrorAndCloseSession ==
    ASSUME NEW s \in SessionType
    PROVE  /\ ErrorSession(s) \in SessionType /\ ErrorSession(s).status = "error"
           /\ ErrorSession(s).buffered = s.buffered
           /\ CloseSession(s) \in SessionType /\ CloseSession(s).status = "disconnected"
           /\ CloseSession(s).buffered = s.buffered
    <1>1. "error" \in Status /\ "disconnected" \in Status
        BY DEF Status
    <1>2. UpdateStatus(s, "error") \in SessionType
              /\ UpdateStatus(s, "error").status = "error"
              /\ UpdateStatus(s, "error").buffered = s.buffered
        BY <1>1, UpdateStatusType
    <1>3. /\ ErrorSession(s) \in SessionType /\ ErrorSession(s).status = "error"
          /\ ErrorSession(s).buffered = s.buffered
        BY <1>2, RecordTypes DEF ErrorSession, SameAs
    <1> QED
        BY <1>1, <1>3, UpdateStatusType DEF CloseSession

-----------------------------------------------------------------------------
(* Type correctness.                                                        *)

\* The state createConnection leaves behind is well typed.
LEMMA TypeInit == Init => TypeOK
    <1> SUFFICES ASSUME Init PROVE TypeOK
        OBVIOUS
    <1>1. sess \in SessionType
        BY SessionAssumption, EmptySeq
        DEF Init, GatewayInit, NewSession, SessionType, Status
    <1>2. GatewayTypeOK
        BY <1>1, GatewayAssumption, EmptySeq DEF Init, GatewayInit, GatewayTypeOK, Status
    <1>3. pending \in Seq(Delayed)
        BY EmptySeq DEF Init
    <1>4. promise \in [Ping -> PromiseState] /\ resolver \in Ping \cup {0}
              /\ pingTimers \in SUBSET Ping
        BY DEF Init, PromiseState
    <1>5. arrived \in 0..MaxMsgs /\ calls \in 0..MaxCalls
        BY WsAssumption DEF Init
    <1> QED
        BY <1>2, <1>3, <1>4, <1>5 DEF Init, TypeOK, WsState

\* Clients joining, leaving, receiving and losing their sockets.
LEMMA TypeClients ==
    ASSUME TypeOK, NEW k \in Clients, ClientJoins(k) \/ ClientGoes(k) \/ ClientStays(k)
    PROVE  TypeOK'
    <1> USE DEF TypeOK, GatewayTypeOK
    <1>1. CASE ClientJoins(k)
        <2>1. sess' \in SessionType
            BY <1>1, AfterReplayType DEF ClientJoins, Join
        <2>2. inbox[k] \o Replay(sess) \in Seq(Event)
            BY ReplayType, ConcatProperties
        <2>3. inbox' \in [Clients -> Seq(Event)]
            BY <1>1, <2>2 DEF ClientJoins, Join
        <2>4. room' \in SUBSET Clients /\ primary' \in Clients \cup {NoClient}
            BY <1>1 DEF ClientJoins, Join
        <2> QED
            BY <1>1, <2>1, <2>3, <2>4 DEF ClientJoins, Join, wsVars
    <1>2. CASE ClientGoes(k)
        <2>1. primary' \in Clients \cup {NoClient}
            BY <1>2 DEF ClientGoes
        <2>2. CASE Leave(k)
            BY <1>2, <2>1, <2>2, GatewayAssumption DEF ClientGoes, Leave, wsVars
        <2>3. CASE ControlDrop(k)
            BY <1>2, <2>1, <2>3, GatewayAssumption, EmptySeq
            DEF ClientGoes, ControlDrop, wsVars
        <2> QED
            BY <1>2, <2>2, <2>3 DEF ClientGoes
    <1>3. CASE ClientStays(k)
        <2>1. CASE Receive(k)
            <3>1. inbox[k] \in Seq(Event) /\ inbox[k] # <<>>
                BY <2>1 DEF Receive
            <3>2. Head(inbox[k]) \in Event /\ Tail(inbox[k]) \in Seq(Event)
                BY <3>1, HeadTailProperties
            <3>3. \A status \in Status, type \in EventType : ViewAfter(status, type) \in Status
                BY DEF ViewAfter, Status
            <3>4. view' \in [Clients -> Status]
                BY <2>1, <3>2, <3>3 DEF Receive, Event
            <3>5. Append(seen[k], Head(inbox[k]).id) \in Seq(Nat)
                BY <3>2, AppendProperties DEF Event
            <3>6. seen' \in [Clients -> Seq(Nat)]
                BY <2>1, <3>5 DEF Receive
            <3>7. inbox' \in [Clients -> Seq(Event)]
                BY <2>1, <3>2 DEF Receive
            <3> QED
                BY <1>3, <2>1, <3>4, <3>6, <3>7
                DEF ClientStays, Receive, serverSide, wsVars, history
        <2>2. CASE ControlReconnect(k)
            BY <1>3, <2>2 DEF ClientStays, ControlReconnect, wsVars, history
        <2> QED
            BY <1>3, <2>1, <2>2 DEF ClientStays
    <1> QED
        BY <1>1, <1>2, <1>3

\* Settling the registered ping, and registering one, keep the promises' type.
LEMMA SettledType ==
    ASSUME promise \in [Ping -> PromiseState], NEW outcome \in PromiseState
    PROVE  Settled(outcome) \in [Ping -> PromiseState]
    BY DEF Settled

\* ws.close() leads to a state of the library.
LEMMA AfterWsCloseType == \A state \in WsState : AfterWsClose(state) \in WsState
    BY DEF AfterWsClose, WsState

\* What the 'close' handler leaves registered is well typed.
LEMMA CloseCleanupType ==
    ASSUME TypeOK, CloseCleanup
    PROVE  /\ ws' \in WsState /\ tracked' \in BOOLEAN /\ pingTs' \in BOOLEAN
           /\ promise' \in [Ping -> PromiseState] /\ resolver' \in Ping \cup {0}
           /\ pingTimers' \in SUBSET Ping
           /\ cond' \in Conditions \cup {NoCondition} /\ cutTimer' \in BOOLEAN
    <1>1. promise' \in [Ping -> PromiseState]
        BY SettledType DEF CloseCleanup, TypeOK, PromiseState
    <1> QED
        BY <1>1 DEF CloseCleanup, ClearedCondition, TypeOK, WsState

\* Handing a message to the buffer and the room (websocket.service.ts:143).
LEMMA ForwardType ==
    ASSUME TypeOK, NEW s \in SessionType, NEW n \in 1..MaxMsgs, Forward(s, n)
    PROVE  /\ sess' \in SessionType
           /\ inbox' \in [Clients -> Seq(Event)]
           /\ forwarded' \in SUBSET (1..MaxMsgs)
           /\ evicted' \in SUBSET Nat
    <1>1. Ev("message", n) \in Event /\ <<Ev("message", n)>> \in Seq(Event)
        BY EventTypes, EventSeqs
    <1>2. sess' \in SessionType
        BY <1>1, BufferMessageType DEF Forward
    <1>3. inbox' \in [Clients -> Seq(Event)]
        BY <1>1, EmitType DEF Forward, Emit, TypeOK
    <1>4. forwarded' \in SUBSET (1..MaxMsgs)
        BY DEF Forward, TypeOK
    <1>5. CASE evicted' = evicted
        BY <1>2, <1>3, <1>4, <1>5 DEF TypeOK
    <1>6. CASE evicted' = evicted \cup {Head(s.buffered).id}
               /\ ~(Len(s.buffered) < MaxBuffered)
        <2>1. s.buffered \in Seq(Event) /\ s.buffered # <<>>
            BY <1>6, SessionAssumption, EmptySeq DEF SessionType
        <2>2. Head(s.buffered) \in Event
            BY <2>1, HeadTailProperties
        <2>3. Head(s.buffered).id \in Nat
            BY <2>2 DEF Event
        <2> QED
            BY <1>2, <1>3, <1>4, <1>6, <2>3 DEF TypeOK
    <1> QED
        BY <1>5, <1>6 DEF Forward

\* The events of the ws library, apart from 'message'.
LEMMA TypeSocket ==
    ASSUME TypeOK,
           \/ OnOpen \/ HandshakeFails \/ HandshakeRejected \/ OnError \/ PeerEnds
           \/ OnClose \/ OnPong
    PROVE  TypeOK'
    <1> USE DEF TypeOK, GatewayTypeOK, pingVars, condVars, feedVars, clients, history
    <1>0. {"connected", "error", "disconnected"} \subseteq Status
        BY DEF Status
    <1>1. CASE OnOpen
        <2>1. sess' \in SessionType
            BY <1>0, <1>1, UpdateStatusType DEF OnOpen
        <2>2. inbox' \in [Clients -> Seq(Event)]
            BY <1>1, EmitType, EventTypes, EventSeqs DEF OnOpen, Emit
        <2>3. cutTimer' \in BOOLEAN
            <3>1. cond # NoCondition => cond.cut \in BOOLEAN
                BY WsAssumption
            <3> QED
                BY <1>1, <3>1 DEF OnOpen
        <2> QED
            BY <1>1, <2>1, <2>2, <2>3 DEF OnOpen, WsState
    <1>2. CASE HandshakeFails
        <2>1. sess' \in SessionType
            BY <1>2, ErrorAndCloseSession DEF HandshakeFails
        <2>2. inbox' \in [Clients -> Seq(Event)]
            BY <1>2, EmitType, EventTypes, EventSeqs DEF HandshakeFails
        <2> QED
            BY <1>2, <2>1, <2>2, CloseCleanupType DEF HandshakeFails
    <1>3. CASE HandshakeRejected
        BY <1>3 DEF HandshakeRejected, gatewayVars, WsState
    <1>4. CASE OnError
        <2>1. sess' \in SessionType
            BY <1>4, ErrorAndCloseSession DEF OnError
        <2>2. inbox' \in [Clients -> Seq(Event)]
            BY <1>4, EmitType, EventTypes, EventSeqs DEF OnError, Emit
        <2> QED
            BY <1>4, <2>1, <2>2 DEF OnError, WsState
    <1>5. CASE PeerEnds
        BY <1>5 DEF PeerEnds, gatewayVars, WsState
    <1>6. CASE OnClose
        <2>1. sess' \in SessionType
            BY <1>0, <1>6, UpdateStatusType DEF OnClose, CloseSession
        <2>2. inbox' \in [Clients -> Seq(Event)]
            BY <1>6, EmitType, EventTypes, EventSeqs DEF OnClose, Emit
        <2> QED
            BY <1>6, <2>1, <2>2, CloseCleanupType DEF OnClose
    <1>7. CASE OnPong
        <2>1. inbox' \in [Clients -> Seq(Event)]
            BY <1>7, EmitType, EventTypes, EventSeqs DEF OnPong
        <2>2. promise' \in [Ping -> PromiseState]
            BY <1>7, SettledType DEF OnPong, PromiseState
        <2> QED
            BY <1>7, <2>1, <2>2 DEF OnPong
    <1> QED
        BY <1>1, <1>2, <1>3, <1>4, <1>5, <1>6, <1>7

\* A frame arrives, is dropped, or is forwarded after its delay.
LEMMA TypeFeed ==
    ASSUME TypeOK,
           \/ OnMessage \/ OnMessageDropped
           \/ \E i \in DOMAIN pending : ForwardDelayed(i)
    PROVE  TypeOK'
    <1> USE DEF TypeOK, GatewayTypeOK, pingVars, condVars, clients, history
    <1>1. CASE OnMessage
        <2> DEFINE s == RecordReceived(sess, pingTs)
        <2>1. arrived + 1 \in 1..MaxMsgs /\ arrived' \in 0..MaxMsgs
            BY <1>1, WsAssumption DEF OnMessage
        <2>2. s \in SessionType
            BY RecordTypes DEF SameAs
        <2>3. /\ pingTs' = FALSE
              /\ UNCHANGED <<clients, ws, tracked, namedPing, pingVars, condVars,
                             calls, deleted, joined, primary>>
            BY <1>1 DEF OnMessage
        <2>4. /\ sess' \in SessionType
              /\ inbox' \in [Clients -> Seq(Event)]
              /\ forwarded' \in SUBSET (1..MaxMsgs) /\ evicted' \in SUBSET Nat
              /\ pending' \in Seq(Delayed)
            <3>1. CASE Forward(s, arrived + 1) /\ UNCHANGED pending
                <4> HIDE DEF s
                <4> QED
                    BY <2>1, <2>2, <3>1, ForwardType
            <3>2. CASE /\ DelaySet > 0
                       /\ sess' = s
                       /\ \E d \in Delays(cond) :
                            pending' = Append(pending, [id |-> arrived + 1, delay |-> d])
                       /\ UNCHANGED <<inbox, forwarded, evicted>>
                <4>1. PICK d \in Delays(cond) :
                        pending' = Append(pending, [id |-> arrived + 1, delay |-> d])
                    BY <3>2
                <4>2. cond.delay \in Nat /\ cond.jitter \in Nat
                    BY <3>2, WsAssumption DEF DelaySet
                <4>3. d \in Nat
                    BY <4>2 DEF Delays
                <4>4. [id |-> arrived + 1, delay |-> d] \in Delayed
                    BY <2>1, <4>3 DEF Delayed
                <4>5. pending' \in Seq(Delayed)
                    BY <4>1, <4>4, AppendProperties
                <4> QED
                    BY <2>2, <3>2, <4>5
            <3> QED
                BY <1>1, <3>1, <3>2 DEF OnMessage
        <2> QED
            BY <2>1, <2>3, <2>4
    <1>2. CASE OnMessageDropped
        <2>1. arrived' \in 0..MaxMsgs
            BY <1>2, WsAssumption DEF OnMessageDropped
        <2> QED
            BY <1>2, <2>1 DEF OnMessageDropped, gatewayVars
    <1>3. ASSUME NEW i \in DOMAIN pending, ForwardDelayed(i)
          PROVE  TypeOK'
        <2>1. i \in 1..Len(pending) /\ pending[i] \in Delayed /\ Len(pending) \in Nat
            BY <1>3, LenProperties, ElementOfSeq
        <2>2. pending[i].id \in 1..MaxMsgs
            BY <2>1 DEF Delayed
        <2>3. /\ SubSeq(pending, 1, i - 1) \in Seq(Delayed)
              /\ SubSeq(pending, i + 1, Len(pending)) \in Seq(Delayed)
            BY <2>1, SubSeqProperties
        <2>4. pending' \in Seq(Delayed)
            BY <1>3, <2>3, ConcatProperties DEF ForwardDelayed
        <2>5. Forward(sess, pending[i].id)
            BY <1>3 DEF ForwardDelayed
        <2>6. /\ sess' \in SessionType
              /\ inbox' \in [Clients -> Seq(Event)]
              /\ forwarded' \in SUBSET (1..MaxMsgs) /\ evicted' \in SUBSET Nat
            BY <2>2, <2>5, ForwardType
        <2>7. UNCHANGED <<clients, ws, tracked, pingTs, namedPing, pingVars, condVars,
                          arrived, calls, deleted, joined, primary>>
            BY <1>3 DEF ForwardDelayed
        <2> QED
            BY <2>4, <2>6, <2>7
    <1> QED
        BY <1>1, <1>2, <1>3

\* The REST handlers, the pings and the forced disconnect.
LEMMA TypeCalls ==
    ASSUME TypeOK,
           \/ \E c \in Conditions : SetCondition(c)
           \/ ClearCondition \/ CutConnection
           \/ SendMessage \/ SendPing \/ CloseConnection
           \/ \E p \in Ping : PingAsync(p) \/ PingTimeout(p)
    PROVE  TypeOK'
    <1> USE DEF TypeOK, GatewayTypeOK, pingVars, condVars, feedVars, clients,
                history, gatewayVars
    <1>0. SpendCall => calls' \in 0..MaxCalls
        BY WsAssumption DEF SpendCall
    <1>1. CASE \E c \in Conditions : SetCondition(c)
        BY <1>0, <1>1 DEF SetCondition
    <1>2. CASE ClearCondition
        BY <1>0, <1>2 DEF ClearCondition, ClearedCondition
    <1>3. CASE CutConnection
        BY <1>3, AfterWsCloseType DEF CutConnection
    <1>4. CASE SendMessage
        <2>1. sess' \in SessionType
            BY <1>4, RecordTypes DEF SendMessage, SameAs
        <2>2. inbox' \in [Clients -> Seq(Event)]
            BY <1>4, EmitType, EventTypes, EventSeqs DEF SendMessage, Emit
        <2> QED
            BY <1>0, <1>4, <2>1, <2>2 DEF SendMessage
    <1>5. CASE SendPing
        BY <1>0, <1>5 DEF SendPing
    <1>6. CASE CloseConnection
        <2>1. sess' \in SessionType
            BY <1>6, UpdateStatusType DEF CloseConnection, Status
        <2> QED
            BY <1>0, <1>6, <2>1, AfterWsCloseType DEF CloseConnection
    <1>7. ASSUME NEW p \in Ping, PingAsync(p)
          PROVE  TypeOK'
        <2>1. promise' \in [Ping -> PromiseState]
            BY <1>7, SettledType DEF PingAsync, RegisterPing, PromiseState
        <2> QED
            BY <1>7, <2>1 DEF PingAsync, RegisterPing
    <1>8. ASSUME NEW p \in Ping, PingTimeout(p)
          PROVE  TypeOK'
        BY <1>8 DEF PingTimeout, PromiseState
    <1> QED
        BY <1>1, <1>2, <1>3, <1>4, <1>5, <1>6, <1>7, <1>8

\* Every job of the connection and of the control channel keeps the types.
LEMMA TypeStep == TypeOK /\ [Next]_vars => TypeOK'
    <1> SUFFICES ASSUME TypeOK, [Next]_vars PROVE TypeOK'
        OBVIOUS
    <1>1. CASE UNCHANGED vars
        BY <1>1 DEF vars, gatewayVars, wsVars, history, TypeOK, GatewayTypeOK
    <1>2. CASE Next
        BY <1>2, TypeClients, TypeSocket, TypeFeed, TypeCalls DEF Next, ConnectionNext
    <1> QED
        BY <1>1, <1>2

\* Every variable of the proxy and of the control channel keeps its type in
\* every behaviour, for every set of clients and conditions and every bound.
THEOREM TypeCorrect == Spec => []TypeOK
    BY TypeInit, TypeStep, PTL DEF Spec

-----------------------------------------------------------------------------
(* Lifecycle: what an ended or deleted connection leaves behind.            *)

\* The inductive invariant.  No ping is registered before the connection
\* opens, and a deleted connection is on its way to 'close'.
Lifecycle ==
    /\ ClosedIsSettled
    /\ DeletedNeverReconnects
    /\ PendingPingIsRegistered
    /\ CutNeedsCondition
    /\ deleted => ws # "connecting"

\* A fresh connection has nothing registered but its socket.
LEMMA LifecycleInit == Init => Lifecycle
    BY DEF Init, GatewayInit, NewSession, Lifecycle, ClosedIsSettled,
           DeletedNeverReconnects, PendingPingIsRegistered, CutNeedsCondition, Ping

\* After the 'close' handler no ping is pending and none is registered.
LEMMA CloseSettlesPings ==
    ASSUME TypeOK, PendingPingIsRegistered, CloseCleanup
    PROVE  /\ \A p \in Ping : promise'[p] # "pending"
           /\ pingTimers' = {} /\ resolver' = 0 /\ PendingPingIsRegistered'
    <1>1. \A p \in Ping : promise'[p] # "pending"
        BY DEF CloseCleanup, Settled, TypeOK, PendingPingIsRegistered
    <1>2. pingTimers' = {}
        BY DEF CloseCleanup, TypeOK, PendingPingIsRegistered
    <1>3. resolver' = 0 /\ 0 \notin Ping
        BY DEF CloseCleanup, Ping
    <1> QED
        BY <1>1, <1>2, <1>3 DEF PendingPingIsRegistered

\* Every job keeps Lifecycle: each handler undoes what the others registered.
LEMMA LifecycleStep == TypeOK /\ Lifecycle /\ [Next]_vars => Lifecycle'
    <1> SUFFICES ASSUME TypeOK, Lifecycle, [Next]_vars PROVE Lifecycle'
        OBVIOUS
    <1> USE DEF Lifecycle, ClosedIsSettled, DeletedNeverReconnects,
                PendingPingIsRegistered, CutNeedsCondition,
                pingVars, condVars, feedVars, clients, history, gatewayVars
    <1>0. sess \in SessionType
        BY DEF TypeOK, GatewayTypeOK
    <1>1. ASSUME NEW k \in Clients, ClientJoins(k) \/ ClientGoes(k) \/ ClientStays(k)
          PROVE  Lifecycle'
        <2>1. sess'.status = sess.status
            BY <1>0, <1>1, AfterReplayType
            DEF ClientJoins, ClientGoes, ClientStays, Join, Leave, ControlDrop,
                Receive, ControlReconnect, serverSide
        <2>2. UNCHANGED wsVars /\ UNCHANGED deleted
            BY <1>1 DEF ClientJoins, ClientGoes, ClientStays
        <2> QED
            BY <2>1, <2>2 DEF wsVars
    <1>2. CASE \E c \in Conditions : SetCondition(c)
        BY <1>2, WsAssumption DEF SetCondition
    <1>3. CASE ClearCondition
        BY <1>3 DEF ClearCondition, ClearedCondition
    <1>4. CASE CutConnection
        BY <1>4 DEF CutConnection, AfterWsClose
    <1>5. CASE OnOpen
        <2>1. sess'.status = "connected"
            BY <1>0, <1>5, UpdateStatusType DEF OnOpen, Status
        <2> QED
            BY <1>5, <2>1 DEF OnOpen
    <1>6. CASE OnMessage
        <2>1. sess'.status = sess.status
            <3>1. /\ RecordReceived(sess, pingTs) \in SessionType
                  /\ RecordReceived(sess, pingTs).status = sess.status
                BY <1>0, RecordTypes DEF TypeOK, SameAs
            <3>2. Ev("message", arrived + 1) \in Event
                BY EventTypes DEF TypeOK
            <3>3. BufferMessage(RecordReceived(sess, pingTs), Ev("message", arrived + 1)).status
                    = sess.status
                BY <3>1, <3>2, BufferMessageType
            <3> QED
                BY <1>6, <3>1, <3>3 DEF OnMessage, Forward
        <2>2. UNCHANGED <<ws, tracked, namedPing, pingVars, condVars, deleted>> /\ pingTs' = FALSE
            BY <1>6 DEF OnMessage
        <2> QED
            BY <2>1, <2>2
    <1>7. CASE OnMessageDropped
        BY <1>7 DEF OnMessageDropped
    <1>8. ASSUME NEW i \in DOMAIN pending, ForwardDelayed(i)
          PROVE  Lifecycle'
        <2>1. pending[i] \in Delayed
            BY LenProperties, ElementOfSeq DEF TypeOK
        <2>2. pending[i].id \in Nat
            BY <2>1 DEF Delayed
        <2>3. sess'.status = sess.status
            BY <1>0, <1>8, <2>2, BufferMessageType, EventTypes DEF ForwardDelayed, Forward
        <2> QED
            BY <1>8, <2>3 DEF ForwardDelayed
    <1>9. CASE HandshakeFails \/ OnClose
        <2>1. sess'.status = "disconnected"
            BY <1>0, <1>9, ErrorAndCloseSession DEF HandshakeFails, OnClose
        <2>2. CloseCleanup /\ UNCHANGED <<deleted, namedPing>>
            BY <1>9 DEF HandshakeFails, OnClose
        <2> QED
            BY <2>1, <2>2, CloseSettlesPings DEF CloseCleanup, ClearedCondition
    <1>10. CASE HandshakeRejected
        BY <1>10 DEF HandshakeRejected
    <1>11. CASE OnError
        <2>1. sess'.status = "error"
            BY <1>0, <1>11, ErrorAndCloseSession DEF OnError
        <2> QED
            BY <1>11, <2>1 DEF OnError
    <1>12. CASE PeerEnds
        BY <1>12 DEF PeerEnds
    <1>13. CASE OnPong
        <2>1. PendingPingIsRegistered'
            BY <1>13 DEF OnPong, Settled, TypeOK, Ping
        <2> QED
            BY <1>13, <2>1 DEF OnPong
    <1>14. CASE SendMessage
        <2>1. sess'.status = sess.status
            BY <1>0, <1>14, RecordTypes DEF SendMessage, SameAs
        <2> QED
            BY <1>14, <2>1 DEF SendMessage
    <1>15. CASE SendPing
        BY <1>15 DEF SendPing
    <1>16. CASE CloseConnection
        <2>1. sess'.status = "disconnected"
            BY <1>0, <1>16, UpdateStatusType DEF CloseConnection, Status
        <2> QED
            BY <1>16, <2>1 DEF CloseConnection, AfterWsClose
    <1>17. ASSUME NEW p \in Ping, PingAsync(p)
           PROVE  Lifecycle'
        <2>1. promise' = [q \in Ping |->
                            IF q = p THEN "pending"
                            ELSE IF q = resolver THEN "rejected" ELSE promise[q]]
            BY <1>17 DEF PingAsync, RegisterPing, Settled
        <2>2. PendingPingIsRegistered'
            BY <1>17, <2>1 DEF PingAsync, RegisterPing
        <2> QED
            BY <1>17, <2>2 DEF PingAsync
    <1>18. ASSUME NEW p \in Ping, PingTimeout(p)
           PROVE  Lifecycle'
        <2>1. PendingPingIsRegistered'
            BY <1>18 DEF PingTimeout, TypeOK, Ping
        <2> QED
            BY <1>18, <2>1 DEF PingTimeout, TypeOK
    <1>19. CASE UNCHANGED vars
        BY <1>19 DEF vars, wsVars
    <1> QED
        BY <1>1, <1>2, <1>3, <1>4, <1>5, <1>6, <1>7, <1>8, <1>9, <1>10, <1>11, <1>12,
           <1>13, <1>14, <1>15, <1>16, <1>17, <1>18, <1>19 DEF Next, ConnectionNext

\* Lifecycle holds in every behaviour.
LEMMA LifecycleCorrect == Spec => []Lifecycle
    BY TypeCorrect, LifecycleInit, LifecycleStep, PTL DEF Spec

\* However the connection ends, and whatever is called before and after, the
\* close handler leaves the session disconnected and no socket, pending
\* pingAsync, ping timeout or forced disconnect; and a DELETE no ping's entry.
THEOREM ClosedConnectionIsSettled == Spec => []ClosedIsSettled
    BY LifecycleCorrect, PTL DEF Lifecycle

\* A DELETE is final: no later handshake makes the connection appear connected.
THEOREM DeleteIsFinal == Spec => []DeletedNeverReconnects
    BY LifecycleCorrect, PTL DEF Lifecycle

\* Pending promise, registered resolver and armed timeout are one and the same
\* ping, so no pong and no timeout settles a ping that is not its own entry.
THEOREM PingBookkeeping == Spec => []PendingPingIsRegistered
    BY LifecycleCorrect, PTL DEF Lifecycle

\* A forced disconnect never outlives the condition that asked for it.
THEOREM ClearedConditionCutsNothing == Spec => []CutNeedsCondition
    BY LifecycleCorrect, PTL DEF Lifecycle

-----------------------------------------------------------------------------
(* What a browser in the room has heard agrees with the session.            *)

\* The inductive invariant: what the members of the room hear follows from the
\* last handler that ran, and nobody heard anything while the session connects.
Hearing ==
    /\ RoomHearsTheSession
    /\ sess.status # "reconnecting"
    /\ sess.status = "connecting" =>
          \A k \in Clients : Quiet(inbox[k]) /\ view[k] # "connected"
    /\ Quiet(sess.buffered)

\* At first nobody is in the room and no tab shows a connection as up.
LEMMA HearingInit == Init => Hearing
    BY DEF Init, GatewayInit, NewSession, Hearing, RoomHearsTheSession, Quiet

\* A job that emits no status event and changes neither the status nor whether
\* the connection is closed leaves what everybody hears as it was.
LEMMA HearingQuiet ==
    ASSUME TypeOK, Hearing, NEW evs \in Seq(Event), Quiet(evs), EmitAll(evs),
           sess'.status = sess.status, UNCHANGED <<room, view, deleted>>,
           ws' = "closed" <=> ws = "closed", Quiet(sess'.buffered)
    PROVE  Hearing'
    <1>1. \A k \in Clients : inbox[k] \in Seq(Event)
        BY DEF TypeOK, GatewayTypeOK
    <1>2. \A k \in Clients :
              /\ inbox'[k] = inbox[k] \/ inbox'[k] = inbox[k] \o evs
              /\ HearsConnected(k)' <=> HearsConnected(k)
              /\ Quiet(inbox[k]) => Quiet(inbox'[k])
        BY <1>1, QuietIsUnheard DEF EmitAll, HearsConnected
    <1>3. room \subseteq Clients
        BY DEF TypeOK, GatewayTypeOK
    <1> QED
        BY <1>2, <1>3 DEF Hearing, RoomHearsTheSession

\* A job whose last emitted event is a status event, and that sets the status
\* to match it, makes everybody in the room hear the new status.
LEMMA HearingStatus ==
    ASSUME TypeOK, Hearing, NEW q \in Seq(Event), NEW e \in Event,
           e.type \in {"open", "error", "close"}, EmitAll(Append(q, e)),
           sess'.status = IF e.type = "open" THEN "connected"
                          ELSE IF e.type = "error" THEN "error" ELSE "disconnected",
           UNCHANGED <<room, view>>, Quiet(sess'.buffered)
    PROVE  Hearing'
    <1>1. \A k \in room : inbox'[k] = Append(inbox[k] \o q, e) /\ inbox[k] \o q \in Seq(Event)
        <2> TAKE k \in room
        <2>1. k \in Clients /\ inbox[k] \in Seq(Event)
            BY DEF TypeOK, GatewayTypeOK
        <2>2. inbox'[k] = inbox[k] \o Append(q, e)
            BY <2>1 DEF EmitAll
        <2> QED
            BY <2>1, <2>2, ConcatProperties, AppendOfConcat
    <1>2. \A k \in room : HearsConnected(k)' <=> e.type = "open"
        <2> TAKE k \in room
        <2> DEFINE earlier == inbox[k] \o q
        <2>1. earlier \in Seq(Event) /\ inbox'[k] = Append(earlier, e)
            BY <1>1
        <2>2. e.type \in StatusEvents
            BY DEF StatusEvents
        <2> HIDE DEF earlier
        <2>3. Hears(Append(earlier, e), view'[k]) <=> e.type = "open"
            BY <2>1, <2>2, LastStatusIsHeard
        <2> QED
            BY <2>1, <2>3 DEF HearsConnected
    <1> QED
        BY <1>2 DEF Hearing, RoomHearsTheSession

\* Clients joining, leaving, receiving and losing their sockets.
LEMMA HearingClients ==
    ASSUME TypeOK, Hearing, NEW k \in Clients,
           ClientJoins(k) \/ ClientGoes(k) \/ ClientStays(k)
    PROVE  Hearing'
    <1>0. sess \in SessionType /\ \A c \in Clients : inbox[c] \in Seq(Event)
        BY DEF TypeOK, GatewayTypeOK
    <1>00. room \subseteq Clients /\ inbox \in [Clients -> Seq(Event)]
               /\ view \in [Clients -> Status]
        BY DEF TypeOK, GatewayTypeOK
    <1>1. CASE ClientJoins(k)
        <2>1. /\ inbox' = [inbox EXCEPT ![k] = @ \o Replay(sess)]
              /\ sess'.status = sess.status /\ Quiet(sess'.buffered)
              /\ room' = room \cup {k}
              /\ UNCHANGED <<view, deleted, ws>>
            BY <1>0, <1>1, AfterReplayType DEF ClientJoins, Join, wsVars, Hearing, Quiet
        <2>2. CASE sess.status = "connecting"
            <3>1. Replay(sess) = <<>>
                BY <2>2 DEF Replay
            <3>2. inbox' = inbox
                BY <1>0, <1>00, <2>1, <3>1, ConcatEmptySeq
            <3> QED
                BY <1>0, <1>00, <2>1, <2>2, <3>2
                DEF Hearing, RoomHearsTheSession, HearsConnected, Hears, Quiet, StatusEvents
        <2>3. CASE sess.status # "connecting"
            <3>1. HearsConnected(k)' <=> sess.status = "connected"
                BY <1>0, <1>00, <2>1, <2>3, JoiningIsHearing DEF Hearing, HearsConnected
            <3>2. \A c \in room : c # k => (HearsConnected(c)' <=> HearsConnected(c))
                BY <1>00, <2>1 DEF HearsConnected
            <3> QED
                BY <1>00, <2>1, <2>3, <3>1, <3>2 DEF Hearing, RoomHearsTheSession
        <2> QED
            BY <2>2, <2>3
    <1>2. CASE ClientGoes(k)
        <2>1. /\ room' = room \ {k} /\ UNCHANGED <<sess, view, deleted, ws>>
              /\ \A c \in Clients : inbox'[c] = inbox[c] \/ (c = k /\ inbox'[c] = <<>>)
            BY <1>00, <1>2 DEF ClientGoes, Leave, ControlDrop, wsVars
        <2> QED
            BY <1>0, <1>00, <2>1 DEF Hearing, RoomHearsTheSession, HearsConnected, Quiet
    <1>3. CASE ClientStays(k)
        <2>1. CASE Receive(k)
            <3>1. /\ inbox[k] # <<>>
                  /\ inbox'[k] = Tail(inbox[k])
                  /\ view'[k] = ViewAfter(view[k], Head(inbox[k]).type)
                  /\ \A c \in Clients : c # k => inbox'[c] = inbox[c] /\ view'[c] = view[c]
                  /\ UNCHANGED <<sess, room, deleted, ws>>
                BY <1>00, <1>3, <2>1
                DEF ClientStays, Receive, serverSide, wsVars, history
            <3>2. /\ HearsConnected(k)' <=> HearsConnected(k)
                  /\ Quiet(inbox[k]) => Quiet(inbox'[k]) /\ view'[k] = view[k]
                BY <1>0, <3>1, ReceivingIsHearing DEF HearsConnected
            <3>3. \A c \in Clients : c # k => (HearsConnected(c)' <=> HearsConnected(c))
                BY <3>1 DEF HearsConnected
            <3> QED
                BY <1>00, <3>1, <3>2, <3>3 DEF Hearing, RoomHearsTheSession
        <2>2. CASE ControlReconnect(k)
            BY <1>3, <2>2
            DEF ClientStays, ControlReconnect, wsVars, history, Hearing,
                RoomHearsTheSession, HearsConnected
        <2> QED
            BY <1>3, <2>1, <2>2 DEF ClientStays
    <1> QED
        BY <1>1, <1>2, <1>3

\* Forwarding a message is no news about the connection.
LEMMA HearingForward ==
    ASSUME TypeOK, Hearing, NEW s \in SessionType, NEW n \in Nat, Forward(s, n),
           s.status = sess.status, s.buffered = sess.buffered,
           UNCHANGED <<room, view, deleted, ws>>
    PROVE  Hearing'
    <1> DEFINE ev == Ev("message", n)
    <1>1. ev \in Event /\ <<ev>> \in Seq(Event) /\ ev.type \notin StatusEvents
        BY DEF Ev, Event, EventType, StatusEvents
    <1>2. Quiet(<<ev>>)
        BY <1>1 DEF Quiet
    <1>3. s.buffered \in Seq(Event) /\ Quiet(s.buffered)
        BY DEF SessionType, Hearing
    <1> HIDE DEF ev
    <1>4. /\ Append(s.buffered, ev) \in Seq(Event) /\ Append(s.buffered, ev) # <<>>
          /\ Quiet(Append(s.buffered, ev))
        BY <1>1, <1>3, AppendProperties, LenProperties DEF Quiet
    <1>5. Quiet(Tail(Append(s.buffered, ev)))
        BY <1>4, ReceivingIsHearing
    <1>6. Quiet(BufferMessage(s, ev).buffered)
        BY <1>4, <1>5 DEF BufferMessage, SessionType
    <1>7. sess' = BufferMessage(s, ev) /\ EmitAll(<<ev>>)
        BY DEF Forward, Emit, ev
    <1>8. sess'.status = sess.status /\ Quiet(sess'.buffered)
        BY <1>1, <1>6, <1>7, BufferMessageType
    <1> QED
        BY <1>1, <1>2, <1>7, <1>8, HearingQuiet

\* A job that emits nothing and leaves the session alone.
LEMMA HearingSilent ==
    ASSUME Hearing, UNCHANGED gatewayVars, UNCHANGED deleted,
           ws' = "closed" => ws = "closed"
    PROVE  Hearing'
    BY DEF Hearing, RoomHearsTheSession, HearsConnected, gatewayVars

\* Every job keeps Hearing: a job that changes the status tells the room.
LEMMA HearingStep == TypeOK /\ Lifecycle /\ Hearing /\ [Next]_vars => Hearing'
    <1> SUFFICES ASSUME TypeOK, Lifecycle, Hearing, [Next]_vars PROVE Hearing'
        OBVIOUS
    <1> USE DEF pingVars, condVars, feedVars, clients, history
    <1>0. sess \in SessionType /\ Quiet(sess.buffered)
        BY DEF TypeOK, GatewayTypeOK, Hearing
    <1>00. /\ \A type \in {"open", "error", "close"} :
                 Ev(type, 0) \in Event /\ Ev(type, 0).type = type
           /\ \A type \in {"sent", "pong"} :
                 /\ <<Ev(type, 0)>> \in Seq(Event) /\ Quiet(<<Ev(type, 0)>>)
           /\ Quiet(<<>>) /\ <<>> \in Seq(Event)
        BY DEF Ev, Event, EventType, StatusEvents, Quiet
    <1>1. ASSUME NEW k \in Clients, ClientJoins(k) \/ ClientGoes(k) \/ ClientStays(k)
          PROVE  Hearing'
        BY <1>1, HearingClients
    <1>2. CASE (\E c \in Conditions : SetCondition(c)) \/ ClearCondition \/ CutConnection
        BY <1>2, HearingSilent
        DEF SetCondition, ClearCondition, CutConnection, AfterWsClose
    <1>3. CASE OnOpen
        <2>1. sess'.status = "connected" /\ Quiet(sess'.buffered)
            BY <1>0, <1>3, UpdateStatusType DEF OnOpen, Status
        <2>2. EmitAll(Append(<<>>, Ev("open", 0))) /\ UNCHANGED <<room, view>>
            BY <1>3 DEF OnOpen, Emit
        <2> QED
            BY <1>00, <2>1, <2>2, HearingStatus
    <1>4. CASE OnMessage
        <2> DEFINE s == RecordReceived(sess, pingTs)
        <2>1. s \in SessionType /\ s.status = sess.status /\ s.buffered = sess.buffered
            BY <1>0, RecordTypes DEF TypeOK, SameAs
        <2>2. arrived + 1 \in Nat
            BY DEF TypeOK
        <2>3. UNCHANGED <<online, room, view, deleted, ws>>
            BY <1>4 DEF OnMessage
        <2>4. Forward(s, arrived + 1) \/ (sess' = s /\ UNCHANGED inbox)
            BY <1>4 DEF OnMessage
        <2> HIDE DEF s
        <2>5. CASE Forward(s, arrived + 1)
            BY <2>1, <2>2, <2>3, <2>5, HearingForward
        <2>6. CASE sess' = s /\ UNCHANGED inbox
            BY <2>1, <2>3, <2>6 DEF Hearing, RoomHearsTheSession, HearsConnected
        <2> QED
            BY <2>4, <2>5, <2>6
    <1>5. CASE OnMessageDropped \/ HandshakeRejected \/ PeerEnds
        BY <1>5, HearingSilent DEF OnMessageDropped, HandshakeRejected, PeerEnds
    <1>6. ASSUME NEW i \in DOMAIN pending, ForwardDelayed(i)
          PROVE  Hearing'
        <2>1. pending[i] \in Delayed
            BY LenProperties, ElementOfSeq DEF TypeOK
        <2>2. pending[i].id \in Nat
            BY <2>1 DEF Delayed
        <2> QED
            BY <1>0, <1>6, <2>2, HearingForward DEF ForwardDelayed
    <1>7. CASE HandshakeFails
        <2>1. sess'.status = "disconnected" /\ Quiet(sess'.buffered)
            BY <1>0, <1>7, ErrorAndCloseSession DEF HandshakeFails
        <2>2. <<Ev("error", 0), Ev("close", 0)>> = Append(<<Ev("error", 0)>>, Ev("close", 0))
            OBVIOUS
        <2>3. <<Ev("error", 0)>> \in Seq(Event)
            BY <1>00
        <2>4. EmitAll(Append(<<Ev("error", 0)>>, Ev("close", 0))) /\ UNCHANGED <<room, view>>
            BY <1>7, <2>2 DEF HandshakeFails
        <2> QED
            BY <1>00, <2>1, <2>3, <2>4, HearingStatus
    <1>8. CASE OnError
        <2>1. sess'.status = "error" /\ Quiet(sess'.buffered)
            BY <1>0, <1>8, ErrorAndCloseSession DEF OnError
        <2>2. EmitAll(Append(<<>>, Ev("error", 0))) /\ UNCHANGED <<room, view>>
            BY <1>8 DEF OnError, Emit
        <2> QED
            BY <1>00, <2>1, <2>2, HearingStatus
    <1>9. CASE OnClose
        <2>1. sess'.status = "disconnected" /\ Quiet(sess'.buffered)
            BY <1>0, <1>9, ErrorAndCloseSession DEF OnClose
        <2>2. EmitAll(Append(<<>>, Ev("close", 0))) /\ UNCHANGED <<room, view>>
            BY <1>9 DEF OnClose, Emit
        <2> QED
            BY <1>00, <2>1, <2>2, HearingStatus
    <1>10. CASE OnPong
        <2>1. PICK evs \in {<<Ev("pong", 0)>>, <<>>} : EmitAll(evs)
            BY <1>10 DEF OnPong
        <2>2. evs \in Seq(Event) /\ Quiet(evs)
            BY <1>00, <2>1
        <2> QED
            BY <1>0, <1>10, <2>1, <2>2, HearingQuiet DEF OnPong
    <1>11. CASE SendMessage
        <2>1. /\ sess'.status = sess.status /\ Quiet(sess'.buffered)
              /\ UNCHANGED <<room, view, deleted, ws>>
            BY <1>0, <1>11, RecordTypes DEF SendMessage, SameAs
        <2>2. CASE UNCHANGED inbox
            BY <2>1, <2>2 DEF Hearing, RoomHearsTheSession, HearsConnected
        <2>3. CASE EmitAll(<<Ev("sent", 0)>>)
            BY <1>00, <2>1, <2>3, HearingQuiet
        <2> QED
            BY <1>11, <2>2, <2>3 DEF SendMessage, Emit
    <1>12. CASE SendPing \/ \E p \in Ping : PingAsync(p) \/ PingTimeout(p)
        BY <1>12, HearingSilent DEF SendPing, PingAsync, PingTimeout
    <1>13. CASE CloseConnection
        <2>1. sess'.status = "disconnected" /\ Quiet(sess'.buffered)
            BY <1>0, <1>13, UpdateStatusType DEF CloseConnection, Status
        <2>2. /\ UNCHANGED <<inbox, room, view>> /\ deleted' = TRUE
              /\ ws' = "closed" => ws = "closed"
            BY <1>13 DEF CloseConnection, AfterWsClose
        <2>3. ws = "closed" => sess.status = "disconnected"
            BY DEF Lifecycle, ClosedIsSettled
        <2> QED
            BY <2>1, <2>2, <2>3 DEF Hearing, RoomHearsTheSession, HearsConnected
    <1>14. CASE UNCHANGED vars
        BY <1>14, HearingSilent DEF vars, wsVars
    <1> QED
        BY <1>1, <1>2, <1>3, <1>4, <1>5, <1>6, <1>7, <1>8, <1>9, <1>10, <1>11, <1>12,
           <1>13, <1>14 DEF Next, ConnectionNext

\* A browser that stays in the room never believes a connection to be up that
\* is down, or the converse, once it has received what was sent to it; the only
\* gap is the one between a DELETE and the library's 'close'.
THEOREM RoomAgreesWithSession == Spec => []RoomHearsTheSession
    <1>1. Hearing => RoomHearsTheSession
        BY DEF Hearing
    <1> QED
        BY <1>1, TypeCorrect, LifecycleCorrect, HearingInit, HearingStep, PTL DEF Spec

-----------------------------------------------------------------------------
(* Refinement: the status keeps what ConnectionLife promises.               *)

\* The inductive invariant: before 'open' the session is connecting, and while
\* the library may still report an error it is connected or deleted.
Stage ==
    /\ ws = "connecting" => sess.status = "connecting" /\ ~deleted
    /\ ws \in {"open", "closing"} => sess.status = "connected" \/ deleted

\* At first the handshake is under way.
LEMMA StageInit == Init => Stage
    BY DEF Init, GatewayInit, NewSession, Stage

\* A job that is no handler of 'open', 'error' or 'close', nor a DELETE, leaves
\* the status alone, and the connection only moves towards its end.
LEMMA StatusKept ==
    ASSUME TypeOK, Next,
           ~OnOpen, ~HandshakeFails, ~OnError, ~OnClose, ~CloseConnection
    PROVE  /\ sess'.status = sess.status /\ deleted' = deleted
           /\ ws' = ws \/ ws' \in {"aborting", "ending"}
                \/ (ws = "open" /\ ws' = "closing")
    <1> USE DEF pingVars, condVars, feedVars, clients, history, wsVars
    <1>0. sess \in SessionType
        BY DEF TypeOK, GatewayTypeOK
    <1>1. ASSUME NEW k \in Clients, ClientJoins(k) \/ ClientGoes(k) \/ ClientStays(k)
          PROVE  sess'.status = sess.status /\ UNCHANGED <<ws, deleted>>
        BY <1>0, <1>1, AfterReplayType
        DEF ClientJoins, Join, ClientGoes, Leave, ControlDrop, ClientStays, Receive,
            ControlReconnect, serverSide
    <1>2. CASE (\E c \in Conditions : SetCondition(c)) \/ ClearCondition \/ CutConnection
        BY <1>2 DEF SetCondition, ClearCondition, CutConnection, AfterWsClose, gatewayVars
    <1>3. ASSUME NEW s \in SessionType, NEW n \in Nat, Forward(s, n)
          PROVE  sess'.status = s.status
        BY <1>3, BufferMessageType DEF Forward, Ev, Event, EventType
    <1>4. CASE OnMessage
        <2>1. /\ RecordReceived(sess, pingTs) \in SessionType
              /\ RecordReceived(sess, pingTs).status = sess.status
            BY <1>0, RecordTypes DEF TypeOK, SameAs
        <2>2. arrived + 1 \in Nat
            BY DEF TypeOK
        <2>3. \/ Forward(RecordReceived(sess, pingTs), arrived + 1)
              \/ sess' = RecordReceived(sess, pingTs)
            BY <1>4 DEF OnMessage
        <2> QED
            BY <1>3, <1>4, <2>1, <2>2, <2>3 DEF OnMessage
    <1>5. ASSUME NEW i \in DOMAIN pending, ForwardDelayed(i)
          PROVE  sess'.status = sess.status /\ UNCHANGED <<ws, deleted>>
        <2>1. pending[i] \in Delayed
            BY LenProperties, ElementOfSeq DEF TypeOK
        <2>2. pending[i].id \in Nat
            BY <2>1 DEF Delayed
        <2> QED
            BY <1>0, <1>3, <1>5, <2>2 DEF ForwardDelayed
    <1>6. CASE OnMessageDropped \/ HandshakeRejected \/ PeerEnds \/ OnPong
        BY <1>6 DEF OnMessageDropped, HandshakeRejected, PeerEnds, OnPong, gatewayVars
    <1>7. CASE SendMessage
        BY <1>0, <1>7, RecordTypes DEF SendMessage, SameAs
    <1>8. CASE SendPing \/ \E p \in Ping : PingAsync(p) \/ PingTimeout(p)
        BY <1>8 DEF SendPing, PingAsync, PingTimeout, gatewayVars
    <1> QED
        BY <1>1, <1>2, <1>4, <1>5, <1>6, <1>7, <1>8 DEF Next, ConnectionNext

\* Every job keeps Stage.
LEMMA StageStep == TypeOK /\ Stage /\ [Next]_vars => Stage'
    <1> SUFFICES ASSUME TypeOK, Stage, [Next]_vars PROVE Stage'
        OBVIOUS
    <1>0. sess \in SessionType
        BY DEF TypeOK, GatewayTypeOK
    <1>1. CASE OnOpen
        BY <1>0, <1>1, UpdateStatusType DEF OnOpen, Status, Stage
    <1>2. CASE HandshakeFails \/ OnError \/ OnClose
        BY <1>2 DEF HandshakeFails, OnError, OnClose, CloseCleanup, Stage
    <1>3. CASE CloseConnection
        BY <1>3 DEF CloseConnection, AfterWsClose, Stage
    <1>4. CASE Next /\ ~OnOpen /\ ~HandshakeFails /\ ~OnError /\ ~OnClose /\ ~CloseConnection
        BY <1>4, StatusKept DEF Stage
    <1>5. CASE UNCHANGED vars
        BY <1>5 DEF vars, wsVars, history, gatewayVars, Stage
    <1> QED
        BY <1>1, <1>2, <1>3, <1>4, <1>5

\* Stage holds at all times.
LEMMA StageCorrect == Spec => []Stage
    BY TypeCorrect, StageInit, StageStep, PTL DEF Spec

\* Every job is a step of ConnectionLife, or none: 'open' is ComeUp, 'error' is
\* Fail, 'close' and a handshake that fails are End, a DELETE is Delete.
LEMMA LifeStep == TypeOK /\ Stage /\ [Next]_vars => [Life!Next]_(Life!lifeVars)
    <1> SUFFICES ASSUME TypeOK, Stage, [Next]_vars
                 PROVE  Life!Next \/ UNCHANGED <<sess.status, deleted>>
        BY DEF Life!lifeVars
    <1> USE DEF history
    <1>0. sess \in SessionType
        BY DEF TypeOK, GatewayTypeOK
    <1>1. CASE OnOpen
        <2>1. sess'.status = "connected"
            BY <1>0, <1>1, UpdateStatusType DEF OnOpen, Status
        <2> QED
            BY <1>1, <2>1 DEF OnOpen, Stage, Life!Next, Life!ComeUp
    <1>2. CASE OnError
        <2>1. sess'.status = "error"
            BY <1>0, <1>2, ErrorAndCloseSession DEF OnError
        <2> QED
            BY <1>2, <2>1 DEF OnError, Stage, Life!Next, Life!Fail
    <1>3. CASE HandshakeFails \/ OnClose
        <2>1. sess'.status = "disconnected"
            BY <1>0, <1>3, ErrorAndCloseSession DEF HandshakeFails, OnClose
        <2> QED
            BY <1>3, <2>1 DEF HandshakeFails, OnClose, Life!Next, Life!End
    <1>4. CASE CloseConnection
        <2>1. sess'.status = "disconnected"
            BY <1>0, <1>4, UpdateStatusType DEF CloseConnection, Status
        <2> QED
            BY <1>4, <2>1 DEF CloseConnection, Life!Next, Life!Delete
    <1>5. CASE Next /\ ~OnOpen /\ ~HandshakeFails /\ ~OnError /\ ~OnClose /\ ~CloseConnection
        BY <1>5, StatusKept
    <1>6. CASE UNCHANGED vars
        BY <1>6 DEF vars, gatewayVars
    <1> QED
        BY <1>1, <1>2, <1>3, <1>4, <1>5, <1>6

\* A WebSocket connection implements ConnectionLife without retries: it comes up
\* once, never after it failed, ended or was deleted.
THEOREM ImplementsConnectionLife == Spec => RefinesLife
    <1>1. Init => Life!Init
        BY DEF Init, GatewayInit, NewSession, Life!Init
    <1> QED
        BY <1>1, TypeCorrect, StageCorrect, LifeStep, PTL DEF Spec, RefinesLife, Life!Spec


-----------------------------------------------------------------------------
(* Messages are counted once.                                               *)

\* Only an arriving message is counted as received (session.service.ts:64-81).
LEMMA ReceivedKept ==
    ASSUME NEW s \in SessionType, NEW status \in Status, NEW ev \in Event, NEW rtt
    PROVE  /\ UpdateStatus(s, status).received = s.received
           /\ RecordSent(s).received = s.received
           /\ RecordError(s).received = s.received
           /\ BufferMessage(s, ev).received = s.received
           /\ AfterReplay(s).received = s.received
           /\ RecordReceived(s, rtt).received = s.received + 1
           /\ RecordReceived(s, rtt).buffered = s.buffered
    BY DEF SessionType, UpdateStatus, RecordSent, RecordError, BufferMessage,
           AfterReplay, RecordReceived

\* The inductive invariant: the messages being delayed differ, and all of them
\* have arrived.
Counted ==
    /\ sess.received = Cardinality(forwarded) + Len(pending)
    /\ forwarded \subseteq 1..arrived
    /\ \A i \in DOMAIN pending : pending[i].id \in (1..arrived) \ forwarded
    /\ \A i, j \in DOMAIN pending : pending[i].id = pending[j].id => i = j

\* At first nothing has arrived.
LEMMA CountedInit == Init => Counted
    BY FS_EmptySet, EmptySeq DEF Init, GatewayInit, NewSession, Counted

\* A job that handles no message counts none.
LEMMA CountKept ==
    ASSUME TypeOK, [Next]_vars,
           ~OnMessage, ~OnMessageDropped, ~\E i \in DOMAIN pending : ForwardDelayed(i)
    PROVE  UNCHANGED <<forwarded, pending, arrived>> /\ sess'.received = sess.received
    <1> USE DEF pingVars, condVars, feedVars, clients, history, wsVars
    <1>0. sess \in SessionType /\ {"connected", "error", "disconnected"} \subseteq Status
              /\ Ev("open", 0) \in Event
        BY EventTypes DEF TypeOK, GatewayTypeOK, Status
    <1>1. ASSUME NEW k \in Clients, ClientJoins(k) \/ ClientGoes(k) \/ ClientStays(k)
          PROVE  UNCHANGED <<forwarded, pending, arrived>> /\ sess'.received = sess.received
        BY <1>0, <1>1, ReceivedKept
        DEF ClientJoins, Join, ClientGoes, Leave, ControlDrop, ClientStays, Receive,
            ControlReconnect, serverSide
    <1>2. CASE (\E c \in Conditions : SetCondition(c)) \/ ClearCondition \/ CutConnection
        BY <1>2 DEF SetCondition, ClearCondition, CutConnection, gatewayVars
    <1>3. CASE OnOpen \/ CloseConnection
        BY <1>0, <1>3, ReceivedKept DEF OnOpen, CloseConnection
    <1>4. CASE HandshakeFails \/ OnError \/ OnClose
        <2>1. /\ UpdateStatus(sess, "error") \in SessionType
              /\ UpdateStatus(sess, "error").received = sess.received
            BY <1>0, UpdateStatusType, ReceivedKept
        <2>2. ErrorSession(sess) \in SessionType /\ ErrorSession(sess).received = sess.received
            BY <1>0, <2>1, ReceivedKept, ErrorAndCloseSession DEF ErrorSession
        <2>3. /\ CloseSession(sess).received = sess.received
              /\ CloseSession(ErrorSession(sess)).received = sess.received
            BY <1>0, <2>2, ReceivedKept DEF CloseSession
        <2> QED
            BY <1>4, <2>2, <2>3 DEF HandshakeFails, OnError, OnClose
    <1>5. CASE HandshakeRejected \/ PeerEnds \/ OnPong
        BY <1>5 DEF HandshakeRejected, PeerEnds, OnPong, gatewayVars
    <1>6. CASE SendMessage
        BY <1>0, <1>6, ReceivedKept DEF SendMessage
    <1>7. CASE SendPing \/ \E p \in Ping : PingAsync(p) \/ PingTimeout(p)
        BY <1>7 DEF SendPing, PingAsync, PingTimeout, gatewayVars
    <1>8. CASE UNCHANGED vars
        BY <1>8 DEF vars, gatewayVars
    <1> QED
        BY <1>1, <1>2, <1>3, <1>4, <1>5, <1>6, <1>7, <1>8 DEF Next, ConnectionNext

\* The messages that have arrived are finitely many.
LEMMA ForwardedCounted ==
    ASSUME forwarded \subseteq 1..arrived, arrived \in Nat, NEW n, n \notin forwarded
    PROVE  /\ Cardinality(forwarded) \in Nat
           /\ Cardinality(forwarded \cup {n}) = Cardinality(forwarded) + 1
    <1>1. IsFiniteSet(1..arrived)
        BY FS_Interval
    <1>2. IsFiniteSet(forwarded)
        BY <1>1, FS_Subset
    <1> QED
        BY <1>2, FS_CardinalityType, FS_AddElement

\* A message is counted when it arrives, in the job that hands it on or delays it
\* (websocket.service.ts:105-146).
LEMMA CountedArrival == TypeOK /\ Counted /\ OnMessage => Counted'
    <1> SUFFICES ASSUME TypeOK, Counted, OnMessage PROVE Counted'
        OBVIOUS
    <1> DEFINE s == RecordReceived(sess, pingTs)
               n == arrived + 1
    <1>1. /\ arrived \in Nat /\ pending \in Seq(Delayed) /\ Len(pending) \in Nat
          /\ sess \in SessionType /\ s \in SessionType /\ sess.received \in Nat
        <2>1. /\ arrived \in Nat /\ pending \in Seq(Delayed) /\ sess \in SessionType
              /\ pingTs \in BOOLEAN
            BY DEF TypeOK, GatewayTypeOK
        <2>2. sess.received \in Nat
            BY <2>1 DEF SessionType
        <2>3. SameAs(sess, s)
            BY <2>1, RecordTypes
        <2> QED
            BY <2>1, <2>2, <2>3, LenProperties DEF SameAs
    <1>2. s.received = sess.received + 1
        <2>1. "error" \in Status /\ Ev("open", 0) \in Event
            BY EventTypes DEF Status
        <2> QED
            BY <1>1, <2>1, ReceivedKept
    <1>3. /\ n \notin forwarded /\ Cardinality(forwarded) \in Nat
          /\ Cardinality(forwarded \cup {n}) = Cardinality(forwarded) + 1
          /\ \A i \in DOMAIN pending : pending[i].id # n
        <2>1. n \notin 1..arrived
            BY <1>1
        <2> QED
            BY <1>1, <2>1, ForwardedCounted DEF Counted
    <1>4. arrived' = n /\ 1..arrived \subseteq 1..n /\ n \in 1..n
        BY <1>1 DEF OnMessage
    <1>5. \/ Forward(s, n) /\ UNCHANGED pending
          \/ /\ sess' = s /\ UNCHANGED forwarded
             /\ \E d \in Delays(cond) : pending' = Append(pending, [id |-> n, delay |-> d])
        BY DEF OnMessage
    <1> HIDE DEF s, n
    <1>6. CASE Forward(s, n) /\ UNCHANGED pending
        <2>1. Ev("message", n) \in Event
            BY <1>1, EventTypes DEF n
        <2>2. sess'.received = sess.received + 1
            BY <1>1, <1>2, <1>6, <2>1, ReceivedKept DEF Forward, Status
        <2>3. forwarded' = forwarded \cup {n}
            BY <1>6 DEF Forward
        <2>4. sess'.received = Cardinality(forwarded') + Len(pending')
            BY <1>1, <1>3, <1>6, <2>2, <2>3 DEF Counted
        <2> QED
            BY <1>3, <1>4, <1>6, <2>3, <2>4 DEF Counted
    <1>7. ASSUME sess' = s, UNCHANGED forwarded,
                 NEW d \in Delays(cond), pending' = Append(pending, [id |-> n, delay |-> d])
          PROVE  Counted'
        <2>1. pending' \in Seq(Delayed)
            BY TypeFeed DEF TypeOK
        <2>2. /\ DOMAIN pending = 1..Len(pending) /\ DOMAIN pending' = 1..(Len(pending) + 1)
              /\ Len(pending') = Len(pending) + 1
              /\ \A i \in 1..Len(pending) : pending'[i] = pending[i]
              /\ pending'[Len(pending) + 1].id = n
            BY <1>1, <1>7, LenProperties
        <2>3. sess'.received = Cardinality(forwarded') + Len(pending')
            BY <1>1, <1>2, <1>3, <1>7, <2>2 DEF Counted
        <2>4. \A i \in DOMAIN pending' : i \in DOMAIN pending \/ i = Len(pending) + 1
            BY <1>1, <2>2
        <2>5. \A i \in DOMAIN pending' : pending'[i].id \in (1..n) \ forwarded
            BY <1>3, <1>4, <2>2, <2>4 DEF Counted
        <2>6. \A i, j \in DOMAIN pending' : pending'[i].id = pending'[j].id => i = j
            BY <1>3, <2>2, <2>4 DEF Counted
        <2> QED
            BY <1>4, <1>7, <2>3, <2>5, <2>6 DEF Counted
    <1> QED
        BY <1>5, <1>6, <1>7

\* The timer of a delayed message moves it from one side of the account to the
\* other.
LEMMA CountedDelayed ==
    ASSUME TypeOK, Counted, NEW i \in DOMAIN pending, ForwardDelayed(i)
    PROVE  Counted'
    <1> DEFINE n == pending[i].id
    <1>1. /\ arrived \in Nat /\ pending \in Seq(Delayed) /\ Len(pending) \in Nat
          /\ DOMAIN pending = 1..Len(pending)
          /\ sess \in SessionType /\ sess.received \in Nat
        BY LenProperties DEF TypeOK, GatewayTypeOK, SessionType
    <1>2. n \in (1..arrived) \ forwarded
        BY DEF Counted
    <1>3. /\ Forward(sess, n) /\ UNCHANGED arrived
          /\ pending' = SubSeq(pending, 1, i - 1) \o SubSeq(pending, i + 1, Len(pending))
        BY DEF ForwardDelayed
    <1>4. \A j \in DOMAIN pending : pending[j].id = n => j = i
        BY DEF Counted
    <1> HIDE DEF n
    <1>5. forwarded' = forwarded \cup {n} /\ sess'.received = sess.received
        <2>1. Ev("message", n) \in Event
            BY <1>1, <1>2, EventTypes
        <2> QED
            BY <1>1, <1>3, <2>1, ReceivedKept DEF Forward, Status
    <1>6. /\ Cardinality(forwarded) \in Nat
          /\ Cardinality(forwarded') = Cardinality(forwarded) + 1
        BY <1>1, <1>2, <1>5, ForwardedCounted DEF Counted
    <1>7. /\ pending' \in Seq(Delayed) /\ Len(pending') = Len(pending) - 1
          /\ \A j \in 1..Len(pending') :
                pending'[j] = IF j < i THEN pending[j] ELSE pending[j + 1]
        BY <1>1, <1>3, SkipKeepsOthers DEF Skip
    <1>8. DOMAIN pending' = 1..Len(pending')
        BY <1>7, LenProperties
    <1>9. sess'.received = Cardinality(forwarded') + Len(pending')
        BY <1>1, <1>5, <1>6, <1>7 DEF Counted
    <1>10. \A j \in DOMAIN pending' : \E h \in DOMAIN pending \ {i} :
              pending'[j] = pending[h] /\ h = IF j < i THEN j ELSE j + 1
        <2>1. ASSUME NEW j \in DOMAIN pending' PROVE
                 LET h == IF j < i THEN j ELSE j + 1
                 IN  h \in DOMAIN pending \ {i} /\ pending'[j] = pending[h]
            <3>1. j \in 1..Len(pending') /\ i \in 1..Len(pending)
                BY <1>1, <1>8, <2>1
            <3>2. j \in Nat /\ j >= 1 /\ j <= Len(pending) - 1 /\ i \in Nat
                BY <1>1, <1>7, <3>1
            <3> QED
                BY <1>1, <1>7, <3>1, <3>2
        <2> QED
            BY <2>1
    <1>11. \A j \in DOMAIN pending' : pending'[j].id \in (1..arrived) \ forwarded'
        <2>1. \A h \in DOMAIN pending \ {i} : pending[h].id \in (1..arrived) \ forwarded'
            BY <1>4, <1>5 DEF Counted
        <2> QED
            BY <1>10, <2>1
    <1>12. \A j, l \in DOMAIN pending' : pending'[j].id = pending'[l].id => j = l
        <2>1. ASSUME NEW j \in DOMAIN pending', NEW l \in DOMAIN pending',
                     pending'[j].id = pending'[l].id
              PROVE  j = l
            <3>1. PICK h \in DOMAIN pending :
                     pending'[j] = pending[h] /\ h = IF j < i THEN j ELSE j + 1
                BY <1>10
            <3>2. PICK m \in DOMAIN pending :
                     pending'[l] = pending[m] /\ m = IF l < i THEN l ELSE l + 1
                BY <1>10
            <3>3. h = m
                BY <2>1, <3>1, <3>2 DEF Counted
            <3>4. j \in Int /\ l \in Int /\ i \in Int
                BY <1>1, <1>7, <1>8
            <3> QED
                BY <3>1, <3>2, <3>3, <3>4
        <2> QED
            BY <2>1
    <1> QED
        BY <1>2, <1>3, <1>5, <1>9, <1>11, <1>12 DEF Counted

\* Every job keeps the account: a dropped frame arrives and is not counted.
LEMMA CountedStep == TypeOK /\ Counted /\ [Next]_vars => Counted'
    <1> SUFFICES ASSUME TypeOK, Counted, [Next]_vars PROVE Counted'
        OBVIOUS
    <1>1. CASE OnMessageDropped
        <2>1. arrived' = arrived + 1 /\ arrived \in Nat /\ UNCHANGED <<sess, forwarded, pending>>
            BY <1>1 DEF OnMessageDropped, history, gatewayVars, TypeOK
        <2>2. 1..arrived \subseteq 1..arrived'
            BY <2>1
        <2> QED
            BY <2>1, <2>2 DEF Counted
    <1>2. CASE OnMessage
        BY <1>2, CountedArrival
    <1>3. ASSUME NEW i \in DOMAIN pending, ForwardDelayed(i) PROVE Counted'
        BY <1>3, CountedDelayed
    <1>4. CASE /\ ~OnMessage /\ ~OnMessageDropped
               /\ ~\E i \in DOMAIN pending : ForwardDelayed(i)
        BY <1>4, CountKept DEF Counted
    <1> QED
        BY <1>1, <1>2, <1>3, <1>4

\* The account holds at all times.
LEMMA CountedCorrect == Spec => []Counted
    BY TypeCorrect, CountedInit, CountedStep, PTL DEF Spec

\* The session's count of received messages is that of the messages handed on
\* and of those still being delayed: none is counted twice, and none is lost when
\* the connection closes or its condition changes while it is delayed.
THEOREM EachMessageIsCountedOnce == Spec => []CountedOnce
    <1>1. Counted => CountedOnce
        BY DEF Counted, CountedOnce
    <1> QED
        BY <1>1, CountedCorrect, PTL


-----------------------------------------------------------------------------
(* The first browser to join gets everything, once.                         *)

\* Nothing arrives before the session is connected.
Unopened == sess.status = "connecting" => ws \notin {"open", "closing"} /\ arrived = 0

\* At first nothing has arrived.
LEMMA UnopenedInit == Init => Unopened
    BY DEF Init, GatewayInit, NewSession, Unopened

\* The session is connected in the job that opens the socket.
LEMMA UnopenedStep == TypeOK /\ Unopened /\ [Next]_vars => Unopened'
    <1> SUFFICES ASSUME TypeOK, Unopened, [Next]_vars PROVE Unopened'
        OBVIOUS
    <1>0. sess \in SessionType
        BY DEF TypeOK, GatewayTypeOK
    <1>1. CASE OnOpen \/ HandshakeFails \/ OnError \/ OnClose \/ CloseConnection
        <2>1. sess'.status # "connecting"
            BY <1>0, <1>1, UpdateStatusType, ErrorAndCloseSession
            DEF OnOpen, HandshakeFails, OnError, OnClose, CloseConnection, Status
        <2> QED
            BY <2>1 DEF Unopened
    <1>2. CASE Next /\ ~OnOpen /\ ~HandshakeFails /\ ~OnError /\ ~OnClose /\ ~CloseConnection
        <2>1. /\ sess'.status = sess.status
              /\ ws' = ws \/ ws' \in {"aborting", "ending"} \/ (ws = "open" /\ ws' = "closing")
            BY <1>2, StatusKept
        <2>2. CASE OnMessage \/ OnMessageDropped
            BY <2>1, <2>2 DEF OnMessage, OnMessageDropped, Unopened
        <2>3. ASSUME NEW i \in DOMAIN pending, ForwardDelayed(i)
              PROVE  arrived' = arrived
            BY <2>3 DEF ForwardDelayed
        <2>4. CASE ~OnMessage /\ ~OnMessageDropped
            <3>1. arrived' = arrived
                BY <1>2, <2>3, <2>4, CountKept
            <3> QED
                BY <2>1, <3>1 DEF Unopened
        <2> QED
            BY <2>2, <2>4
    <1>3. CASE UNCHANGED vars
        BY <1>3 DEF vars, wsVars, feedVars, gatewayVars, Unopened
    <1> QED
        BY <1>1, <1>2, <1>3

\* While nobody has joined, what was handed on is in the buffer but for what the
\* buffer had no place for.
Waiting ==
    ~joined =>
        /\ room = {} /\ primary = NoClient
        /\ \A k \in Clients : inbox[k] = <<>> /\ seen[k] = <<>>
        /\ NoneTwice(sess.buffered)
        /\ Sent(sess.buffered) \subseteq forwarded
        /\ forwarded \subseteq Sent(sess.buffered) \cup evicted

\* The first to join is in the room, and was sent what was handed on.
Gets(k) == GotOf(seen[k], inbox[k])
Served ==
    primary # NoClient =>
        /\ primary \in room
        /\ Gets(primary) \subseteq forwarded
        /\ forwarded \subseteq Gets(primary) \cup evicted
        /\ TakenOf(seen[primary], inbox[primary]) = Cardinality(Gets(primary))

\* At first nobody has joined and nothing was sent.
LEMMA ServedInit == Init => Waiting /\ Served
    <1> SUFFICES ASSUME Init PROVE Waiting /\ Served
        OBVIOUS
    <1>1. NoneTwice(<<>>) /\ Sent(<<>>) = {}
        BY SentParts DEF NoneTwice
    <1> QED
        BY <1>1 DEF Init, GatewayInit, NewSession, Waiting, Served

\* A job that emits no message, and leaves the buffer alone.
LEMMA ServedQuietly ==
    ASSUME TypeOK, Waiting, Served, sess'.buffered = sess.buffered,
           UNCHANGED <<room, seen, joined, primary, forwarded, evicted>>,
           \/ UNCHANGED inbox
           \/ \E evs \in Seq(Event) : Where(evs, Messages) = {} /\ EmitAll(evs)
    PROVE  Waiting' /\ Served'
    <1>1. ASSUME NEW k \in Clients
          PROVE  /\ Gets(k)' = Gets(k)
                 /\ TakenOf(seen[k], inbox[k])' = TakenOf(seen[k], inbox[k])
        <2>1. CASE UNCHANGED inbox
            BY <2>1 DEF Gets
        <2>2. CASE \E evs \in Seq(Event) : Where(evs, Messages) = {} /\ EmitAll(evs)
            <3>1. PICK evs \in Seq(Event) : Where(evs, Messages) = {} /\ EmitAll(evs)
                BY <2>2
            <3>2. inbox[k] \in Seq(Event)
                BY DEF TypeOK, GatewayTypeOK
            <3>3. inbox'[k] = inbox[k] \/ inbox'[k] = inbox[k] \o evs
                BY <3>1 DEF EmitAll
            <3>4. /\ GotOf(seen[k], inbox[k] \o evs) = GotOf(seen[k], inbox[k])
                  /\ TakenOf(seen[k], inbox[k] \o evs) = TakenOf(seen[k], inbox[k])
                BY <3>1, <3>2, OthersAreNotGot
            <3> QED
                BY <3>3, <3>4 DEF Gets
        <2> QED
            BY <2>1, <2>2
    <1>2. Waiting'
        <2>1. ~joined => UNCHANGED inbox
            <3>1. inbox \in [Clients -> Seq(Event)]
                BY DEF TypeOK, GatewayTypeOK
            <3> QED
                BY <3>1 DEF Waiting, EmitAll
        <2> QED
            BY <2>1 DEF Waiting
    <1>3. Served'
        <2>1. primary # NoClient => primary \in Clients
            BY DEF TypeOK
        <2> QED
            BY <1>1, <2>1 DEF Served
    <1> QED
        BY <1>2, <1>3

\* A message is handed on (websocket.service.ts:133-144): to the buffer while
\* nobody has joined, to the room from then on.
LEMMA ServedForward ==
    ASSUME TypeOK, Counted, Waiting, Served, NEW s \in SessionType, NEW n \in Nat,
           Forward(s, n), n \notin forwarded, s.buffered = sess.buffered,
           UNCHANGED <<room, seen, joined, primary>>
    PROVE  Waiting' /\ Served'
    <1> DEFINE ev == Ev("message", n)
               b == s.buffered
    <1>1. /\ forwarded' = forwarded \cup {n}
          /\ evicted' = IF room # {} \/ Len(b) < MaxBuffered THEN evicted
                        ELSE evicted \cup {Head(b).id}
          /\ inbox' = [k \in Clients |-> IF k \in room THEN inbox[k] \o <<ev>> ELSE inbox[k]]
          /\ sess'.buffered = BufferMessage(s, ev).buffered
        BY DEF Forward, Emit, EmitAll
    <1>2. inbox \in [Clients -> Seq(Event)] /\ seen \in [Clients -> Seq(Nat)]
        BY DEF TypeOK, GatewayTypeOK
    <1> HIDE DEF ev
    <1>3. ASSUME ~joined PROVE Waiting'
        <2>1. /\ room = {} /\ primary = NoClient /\ n \notin Sent(b)
              /\ \A k \in Clients : inbox[k] = <<>> /\ seen[k] = <<>>
              /\ NoneTwice(b) /\ Sent(b) \subseteq forwarded
              /\ forwarded \subseteq Sent(b) \cup evicted
            BY <1>3 DEF Waiting
        <2> DEFINE t == sess'.buffered
        <2>2. t = BufferMessage(s, ev).buffered
            BY <1>1
        <2> HIDE DEF t
        <2>3. /\ NoneTwice(t) /\ n \in Sent(t) /\ Sent(t) \subseteq Sent(b) \cup {n}
              /\ Sent(b) \subseteq
                    Sent(t) \cup IF Len(b) < MaxBuffered THEN {} ELSE {Head(b).id}
            <3>1. NoneTwice(s.buffered) /\ n \notin Sent(s.buffered)
                BY <2>1
            <3>2. t = BufferMessage(s, Ev("message", n)).buffered
                BY <2>2 DEF ev
            <3> QED
                BY <3>1, <3>2, BufferKeeps
        <2>4. Sent(t) \subseteq forwarded'
            BY <1>1, <2>1, <2>3
        <2>5. forwarded' \subseteq Sent(t) \cup evicted'
            BY <1>1, <2>1, <2>3
        <2>6. \A k \in Clients : inbox'[k] = <<>> /\ seen'[k] = <<>>
            BY <1>1, <1>2, <2>1
        <2> QED
            BY <2>1, <2>3, <2>4, <2>5, <2>6 DEF Waiting, t
    <1>4. Waiting'
        BY <1>3 DEF Waiting
    <1>5. ASSUME primary # NoClient PROVE Served'
        <2> DEFINE q == inbox[primary]
                   r == seen[primary]
        <2>1. /\ primary \in room /\ primary \in Clients
              /\ GotOf(r, q) \subseteq forwarded /\ forwarded \subseteq GotOf(r, q) \cup evicted
              /\ TakenOf(r, q) = Cardinality(GotOf(r, q))
            BY <1>5 DEF Served, Gets, TypeOK
        <2>2. inbox'[primary'] = q \o <<ev>> /\ seen'[primary'] = r
            BY <1>1, <2>1
        <2>3. q \in Seq(Event) /\ r \in Seq(Nat)
            BY <1>2, <2>1
        <2> HIDE DEF q, r
        <2>4. /\ GotOf(r, q \o <<ev>>) = GotOf(r, q) \cup {n}
              /\ TakenOf(r, q \o <<ev>>) = TakenOf(r, q) + 1
            BY <2>3, MessageIsGot DEF ev
        <2>5. Cardinality(GotOf(r, q) \cup {n}) = Cardinality(GotOf(r, q)) + 1
            <3>1. IsFiniteSet(1..arrived)
                BY FS_Interval DEF TypeOK
            <3>2. GotOf(r, q) \in SUBSET (1..arrived) /\ n \notin GotOf(r, q)
                BY <2>1 DEF Counted
            <3>3. IsFiniteSet(GotOf(r, q))
                BY <3>1, <3>2, FS_Subset
            <3> QED
                BY <3>2, <3>3, FS_AddElement
        <2>6. evicted \subseteq evicted'
            BY <1>1
        <2>7. Gets(primary)' = GotOf(r, q) \cup {n}
            BY <2>2, <2>4 DEF Gets
        <2>8. TakenOf(seen[primary], inbox[primary])' = Cardinality(Gets(primary)')
            BY <2>1, <2>2, <2>4, <2>5, <2>7
        <2>9. /\ Gets(primary)' \subseteq forwarded'
              /\ forwarded' \subseteq Gets(primary)' \cup evicted'
            BY <1>1, <2>1, <2>6, <2>7
        <2> QED
            BY <2>1, <2>8, <2>9 DEF Served
    <1>6. Served'
        BY <1>5 DEF Served
    <1> QED
        BY <1>4, <1>6

\* The first browser to join is replayed the buffer; the others do not matter.
LEMMA ServedClients ==
    ASSUME TypeOK, Counted, Unopened, Waiting, Served, NEW k \in Clients,
           ClientJoins(k) \/ ClientGoes(k) \/ ClientStays(k)
    PROVE  Waiting' /\ Served'
    <1> USE DEF clients, history
    <1>0. /\ sess \in SessionType /\ room \subseteq Clients
          /\ inbox \in [Clients -> Seq(Event)] /\ seen \in [Clients -> Seq(Nat)]
          /\ primary \in Clients \cup {NoClient} /\ NoClient \notin Clients
          /\ UNCHANGED <<forwarded, evicted>>
        BY WsAssumption
        DEF TypeOK, GatewayTypeOK, ClientJoins, ClientGoes, ClientStays
    <1>1. CASE ClientJoins(k)
        <2>1. /\ k \notin room /\ room' = room \cup {k} /\ joined' /\ UNCHANGED seen
              /\ inbox' = [inbox EXCEPT ![k] = @ \o Replay(sess)]
              /\ primary' = IF ~joined /\ sess.status \in {"connecting", "connected"}
                            THEN k ELSE primary
            BY <1>1 DEF ClientJoins, Join
        <2>2. Waiting'
            BY <2>1 DEF Waiting
        <2>3. CASE primary' = primary /\ primary # NoClient
            <3>1. primary \in room /\ primary # k
                BY <2>1, <2>3 DEF Served
            <3>2. inbox'[primary'] = inbox[primary] /\ seen'[primary'] = seen[primary]
                BY <1>0, <2>1, <2>3, <3>1
            <3>3. Gets(primary)' = Gets(primary)
                BY <3>2 DEF Gets
            <3> QED
                BY <1>0, <2>1, <2>2, <2>3, <3>1, <3>2, <3>3 DEF Served
        <2>4. CASE primary' = NoClient
            BY <2>2, <2>4 DEF Served
        <2>5. CASE ~joined /\ sess.status \in {"connecting", "connected"}
            <3>1. /\ inbox[k] = <<>> /\ seen[k] = <<>> /\ NoneTwice(sess.buffered)
                  /\ Sent(sess.buffered) \subseteq forwarded
                  /\ forwarded \subseteq Sent(sess.buffered) \cup evicted
                BY <2>5 DEF Waiting
            <3>2. inbox'[k] = Replay(sess) /\ seen'[k] = <<>> /\ primary' = k
                <4>1. Replay(sess) \in Seq(Event)
                    BY <1>0, ReplayType
                <4>2. <<>> \o Replay(sess) = Replay(sess)
                    BY <4>1, ConcatEmptySeq
                <4> QED
                    BY <1>0, <2>1, <2>5, <3>1, <4>2
            <3>3. CASE sess.status = "connected"
                <4>1. /\ GotOf(<<>>, Replay(sess)) = Sent(sess.buffered)
                      /\ TakenOf(<<>>, Replay(sess)) = Cardinality(Sent(sess.buffered))
                    BY <1>0, <3>1, <3>3, ReplayIsGot
                <4>2. Gets(primary)' = Sent(sess.buffered)
                    BY <3>2, <4>1 DEF Gets
                <4>3. TakenOf(seen[primary], inbox[primary])' = Cardinality(Gets(primary)')
                    BY <3>2, <4>1, <4>2
                <4> QED
                    BY <1>0, <2>1, <2>2, <3>1, <3>2, <4>2, <4>3 DEF Served
            <3>4. CASE sess.status = "connecting"
                <4>1. Replay(sess) = <<>>
                    BY <3>4 DEF Replay
                <4>2. GotOf(<<>>, <<>>) = {} /\ TakenOf(<<>>, <<>>) = 0
                    <5>1. Count(<<>>, Messages) = 0 /\ Sent(<<>>) = {}
                        BY CountOne, SentParts
                    <5> QED
                        BY <5>1 DEF GotOf, TakenOf
                <4>3. forwarded = {}
                    <5>1. arrived = 0 /\ forwarded \subseteq 1..arrived
                        BY <3>4 DEF Unopened, Counted
                    <5> QED
                        BY <5>1
                <4>4. Gets(primary)' = {}
                    BY <3>2, <4>1, <4>2 DEF Gets
                <4>5. TakenOf(seen[primary], inbox[primary])' = Cardinality(Gets(primary)')
                    BY <3>2, <4>1, <4>2, <4>4, FS_EmptySet
                <4> QED
                    BY <1>0, <2>1, <2>2, <3>2, <4>3, <4>4, <4>5 DEF Served
            <3> QED
                BY <2>5, <3>3, <3>4
        <2> QED
            BY <2>1, <2>3, <2>4, <2>5
    <1>2. CASE ClientGoes(k)
        <2>1. /\ primary' = IF primary = k THEN NoClient ELSE primary
              /\ room' = room \ {k} /\ k \in online \cup room
              /\ UNCHANGED <<seen, joined, sess>>
              /\ \A c \in Clients \ {k} : inbox'[c] = inbox[c]
              /\ inbox'[k] \in {inbox[k], <<>>}
            BY <1>0, <1>2 DEF ClientGoes, Leave, ControlDrop
        <2>2. Waiting'
            BY <1>0, <2>1 DEF Waiting
        <2>3. ASSUME primary' # NoClient PROVE Served'
            <3>1. primary' = primary /\ primary # k /\ primary \in Clients /\ primary # NoClient
                BY <1>0, <2>1, <2>3
            <3>2. inbox'[primary'] = inbox[primary] /\ seen'[primary'] = seen[primary]
                BY <2>1, <3>1
            <3>3. Gets(primary)' = Gets(primary)
                BY <3>2 DEF Gets
            <3> QED
                BY <1>0, <2>1, <3>1, <3>2, <3>3 DEF Served
        <2> QED
            BY <2>2, <2>3 DEF Served
    <1>3. CASE ClientStays(k)
        <2>1. UNCHANGED <<room, sess, joined, primary>>
            BY <1>3
            DEF ClientStays, Receive, ControlReconnect, serverSide
        <2>2. CASE ControlReconnect(k)
            BY <1>0, <2>1, <2>2, ServedQuietly DEF ControlReconnect
        <2>3. CASE Receive(k)
            <3>1. /\ inbox[k] # <<>>
                  /\ inbox'[k] = Tail(inbox[k])
                  /\ seen'[k] = IF Head(inbox[k]).type = "message"
                                THEN Append(seen[k], Head(inbox[k]).id) ELSE seen[k]
                  /\ \A c \in Clients \ {k} : inbox'[c] = inbox[c] /\ seen'[c] = seen[c]
                BY <1>0, <2>3 DEF Receive
            <3>2. joined
                BY <3>1 DEF Waiting
            <3>3. /\ GotOf(seen'[k], Tail(inbox[k])) = GotOf(seen[k], inbox[k])
                  /\ TakenOf(seen'[k], Tail(inbox[k])) = TakenOf(seen[k], inbox[k])
                <4> DEFINE t == seen'[k]
                <4>1. t = IF Head(inbox[k]).type = "message"
                          THEN Append(seen[k], Head(inbox[k]).id) ELSE seen[k]
                    BY <3>1
                <4> HIDE DEF t
                <4>2. /\ GotOf(t, Tail(inbox[k])) = GotOf(seen[k], inbox[k])
                      /\ TakenOf(t, Tail(inbox[k])) = TakenOf(seen[k], inbox[k])
                    BY <1>0, <3>1, <4>1, ReceivingIsGetting
                <4> QED
                    BY <4>2 DEF t
            <3>4. \A c \in Clients : /\ Gets(c)' = Gets(c)
                                     /\ TakenOf(seen[c], inbox[c])' = TakenOf(seen[c], inbox[c])
                BY <3>1, <3>3 DEF Gets
            <3> QED
                BY <1>0, <2>1, <3>2, <3>4 DEF Waiting, Served
        <2> QED
            BY <1>3, <2>2, <2>3 DEF ClientStays
    <1> QED
        BY <1>1, <1>2, <1>3

\* Every job keeps Waiting and Served.
LEMMA ServedStep ==
    TypeOK /\ Counted /\ Unopened /\ Waiting /\ Served /\ [Next]_vars => Waiting' /\ Served'
    <1> SUFFICES ASSUME TypeOK, Counted, Unopened, Waiting, Served, [Next]_vars
                 PROVE  Waiting' /\ Served'
        OBVIOUS
    <1> USE DEF pingVars, condVars, feedVars, clients, history, wsVars
    <1>0. sess \in SessionType /\ {"connected", "error", "disconnected"} \subseteq Status
        BY DEF TypeOK, GatewayTypeOK, Status
    <1>00. /\ \A type \in {"open", "error", "close", "sent", "pong"} :
                 /\ <<Ev(type, 0)>> \in Seq(Event) /\ Where(<<Ev(type, 0)>>, Messages) = {}
           /\ <<Ev("error", 0), Ev("close", 0)>> \in Seq(Event)
           /\ Where(<<Ev("error", 0), Ev("close", 0)>>, Messages) = {}
           /\ <<>> \in Seq(Event) /\ Where(<<>>, Messages) = {}
        <2>1. /\ \A type \in {"open", "error", "close", "sent", "pong"} :
                    Ev(type, 0) \in Event /\ Ev(type, 0) \notin Messages
              /\ <<>> \in Seq(Event)
            BY EventTypes, EventSeqs DEF Ev, Messages
        <2> QED
            BY <2>1, EventSeqs DEF Where
    <1>1. ASSUME NEW k \in Clients, ClientJoins(k) \/ ClientGoes(k) \/ ClientStays(k)
          PROVE  Waiting' /\ Served'
        BY <1>1, ServedClients
    <1>2. CASE (\E c \in Conditions : SetCondition(c)) \/ ClearCondition \/ CutConnection
        BY <1>2, ServedQuietly DEF SetCondition, ClearCondition, CutConnection, gatewayVars
    <1>3. CASE OnOpen
        <2>1. sess'.buffered = sess.buffered
            BY <1>0, <1>3, UpdateStatusType DEF OnOpen
        <2>2. EmitAll(<<Ev("open", 0)>>)
            BY <1>3 DEF OnOpen, Emit
        <2>3. UNCHANGED <<room, seen, joined, primary, forwarded, evicted>>
            BY <1>3 DEF OnOpen
        <2> QED
            BY <1>00, <2>1, <2>2, <2>3, ServedQuietly
    <1>4. CASE OnMessage
        <2> DEFINE s == RecordReceived(sess, pingTs)
        <2>1. s \in SessionType /\ s.buffered = sess.buffered
            BY <1>0, RecordTypes DEF TypeOK, SameAs
        <2>2. arrived + 1 \in Nat /\ arrived + 1 \notin forwarded
            <3>1. arrived \in Nat /\ forwarded \subseteq 1..arrived
                BY DEF TypeOK, Counted
            <3> QED
                BY <3>1
        <2>3. /\ UNCHANGED <<room, seen, joined, primary>>
              /\ \/ Forward(s, arrived + 1)
                 \/ sess' = s /\ UNCHANGED <<inbox, forwarded, evicted>>
            BY <1>4 DEF OnMessage
        <2> HIDE DEF s
        <2>4. CASE Forward(s, arrived + 1)
            BY <2>1, <2>2, <2>3, <2>4, ServedForward
        <2>5. CASE sess' = s /\ UNCHANGED <<inbox, forwarded, evicted>>
            BY <2>1, <2>3, <2>5, ServedQuietly
        <2> QED
            BY <2>3, <2>4, <2>5
    <1>5. CASE OnMessageDropped \/ HandshakeRejected \/ PeerEnds
        BY <1>5, ServedQuietly DEF OnMessageDropped, HandshakeRejected, PeerEnds, gatewayVars
    <1>6. ASSUME NEW i \in DOMAIN pending, ForwardDelayed(i)
          PROVE  Waiting' /\ Served'
        <2>1. pending[i] \in Delayed
            BY LenProperties, ElementOfSeq DEF TypeOK
        <2>2. pending[i].id \in Nat /\ pending[i].id \notin forwarded
            BY <2>1 DEF Delayed, Counted
        <2>3. Forward(sess, pending[i].id) /\ UNCHANGED <<room, seen, joined, primary>>
            BY <1>6 DEF ForwardDelayed
        <2> QED
            BY <1>0, <2>2, <2>3, ServedForward
    <1>7. CASE HandshakeFails
        <2>1. sess'.buffered = sess.buffered
            BY <1>0, <1>7, ErrorAndCloseSession DEF HandshakeFails
        <2>2. /\ EmitAll(<<Ev("error", 0), Ev("close", 0)>>)
              /\ UNCHANGED <<room, seen, joined, primary, forwarded, evicted>>
            BY <1>7 DEF HandshakeFails
        <2> QED
            BY <1>00, <2>1, <2>2, ServedQuietly
    <1>8. CASE OnError \/ OnClose
        <2>1. sess'.buffered = sess.buffered
            BY <1>0, <1>8, ErrorAndCloseSession DEF OnError, OnClose
        <2>2. /\ \E type \in {"error", "close"} : EmitAll(<<Ev(type, 0)>>)
              /\ UNCHANGED <<room, seen, joined, primary, forwarded, evicted>>
            BY <1>8 DEF OnError, OnClose, Emit
        <2> QED
            BY <1>00, <2>1, <2>2, ServedQuietly
    <1>9. CASE OnPong
        <2>1. /\ EmitAll(<<Ev("pong", 0)>>) \/ EmitAll(<<>>)
              /\ UNCHANGED <<sess, room, seen, joined, primary, forwarded, evicted>>
            BY <1>9 DEF OnPong
        <2> QED
            BY <1>00, <2>1, ServedQuietly
    <1>10. CASE SendMessage
        <2>1. sess'.buffered = sess.buffered
            BY <1>0, <1>10, RecordTypes DEF SendMessage, SameAs
        <2>2. /\ UNCHANGED inbox \/ EmitAll(<<Ev("sent", 0)>>)
              /\ UNCHANGED <<room, seen, joined, primary, forwarded, evicted>>
            BY <1>10 DEF SendMessage, Emit
        <2> QED
            BY <1>00, <2>1, <2>2, ServedQuietly
    <1>11. CASE SendPing \/ \E p \in Ping : PingAsync(p) \/ PingTimeout(p)
        BY <1>11, ServedQuietly DEF SendPing, PingAsync, PingTimeout, gatewayVars
    <1>12. CASE CloseConnection
        BY <1>0, <1>12, UpdateStatusType, ServedQuietly DEF CloseConnection
    <1>13. CASE UNCHANGED vars
        BY <1>13, ServedQuietly DEF vars, gatewayVars
    <1> QED
        BY <1>1, <1>2, <1>3, <1>4, <1>5, <1>6, <1>7, <1>8, <1>9, <1>10, <1>11, <1>12,
           <1>13 DEF Next, ConnectionNext

\* The invariant says what it is for.
LEMMA ServedImplies == TypeOK /\ Served => FirstJoinerGetsAllOnce
    <1> SUFFICES ASSUME TypeOK, Served, primary # NoClient
                 PROVE  /\ forwarded \subseteq Got(primary) \cup evicted
                        /\ ReceivedOnce(primary)
        BY DEF FirstJoinerGetsAllOnce
    <1>1. inbox[primary] \in Seq(Event)
        BY DEF TypeOK, GatewayTypeOK
    <1>2. Got(primary) = Gets(primary)
        BY <1>1, GotIsSent DEF Got, Gets, GotOf
    <1>3. Len(seen[primary])
              + Cardinality({i \in DOMAIN inbox[primary] : inbox[primary][i].type = "message"})
            = TakenOf(seen[primary], inbox[primary])
        BY <1>1, GotIsSent, Zenon DEF TakenOf, Count
    <1> QED
        BY <1>2, <1>3 DEF Served, ReceivedOnce

\* The first browser to join a connection that is up or coming up is sent every
\* message exactly once, however late it joins and however long messages are
\* delayed, save those the buffer had to give up before.
THEOREM FirstJoinerIsServed == Spec => []FirstJoinerGetsAllOnce
    BY TypeCorrect, CountedCorrect, UnopenedInit, UnopenedStep, ServedInit, ServedStep,
       ServedImplies, PTL DEF Spec

==============================================================================
