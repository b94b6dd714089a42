------------------------------ MODULE MqttProxy ------------------------------
(****************************************************************************)
(* MqttProxyService: one proxied MQTT connection, with reconnectPeriod 0.   *)
(*                                                                          *)
(* mqtt.js and the broker are external.  link is where the client stands:   *)
(*    connecting  no CONNACK yet; packets are queued                        *)
(*    online      connected                                                 *)
(*    failing     'error' emitted, 'close' still to come                    *)
(*    ending      end(true) called, 'close' still to come                   *)
(*    ended       'close' emitted; it never reconnects                      *)
(* The broker serves the requests of a connection in order and so does the  *)
(* client the answers; the end of the connection discards both.             *)
(****************************************************************************)
EXTENDS Proxied

CONSTANT InitialTopics   \* dto.initialTopics

ASSUME MqttAssumption == InitialTopics \in Seq(Topics)

VARIABLES
    requests,   \* SUBSCRIBE and UNSUBSCRIBE packets the broker has not served
    answers,    \* SUBACK and UNSUBACK packets the client has not handled
    asked,      \* calls of the topics panel whose answer is under way
    granted     \* history: topics the broker delivers

mqttVars == <<requests, answers, asked, granted>>

MqttLink == {"connecting", "online", "failing", "ending", "ended"}

Request == [op : {"subscribe", "unsubscribe"}, topic : Topics]
Answer  == [op : {"subscribe", "unsubscribe"}, topic : Topics, ok : BOOLEAN]

MqttTypeOK ==
    /\ ProxiedTypeOK(MqttLink)
    /\ requests \in Seq(Request)
    /\ answers \in Seq(Answer)
    /\ asked \subseteq [client : Clients, request : Request, number : 1..MaxCalls]
    /\ granted \in SUBSET Topics

MqttInit ==
    /\ link = "connecting" /\ tracked = TRUE
    /\ requests = <<>> /\ answers = <<>> /\ asked = {} /\ granted = {}

Subscribe(topic) == [op |-> "subscribe", topic |-> topic]

-----------------------------------------------------------------------------
(* The client library's events *)

\* What was queued goes first, then the initial topics are subscribed to.
MqttConnect ==
    /\ link = "connecting"
    /\ link' = "online"
    /\ sess' = UpdateStatus(sess, "connected")
    /\ Emit(Ev("open", 0))
    /\ requests' = requests \o
                     [i \in DOMAIN InitialTopics |-> Subscribe(InitialTopics[i])]
    /\ UNCHANGED <<browsers, tracked, arrived, calls, deleted, told, evicted,
                   answers, asked, granted>>

\* Nothing is buffered: who has not joined misses the message.
MqttMessage ==
    /\ link = "online" /\ arrived < MaxMsgs
    /\ arrived' = arrived + 1
    /\ sess' = RecordReceived(sess, FALSE)
    /\ Emit(Ev("message", arrived + 1))
    /\ UNCHANGED <<browsers, link, tracked, calls, deleted, told, evicted, mqttVars>>

MqttError ==
    /\ link \in {"connecting", "online"}
    /\ link' = "failing"
    /\ sess' = RecordError(UpdateStatus(sess, "error"))
    /\ Emit(Ev("error", 0))
    /\ UNCHANGED <<browsers, tracked, arrived, calls, deleted, told, evicted, mqttVars>>

\* Mutant: 'close' ends the session and tells nobody.
MqttCloseUnannounced ==
    /\ link # "ended"
    /\ link' = "ended"
    /\ requests' = <<>> /\ answers' = <<>> /\ granted' = {}
    /\ sess' = IF sess.status = "error" THEN sess ELSE UpdateStatus(sess, "disconnected")
    /\ UNCHANGED <<browsers, inbox, tracked, arrived, calls, deleted, told, evicted,
                   asked>>

\* The stream closes, after an error, after end(true) or because it was lost.
\* An error is kept, and not followed by a close.
MqttClose ==
    /\ link # "ended"
    /\ link' = "ended"
    /\ requests' = <<>> /\ answers' = <<>> /\ granted' = {}
    /\ \/ sess.status = "error" /\ UNCHANGED <<sess, inbox>>
       \/ /\ sess.status # "error"
          /\ sess' = UpdateStatus(sess, "disconnected")
          /\ Emit(Ev("close", 0))
    /\ UNCHANGED <<browsers, tracked, arrived, calls, deleted, told, evicted, asked>>

\* The broker serves the next request; it may refuse a subscription.
BrokerServes ==
    /\ link = "online" /\ requests # <<>>
    /\ LET r == Head(requests)
       IN  \E ok \in BOOLEAN :
             /\ r.op = "unsubscribe" => ok
             /\ answers' = Append(answers, [op |-> r.op, topic |-> r.topic, ok |-> ok])
             /\ granted' = CASE r.op = "unsubscribe" -> granted \ {r.topic}
                             [] r.op = "subscribe" /\ ok -> granted \cup {r.topic}
                             [] OTHER -> granted
    /\ requests' = Tail(requests)
    /\ UNCHANGED <<gatewayVars, topicView, link, tracked, arrived, calls, deleted,
                   told, evicted, asked>>

\* Mutant: the code of the subscribe callback is not looked at.
MqttAnswerUnchecked ==
    /\ link = "online" /\ answers # <<>>
    /\ LET a == Head(answers)
       IN  IF a.op = "subscribe"
           THEN sess' = AddTopic(sess, a.topic) /\ Emit(Ev("subscribed", a.topic))
           ELSE sess' = RemoveTopic(sess, a.topic) /\ Emit(Ev("unsubscribed", a.topic))
    /\ answers' = Tail(answers)
    /\ UNCHANGED <<browsers, link, tracked, arrived, calls, deleted, told, evicted,
                   requests, asked, granted>>

\* Mutant: an unsubscription is not announced.
MqttAnswerHalfTold ==
    /\ link = "online" /\ answers # <<>>
    /\ LET a == Head(answers)
       IN  \/ ~a.ok /\ UNCHANGED <<sess, inbox>>
           \/ /\ a.ok /\ a.op = "subscribe"
              /\ sess' = AddTopic(sess, a.topic) /\ Emit(Ev("subscribed", a.topic))
           \/ /\ a.ok /\ a.op = "unsubscribe"
              /\ sess' = RemoveTopic(sess, a.topic) /\ UNCHANGED inbox
    /\ answers' = Tail(answers)
    /\ UNCHANGED <<browsers, link, tracked, arrived, calls, deleted, told, evicted,
                   requests, asked, granted>>

\* The callbacks of subscribe and unsubscribe.
MqttAnswer ==
    /\ link = "online" /\ answers # <<>>
    /\ LET a == Head(answers)
       IN  \/ ~a.ok /\ UNCHANGED <<sess, inbox>>
           \/ /\ a.ok /\ a.op = "subscribe"
              /\ sess' = AddTopic(sess, a.topic) /\ Emit(Ev("subscribed", a.topic))
           \/ /\ a.ok /\ a.op = "unsubscribe"
              /\ sess' = RemoveTopic(sess, a.topic) /\ Emit(Ev("unsubscribed", a.topic))
    /\ answers' = Tail(answers)
    /\ UNCHANGED <<browsers, link, tracked, arrived, calls, deleted, told, evicted,
                   requests, asked, granted>>

-----------------------------------------------------------------------------
(* REST handlers *)

\* Subscribe and unsubscribe are answered before the broker has seen them; a
\* client that has ended queues them and never sends them.
TakeRequest(r) ==
    /\ SpendCall
    /\ tracked
    /\ requests' = IF link \in {"connecting", "online"} THEN Append(requests, r)
                   ELSE requests
    /\ UNCHANGED <<gatewayVars, topicView, link, tracked, arrived, deleted, told,
                   evicted, answers, granted>>

MqttRequest(r) == TakeRequest(r) /\ UNCHANGED asked

\* The topics panel of a tab: Sub is there while the tab shows the connection as
\* connected, an unsubscription for each topic it shows.
PanelRequest(k, r) ==
    /\ IF r.op = "subscribe" THEN view[k] = "connected" ELSE r.topic \in topicsShown[k]
    /\ TakeRequest(r)
    /\ asked' = asked \cup {[client |-> k, request |-> r, number |-> calls']}

\* The call is answered.  The panel does not say which connection it changes:
\* it is that of the tab that is active by then.
PanelAnswered(call) ==
    LET k == call.client  topic == call.request.topic IN
    /\ call \in asked /\ asked' = asked \ {call}
    /\ \/ /\ topicsShown' = [topicsShown EXCEPT ![k] =
                  IF call.request.op = "subscribe" THEN @ \cup {topic} ELSE @ \ {topic}]
          /\ guessed' = [guessed EXCEPT ![k] = @ \cup {topic}]
       \/ UNCHANGED topicView
    /\ UNCHANGED <<gatewayVars, link, tracked, arrived, calls, deleted, told, evicted,
                   requests, answers, granted>>

MqttPublish ==
    /\ SpendCall
    /\ tracked /\ link = "online"
    /\ sess' = RecordSent(sess)
    /\ Emit(Ev("sent", 0))
    /\ UNCHANGED <<browsers, link, tracked, arrived, deleted, told, evicted, mqttVars>>

\* session.close: end(true) destroys the stream, 'close' follows in a later job.
MqttSessionClose ==
    /\ link' = IF link \in {"connecting", "online"} THEN "ending" ELSE link
    /\ requests' = <<>> /\ answers' = <<>>
    /\ tracked' = FALSE

\* DELETE: the close callback, and the session is called disconnected.
MqttDelete ==
    /\ SpendCall
    /\ MqttSessionClose
    /\ sess' = UpdateStatus(sess, "disconnected")
    /\ deleted' = TRUE
    /\ UNCHANGED <<browsers, inbox, arrived, told, evicted, asked, granted>>

MqttNext ==
    \/ MqttConnect \/ MqttMessage \/ MqttError \/ MqttClose
    \/ BrokerServes \/ MqttAnswer
    \/ \E r \in Request : MqttRequest(r) \/ \E k \in Clients : PanelRequest(k, r)
    \/ \E call \in asked : PanelAnswered(call)
    \/ MqttPublish \/ MqttDelete

==============================================================================
