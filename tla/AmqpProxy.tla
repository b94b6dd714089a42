------------------------------ MODULE AmqpProxy ------------------------------
(****************************************************************************)
(* AmqpProxyService: one proxied AMQP connection and its channel.           *)
(*                                                                          *)
(* amqplib and the broker are external; link is where the client stands:    *)
(*    invalid      createConnection has thrown on the URL: no client        *)
(*    opening      connect is awaited                                       *)
(*    channel      connected, createChannel is awaited                      *)
(*    refused      one of the two was rejected: createConnection has thrown *)
(*    up           connected, with a channel                                *)
(*    cancelling   session.close awaits the cancellation of the consumer    *)
(*    closing      session.close awaits the end of channel and connection   *)
(*    down         'close' emitted                                          *)
(* A channel error has no listener: amqplib turns it into an error of the   *)
(* connection, which emits 'error' and 'close' in one job.                  *)
(* The session is there, and listed, from before the first await on: a      *)
(* DELETE finds it in every state, but only finds a client to end from "up" *)
(* on, when createConnection has left its close callback in the session.    *)
(****************************************************************************)
EXTENDS Proxied

CONSTANT MaxSetup   \* bound: calls that one setup awaits (exchange, queue, binding)

ASSUME AmqpAssumption == MaxSetup \in Nat \ {0}

VARIABLES
    consumer,    \* "none", "asked" (consume is awaited) or "on"
    noAck,       \* the consumer's noAck
    setup,       \* calls the setup under way still awaits
    tags,        \* deliveryTags: what the service lets a user settle
    unacked,     \* history: deliveries the broker waits to see settled
    closers,     \* session.close calls that have not returned
    missed       \* history: the latest DELETE came before the client it should end

amqpVars == <<consumer, noAck, setup, tags, unacked, closers, missed>>

\* createConnection is under way, and has left no callback in the session yet.
Making == {"opening", "channel"}

\* There is no client, and session.close is not set.
Clientless == Making \cup {"invalid", "refused"}

AmqpLink == Clientless \cup {"up", "cancelling", "closing", "down"}

\* The channel takes and gives frames.
ChannelOpen == link \in {"up", "cancelling"}

AmqpTypeOK ==
    /\ ProxiedTypeOK(AmqpLink)
    /\ consumer \in {"none", "asked", "on"}
    /\ noAck \in BOOLEAN
    /\ setup \in 0..MaxSetup
    /\ tags \in SUBSET (1..MaxMsgs)
    /\ unacked \in SUBSET (1..MaxMsgs)
    /\ closers \in 0..MaxCalls
    /\ missed \in BOOLEAN

\* The create call has run to its first await, or thrown: it has made the session.
AmqpInit ==
    /\ link \in {"opening", "invalid"} /\ tracked = FALSE
    /\ consumer = "none" /\ noAck \in BOOLEAN /\ setup = 0
    /\ tags = {} /\ unacked = {} /\ closers = 0 /\ missed = FALSE

-----------------------------------------------------------------------------
(* Continuations and the client library's events *)

AmqpConnected ==
    /\ link = "opening"
    /\ link' = "channel"
    /\ UNCHANGED <<gatewayVars, topicView, tracked, arrived, calls, deleted, told,
                   evicted, amqpVars>>

\* It does not look at the session, which may have been deleted meanwhile.
AmqpOpen ==
    /\ link = "channel"
    /\ link' = "up" /\ tracked' = TRUE
    /\ sess' = UpdateStatus(sess, "connected")
    /\ Emit(Ev("open", 0))
    /\ UNCHANGED <<browsers, arrived, calls, deleted, told, evicted, amqpVars>>

\* A connection whose channel is refused is left open and forgotten.
AmqpRefused ==
    /\ link \in Making
    /\ link' = "refused"
    /\ sess' = UpdateStatus(sess, "error")
    /\ UNCHANGED <<browsers, inbox, tracked, arrived, calls, deleted, told, evicted, amqpVars>>

\* The n-th delivery of the channel has tag n.
AmqpDeliver ==
    /\ ChannelOpen /\ consumer = "on" /\ arrived < MaxMsgs
    /\ arrived' = arrived + 1
    /\ tags' = tags \cup {arrived + 1}
    /\ unacked' = IF noAck THEN unacked ELSE unacked \cup {arrived + 1}
    /\ sess' = RecordReceived(sess, FALSE)
    /\ Emit(Ev("message", arrived + 1))
    /\ UNCHANGED <<browsers, link, tracked, calls, deleted, told, evicted,
                   consumer, noAck, setup, closers, missed>>

\* Mutant: session.close leaves the connection in the map.
GoneDownKept ==
    /\ link' = "down"
    /\ consumer' = "none" /\ setup' = 0 /\ unacked' = {}
    /\ closers' = 0
    /\ UNCHANGED tracked

\* The connection is gone: what was awaited is rejected, and session.close,
\* when it is under way, comes to its end and forgets the connection.
GoneDown ==
    /\ link' = "down"
    /\ consumer' = "none" /\ setup' = 0 /\ unacked' = {}
    /\ closers' = 0
    /\ tracked' = (tracked /\ closers = 0)

\* An error of the connection or of the channel: 'error', then 'close'.
AmqpError ==
    /\ link \in {"up", "cancelling", "closing"}
    /\ GoneDown
    /\ sess' = UpdateStatus(RecordError(UpdateStatus(sess, "error")), "disconnected")
    /\ EmitAll(<<Ev("error", 0), Ev("close", 0)>>)
    /\ UNCHANGED <<browsers, arrived, calls, deleted, told, evicted, noAck, tags,
                   missed>>

\* Mutant: 'close' only ends the session, and tells nobody.
AmqpCloseUnannounced ==
    /\ link \in {"up", "cancelling", "closing"}
    /\ GoneDown
    /\ sess' = UpdateStatus(sess, "disconnected")
    /\ UNCHANGED <<browsers, inbox, arrived, calls, deleted, told, evicted, noAck, tags,
                   missed>>

\* 'close', asked for by session.close or by the broker.
AmqpClose ==
    /\ link \in {"up", "cancelling", "closing"}
    /\ GoneDown
    /\ sess' = UpdateStatus(sess, "disconnected")
    /\ Emit(Ev("close", 0))
    /\ UNCHANGED <<browsers, arrived, calls, deleted, told, evicted, noAck, tags,
                   missed>>

\* session.close goes on to the channel once the consumer is cancelled.
AmqpCancelled ==
    /\ link = "cancelling"
    /\ link' = "closing"
    /\ consumer' = "none"
    /\ UNCHANGED <<gatewayVars, topicView, tracked, arrived, calls, deleted, told,
                   evicted, noAck, setup, tags, unacked, closers, missed>>

\* A second session.close finds the channel closing: it throws, and forgets the
\* connection before the first has ended it.
AmqpSecondClose ==
    /\ link = "closing" /\ closers > 1
    /\ closers' = closers - 1
    /\ tracked' = FALSE
    /\ UNCHANGED <<gatewayVars, topicView, link, arrived, calls, deleted, told,
                   evicted, consumer, noAck, setup, tags, unacked, missed>>

AmqpConsuming ==
    /\ ChannelOpen /\ consumer = "asked"
    /\ consumer' = "on"
    /\ UNCHANGED <<gatewayVars, topicView, link, tracked, arrived, calls, deleted,
                   told, evicted, noAck, setup, tags, unacked, closers, missed>>

AmqpSetupStep ==
    /\ ChannelOpen /\ setup > 0
    /\ setup' = setup - 1
    /\ EmitAll(IF setup = 1 THEN <<Ev("setup", 0)>> ELSE <<>>)
    /\ UNCHANGED <<sess, browsers, link, tracked, arrived, calls, deleted, told,
                   evicted, consumer, noAck, tags, unacked, closers, missed>>

-----------------------------------------------------------------------------
(* REST handlers *)

AmqpSetup ==
    /\ SpendCall
    /\ tracked /\ ChannelOpen /\ setup = 0
    /\ setup' \in 1..MaxSetup
    /\ UNCHANGED <<gatewayVars, topicView, link, tracked, arrived, deleted, told,
                   evicted, consumer, noAck, tags, unacked, closers, missed>>

AmqpConsume ==
    /\ SpendCall
    /\ tracked /\ ChannelOpen /\ consumer = "none"
    /\ consumer' = "asked"
    /\ UNCHANGED <<gatewayVars, topicView, link, tracked, arrived, deleted, told,
                   evicted, noAck, setup, tags, unacked, closers, missed>>

\* Mutant: a multiple ack empties the map.
AmqpAckClearing(tag, multiple) ==
    /\ SpendCall
    /\ tracked /\ ChannelOpen /\ tag \in tags
    /\ tags' = IF multiple THEN {} ELSE tags \ {tag}
    /\ unacked' = IF tag \notin unacked THEN unacked
                  ELSE {t \in unacked : t # tag /\ (multiple => t > tag)}
    /\ UNCHANGED <<gatewayVars, topicView, link, tracked, arrived, deleted, told,
                   evicted, consumer, noAck, setup, closers, missed>>

\* Ack or nack: the service forgets this tag only, the broker settles the
\* earlier ones too when it is a multiple one.  A tag the broker does not wait
\* for is an error of the channel.
AmqpAck(tag, multiple) ==
    /\ SpendCall
    /\ tracked /\ ChannelOpen /\ tag \in tags
    /\ tags' = tags \ {tag}
    /\ unacked' = IF tag \notin unacked THEN unacked
                  ELSE {t \in unacked : t # tag /\ (multiple => t > tag)}
    /\ UNCHANGED <<gatewayVars, topicView, link, tracked, arrived, deleted, told,
                   evicted, consumer, noAck, setup, closers, missed>>

\* publish throws on a channel that is closing, before anything is counted.
AmqpPublish ==
    /\ SpendCall
    /\ tracked /\ ChannelOpen
    /\ sess' = RecordSent(sess)
    /\ Emit(Ev("sent", 0))
    /\ UNCHANGED <<browsers, link, tracked, arrived, deleted, told, evicted, amqpVars>>

\* session.close, up to its first await: it cancels the consumer, or closes the
\* channel; on a connection that is down all of it fails at once.
AmqpSessionClose ==
    \/ link = "down" /\ tracked' = FALSE /\ UNCHANGED <<link, closers>>
    \/ /\ link \in {"up", "cancelling", "closing"}
       /\ link' = CASE link = "up" /\ consumer = "on" -> "cancelling"
                    [] link = "up" -> "closing"
                    [] OTHER -> link
       /\ closers' = closers + 1
       /\ UNCHANGED tracked

\* Mutant: the connection is forgotten and stays open.
AmqpDeleteForgotten ==
    /\ SpendCall
    /\ tracked' = FALSE
    /\ sess' = UpdateStatus(sess, "disconnected")
    /\ deleted' = TRUE
    /\ missed' = (link \in Making)
    /\ UNCHANGED <<browsers, inbox, link, arrived, told, evicted, consumer, noAck,
                   setup, tags, unacked, closers>>

\* DELETE, by anybody who has the id from the list of connections: it calls the
\* close callback, if the session has one yet, and the session disconnected
\* without waiting for it.
AmqpDelete ==
    /\ SpendCall
    /\ \/ link \in Clientless /\ UNCHANGED <<link, tracked, closers>>
       \/ AmqpSessionClose
    /\ sess' = UpdateStatus(sess, "disconnected")
    /\ deleted' = TRUE
    /\ missed' = (link \in Making)
    /\ UNCHANGED <<browsers, inbox, arrived, told, evicted, consumer, noAck, setup,
                   tags, unacked>>

AmqpNext ==
    \/ AmqpConnected \/ AmqpOpen \/ AmqpRefused \/ AmqpDeliver \/ AmqpError \/ AmqpClose
    \/ AmqpCancelled \/ AmqpSecondClose \/ AmqpConsuming \/ AmqpSetupStep
    \/ AmqpSetup \/ AmqpConsume
    \/ \E tag \in tags, multiple \in BOOLEAN : AmqpAck(tag, multiple)
    \/ AmqpPublish \/ AmqpDelete

==============================================================================
