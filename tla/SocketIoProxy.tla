---------------------------- MODULE SocketIoProxy ----------------------------
(****************************************************************************)
(* SocketIoProxyService: one proxied Socket.IO connection.                  *)
(*                                                                          *)
(* socket.io-client is external; link is where it stands:                   *)
(*    opening   an attempt to connect is under way                          *)
(*    waiting   the timer of the next attempt is running                    *)
(*    open      connected                                                   *)
(*    off       disconnected by us or by the server, or out of attempts     *)
(****************************************************************************)
EXTENDS Proxied

CONSTANTS
    Events,        \* event names
    MaxAttempts,   \* dto.reconnectionAttempts
    MaxLosses      \* bound: times the target ends the connection

ASSUME SocketIoAssumption == MaxAttempts \in Nat /\ MaxLosses \in Nat

VARIABLES
    auto,       \* dto.autoReconnect
    failed,     \* in failedConnections: the clean-up timer is armed
    attempts,   \* attempts the client made since it was last connected
    subs,       \* subscribedEvents.get(id)
    acks,       \* sends whose acknowledgement is awaited
    losses,     \* times the target ended the connection
    doubled,    \* history: messages an explicit subscription saw as well
    exited      \* an exception nobody caught has ended the server

sioVars == <<auto, failed, attempts, subs, acks, losses, doubled, exited>>

SioLink == {"opening", "waiting", "open", "off"}

SioTypeOK ==
    /\ ProxiedTypeOK(SioLink)
    /\ auto \in BOOLEAN /\ failed \in BOOLEAN
    /\ attempts \in 0..MaxAttempts
    /\ subs \in SUBSET Events
    /\ acks \in 0..MaxCalls
    /\ losses \in 0..MaxLosses
    /\ doubled \in SUBSET (1..MaxMsgs)
    /\ exited \in BOOLEAN

\* createConnection: the client starts connecting by itself.
SioInit ==
    /\ link = "opening" /\ tracked = TRUE
    /\ auto \in BOOLEAN
    /\ failed = FALSE /\ attempts = 0
    /\ subs = {} /\ acks = 0 /\ losses = 0 /\ doubled = {} /\ exited = FALSE

-----------------------------------------------------------------------------
(* The client library's events *)

\* Mutant: one attempt too many.
BackoffOnceMore(n) ==
    IF auto /\ n <= MaxAttempts
    THEN link' = "waiting" /\ attempts' = n + 1
    ELSE link' = "off"     /\ attempts' = n

\* Where the client stands after a failed attempt or a lost connection: it
\* arms its timer, unless it does not retry or has used up its attempts.
Backoff(n) ==
    IF auto /\ n < MaxAttempts
    THEN link' = "waiting" /\ attempts' = n + 1
    ELSE link' = "off"     /\ attempts' = n

SioConnect ==
    /\ link = "opening"
    /\ link' = "open" /\ attempts' = 0
    /\ sess' = UpdateStatus(sess, "connected")
    /\ Emit(Ev("open", 0))
    /\ UNCHANGED <<browsers, tracked, arrived, calls, deleted, told, evicted,
                   auto, failed, subs, acks, losses, doubled, exited>>

\* An attempt fails, or the server refuses the namespace, which ends the client.
\* Only the first failure is reported, and arms the clean-up.
SioConnectError ==
    /\ link = "opening"
    /\ Backoff(attempts) \/ (link' = "off" /\ UNCHANGED attempts)
    /\ failed' = TRUE
    /\ \/ failed /\ UNCHANGED <<sess, inbox>>
       \/ /\ ~failed
          /\ sess' = RecordError(UpdateStatus(sess, "error"))
          /\ Emit(Ev("error", 0))
    /\ UNCHANGED <<browsers, tracked, arrived, calls, deleted, told, evicted,
                   auto, subs, acks, losses, doubled, exited>>

SioReconnectAttempt ==
    /\ link = "waiting"
    /\ link' = "opening"
    /\ sess' = UpdateStatus(sess, "reconnecting")
    /\ Emit(Ev("reconnecting", 0))
    /\ UNCHANGED <<browsers, tracked, arrived, calls, deleted, told, evicted,
                   auto, failed, attempts, subs, acks, losses, doubled, exited>>

\* The connection is lost, which the client may retry, or the server
\* disconnects it.  The callbacks of unanswered sends are forgotten.
SioDisconnect ==
    /\ link = "open" /\ losses < MaxLosses
    /\ losses' = losses + 1
    /\ Backoff(0) \/ (link' = "off" /\ UNCHANGED attempts)
    /\ sess' = UpdateStatus(sess, "disconnected")
    /\ Emit(Ev("close", 0))
    /\ acks' = 0
    /\ UNCHANGED <<browsers, tracked, arrived, calls, deleted, told, evicted,
                   auto, failed, subs, doubled, exited>>

\* Mutant: messages are not kept for a browser that has yet to join.
SioEventUnbuffered(e, bare) ==
    /\ link = "open" /\ arrived < MaxMsgs
    /\ arrived' = arrived + 1
    /\ LET ev == Ev("message", arrived + 1)
       IN  /\ Emit(ev)
           /\ sess' = RecordReceived(sess, FALSE)
    /\ UNCHANGED <<browsers, link, tracked, calls, deleted, told, evicted,
                   auto, failed, attempts, subs, acks, losses, doubled, exited>>

\* An event from the target: onAny counts, buffers and emits it; a subscription
\* to its name counts and emits it again, without buffering it.  Of a bare event,
\* one without a payload, the subscription has nothing to take the size of: it
\* throws in a job of the library's, which ends the server.
SioEvent(e, bare) ==
    /\ link = "open" /\ arrived < MaxMsgs
    /\ arrived' = arrived + 1
    /\ LET ev == Ev("message", arrived + 1)
           s  == BufferMessage(RecordReceived(sess, FALSE), ev)
           again == e \in subs /\ ~bare
       IN  /\ sess' = IF again THEN RecordReceived(s, FALSE) ELSE s
           /\ EmitAll(IF again THEN <<ev, ev>> ELSE <<ev>>)
           /\ doubled' = IF again THEN doubled \cup {ev.id} ELSE doubled
           /\ evicted' = IF room # {} \/ Len(sess.buffered) < MaxBuffered
                         THEN evicted ELSE evicted \cup {Head(sess.buffered).id}
    /\ exited' = (e \in subs /\ bare)
    /\ UNCHANGED <<browsers, link, tracked, calls, deleted, told,
                   auto, failed, attempts, subs, acks, losses>>

\* The target acknowledges a send.
SioAck ==
    /\ link = "open" /\ acks > 0
    /\ acks' = acks - 1
    /\ Emit(Ev("ack", 0))
    /\ UNCHANGED <<sess, browsers, link, tracked, arrived, calls, deleted, told,
                   evicted, auto, failed, attempts, subs, losses, doubled, exited>>

\* 200 ms after the first failure: the disconnect listener goes before the
\* client is disconnected, so nobody hears of it.
SioCleanUp ==
    /\ failed
    /\ failed' = FALSE
    /\ link' = "off" /\ acks' = 0
    /\ tracked' = FALSE /\ subs' = {}
    /\ UNCHANGED <<gatewayVars, topicView, arrived, calls, deleted, told, evicted,
                   auto, attempts, losses, doubled, exited>>

-----------------------------------------------------------------------------
(* REST handlers *)

SioSubscribe(e) ==
    /\ SpendCall
    /\ tracked /\ e \notin subs
    /\ subs' = subs \cup {e}
    /\ UNCHANGED <<gatewayVars, link, tracked, topicView, arrived, deleted, told,
                   evicted, auto, failed, attempts, acks, losses, doubled, exited>>

SioSend ==
    /\ SpendCall
    /\ tracked /\ link = "open"
    /\ sess' = RecordSent(sess)
    /\ Emit(Ev("sent", 0))
    /\ acks' \in {acks, acks + 1}
    /\ UNCHANGED <<browsers, link, tracked, arrived, deleted, told, evicted,
                   auto, failed, attempts, subs, losses, doubled, exited>>

\* Mutant: the client is forgotten, and goes on connecting.
SioDeleteForgotten ==
    /\ SpendCall
    /\ tracked' = FALSE /\ subs' = {}
    /\ sess' = UpdateStatus(sess, "disconnected")
    /\ deleted' = TRUE
    /\ UNCHANGED <<browsers, inbox, link, acks, arrived, told, evicted, auto, failed,
                   attempts, losses, doubled, exited>>

\* session.close: disconnecting an open client fires 'disconnect' in the same
\* job; otherwise nothing is emitted.
SioSessionClose ==
    /\ link' = "off" /\ acks' = 0
    /\ tracked' = FALSE /\ subs' = {}
    /\ EmitAll(IF link = "open" THEN <<Ev("close", 0)>> ELSE <<>>)

\* DELETE: the close callback, and the session is called disconnected.
SioDelete ==
    /\ SpendCall
    /\ SioSessionClose
    /\ sess' = UpdateStatus(sess, "disconnected")
    /\ deleted' = TRUE
    /\ UNCHANGED <<browsers, arrived, told, evicted, auto, failed, attempts, losses,
                   doubled, exited>>

SioNext ==
    /\ ~exited
    /\ \/ SioConnect \/ SioConnectError \/ SioReconnectAttempt \/ SioDisconnect
       \/ \E e \in Events, bare \in BOOLEAN : SioEvent(e, bare)
       \/ \E e \in Events : SioSubscribe(e)
       \/ SioAck \/ SioCleanUp \/ SioSend \/ SioDelete

==============================================================================
