------------------------------- MODULE Proxied -------------------------------
(****************************************************************************)
(* What the Socket.IO, MQTT and AMQP services have in common: a client of   *)
(* some library, a map from connection ids to clients, and REST calls.      *)
(* Each of the three modules that extend this one adds its service.         *)
(*                                                                          *)
(* An action is one JavaScript job: a handler the library calls, a REST     *)
(* handler up to its first await, a continuation, or a timer.               *)
(****************************************************************************)
EXTENDS Gateway

CONSTANTS
    Topics,       \* MQTT topics, numbers as in Session
    NoClient,     \* no client
    MaxMsgs,      \* bound: messages the target sends
    MaxCalls      \* bound: REST calls made on the connection

ASSUME ProxiedAssumption ==
    /\ MaxMsgs \in Nat /\ MaxCalls \in Nat
    /\ Topics \subseteq Nat
    /\ NoClient \notin Clients

VARIABLES
    protocol,   \* the service that created the connection
    link,       \* state of the library's client, see each module
    tracked,    \* the connection is in the service's map of clients
    arrived,    \* messages the target has sent
    calls,      \* REST calls made
    topicsShown \* topicsShown[k]: the topics k's tab shows as subscribed

\* History variables: they appear in no guard.
VARIABLES
    deleted,    \* a DELETE was handled
    dropped,    \* browsers whose control socket has dropped
    evicted,    \* messages shifted out of the buffer while the room was empty
    guessed,    \* topics k's tab changed by itself since their last event
    joined,     \* some browser has joined the room
    primary     \* the first to join, until it drops

\* What the tabs show of the topics.
topicView == <<topicsShown, guessed>>

proxyVars == <<gatewayVars, protocol, link, tracked, arrived, calls, topicView,
               deleted, dropped, evicted, joined, primary>>

browsers == <<online, room, view, seen, drops, leaves, topicView>>
told == <<dropped, joined, primary>>

SpendCall == calls < MaxCalls /\ calls' = calls + 1

ProxiedTypeOK(linkStates) ==
    /\ GatewayTypeOK
    /\ link \in linkStates
    /\ tracked \in BOOLEAN
    /\ arrived \in 0..MaxMsgs
    /\ calls \in 0..MaxCalls
    /\ topicsShown \in [Clients -> SUBSET Topics]
    /\ guessed \in [Clients -> SUBSET Topics]
    /\ deleted \in BOOLEAN
    /\ dropped \in SUBSET Clients
    /\ evicted \in SUBSET (1..MaxMsgs)
    /\ joined \in BOOLEAN
    /\ primary \in Clients \cup {NoClient}

ProxiedInit ==
    /\ GatewayInit
    /\ arrived = 0 /\ calls = 0
    /\ topicsShown = [k \in Clients |-> {}] /\ guessed = [k \in Clients |-> {}]
    /\ deleted = FALSE /\ dropped = {} /\ evicted = {}
    /\ joined = FALSE /\ primary = NoClient

-----------------------------------------------------------------------------
(* Browsers *)

ProxiedJoin(k) ==
    /\ Join(k)
    /\ joined' = TRUE
    /\ primary' = IF ~joined /\ sess.status \in {"connecting", "connected"}
                  THEN k ELSE primary
    /\ UNCHANGED <<protocol, link, tracked, arrived, calls, topicView,
                   deleted, dropped, evicted>>

ProxiedDrop(k) ==
    /\ ControlDrop(k)
    /\ dropped' = dropped \cup {k}
    /\ primary' = IF primary = k THEN NoClient ELSE primary
    /\ UNCHANGED <<protocol, link, tracked, arrived, calls, topicView,
                   deleted, evicted, joined>>

\* The topic an event is about.
TopicsOf(ev) == IF ev.type \in {"subscribed", "unsubscribed"} THEN {ev.id} ELSE {}

TopicsAfter(topics, ev) ==
    CASE ev.type = "subscribed"   -> topics \cup {ev.id}
      [] ev.type = "unsubscribed" -> topics \ {ev.id}
      [] OTHER                    -> topics

ProxiedReceive(k) ==
    /\ Receive(k)
    /\ topicsShown' = [topicsShown EXCEPT ![k] = TopicsAfter(@, Head(inbox[k]))]
    /\ guessed' = [guessed EXCEPT ![k] = @ \ TopicsOf(Head(inbox[k]))]
    /\ UNCHANGED <<protocol, link, tracked, arrived, calls,
                   deleted, dropped, evicted, joined, primary>>

ProxiedReconnect(k) ==
    /\ ControlReconnect(k)
    /\ UNCHANGED <<protocol, link, tracked, arrived, calls, topicView,
                   deleted, dropped, evicted, joined, primary>>

\* The number of times message n was sent to k.
Times(k, n) ==
    Cardinality({i \in DOMAIN seen[k] : seen[k][i] = n})
      + Cardinality({i \in DOMAIN inbox[k] : inbox[k][i] = Ev("message", n)})

==============================================================================
