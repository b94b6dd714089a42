------------------------------- MODULE Session -------------------------------
(****************************************************************************)
(* The record SessionService keeps for one proxied connection, and its      *)
(* methods as operators from a session to a session.  Byte counts, URLs and *)
(* timestamps are left out; a latency sample is a count, not a value.       *)
(* The counters of bytes move in step with the counters of messages.        *)
(****************************************************************************)
EXTENDS Naturals, Sequences

CONSTANTS MaxBuffered,   \* messages kept for a client that joins late (100)
          MaxSamples     \* latency samples kept for the average (100)

ASSUME SessionAssumption == MaxBuffered \in Nat \ {0} /\ MaxSamples \in Nat \ {0}

Status == {"connecting", "connected", "reconnecting", "disconnected", "error"}

StatusEvents == {"open", "error", "close", "reconnecting"}

\* An event of the control channel: its name, and the number of the message,
\* topic or call it is about (0 when there is none).
EventType ==
    StatusEvents \cup {"message", "sent", "pong", "perf", "ack",
                       "subscribed", "unsubscribed", "setup"}

Event == [type : EventType, id : Nat]

Ev(type, id) == [type |-> type, id |-> id]

SessionType ==
    [status   : Status,
     sent     : Nat,
     received : Nat,
     errors   : Nat,
     samples  : 0..MaxSamples,
     buffered : Seq(Event),
     topics   : Seq(Nat)]

NewSession ==
    [status |-> "connecting", sent |-> 0, received |-> 0, errors |-> 0,
     samples |-> 0, buffered |-> <<>>, topics |-> <<>>]

UpdateStatus(s, status) == [s EXCEPT !.status = status]

RecordSent(s) == [s EXCEPT !.sent = @ + 1]

\* Mutant: the samples are never shifted.
RecordReceivedUncapped(s, rtt) ==
    [s EXCEPT !.received = @ + 1, !.samples = IF rtt THEN @ + 1 ELSE @]

\* rtt says whether the caller computed a latency for this message.
RecordReceived(s, rtt) ==
    [s EXCEPT !.received = @ + 1,
              !.samples  = IF rtt /\ @ < MaxSamples THEN @ + 1 ELSE @]

RecordError(s) == [s EXCEPT !.errors = @ + 1]

\* Mutant: a full buffer drops the new message, as the comment at
\* session.types.ts:41 ("the first N") has it.
BufferFirst(s, ev) ==
    [s EXCEPT !.buffered = IF Len(@) < MaxBuffered THEN Append(@, ev) ELSE @]

\* The buffer keeps the latest MaxBuffered messages: push, then shift.
BufferMessage(s, ev) ==
    [s EXCEPT !.buffered =
        IF Len(@) < MaxBuffered THEN Append(@, ev) ELSE Tail(Append(@, ev))]

AddTopic(s, topic) ==
    [s EXCEPT !.topics =
        IF \E i \in DOMAIN @ : @[i] = topic THEN @ ELSE Append(@, topic)]

\* The list without e, which is in it once at most (AddTopic sees to it).
Without(list, e) ==
    IF \E i \in DOMAIN list : list[i] = e
    THEN LET i == CHOOSE i \in DOMAIN list : list[i] = e
         IN  SubSeq(list, 1, i - 1) \o SubSeq(list, i + 1, Len(list))
    ELSE list

RemoveTopic(s, topic) == [s EXCEPT !.topics = Without(@, topic)]

==============================================================================
