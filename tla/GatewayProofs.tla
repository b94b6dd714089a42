---------------------------- MODULE GatewayProofs ----------------------------
(****************************************************************************)
(* Lemmas about the session operators and the control channel, for every    *)
(* set of clients and every size of the buffer: what the proofs about the   *)
(* services, which all extend Gateway, have in common.  They are about what *)
(* a browser hears of the status, and about counting what it was sent.      *)
(****************************************************************************)
EXTENDS Gateway, SequenceTheorems, FiniteSetTheorems, TLAPS

-----------------------------------------------------------------------------
(* The session operators return sessions.                                   *)

\* Changing the status keeps everything else (session.service.ts:42).
LEMMA UpdateStatusType ==
    ASSUME NEW s \in SessionType, NEW status \in Status
    PROVE  /\ UpdateStatus(s, status) \in SessionType
           /\ UpdateStatus(s, status).status = status
           /\ UpdateStatus(s, status).buffered = s.buffered
    BY DEF UpdateStatus, SessionType

\* t is a session with the status and the buffer of s.
SameAs(s, t) == t \in SessionType /\ t.status = s.status /\ t.buffered = s.buffered

\* The counters keep the session's type and its status
\* (session.service.ts:56-88).
LEMMA RecordTypes ==
    ASSUME NEW s \in SessionType, NEW rtt \in BOOLEAN
    PROVE  /\ SameAs(s, RecordSent(s))
           /\ SameAs(s, RecordError(s))
           /\ SameAs(s, RecordReceived(s, rtt))
    <1>1. s.samples \in 0..MaxSamples /\ s.sent + 1 \in Nat
              /\ s.errors + 1 \in Nat /\ s.received + 1 \in Nat
        BY DEF SessionType
    <1>2. (IF rtt /\ s.samples < MaxSamples THEN s.samples + 1 ELSE s.samples)
              \in 0..MaxSamples
        BY <1>1, SessionAssumption
    <1>3. SameAs(s, RecordSent(s))
        BY <1>1 DEF RecordSent, SessionType, SameAs
    <1>4. SameAs(s, RecordError(s))
        BY <1>1 DEF RecordError, SessionType, SameAs
    <1>5. SameAs(s, RecordReceived(s, rtt))
        BY <1>1, <1>2 DEF RecordReceived, SessionType, SameAs
    <1> QED
        BY <1>3, <1>4, <1>5

\* Buffering a message keeps the session's type and status
\* (session.service.ts:98).
LEMMA BufferMessageType ==
    ASSUME NEW s \in SessionType, NEW ev \in Event
    PROVE  /\ BufferMessage(s, ev) \in SessionType
           /\ BufferMessage(s, ev).status = s.status
    <1>1. s.buffered \in Seq(Event)
        BY DEF SessionType
    <1>2. Append(s.buffered, ev) \in Seq(Event) /\ Append(s.buffered, ev) # <<>>
        BY <1>1, AppendProperties
    <1>3. Tail(Append(s.buffered, ev)) \in Seq(Event)
        BY <1>2, HeadTailProperties
    <1> QED
        BY <1>1, <1>2, <1>3 DEF BufferMessage, SessionType

\* A replay clears the buffer and nothing else (events.gateway.ts:67).
LEMMA AfterReplayType ==
    ASSUME NEW s \in SessionType
    PROVE  /\ AfterReplay(s) \in SessionType /\ AfterReplay(s).status = s.status
           /\ AfterReplay(s).buffered \in {<<>>, s.buffered}
    BY EmptySeq DEF AfterReplay, SessionType

\* What a client that joins is sent is a sequence of events
\* (events.gateway.ts:56-92).
LEMMA ReplayType ==
    ASSUME NEW s \in SessionType
    PROVE  Replay(s) \in Seq(Event)
    <1> DEFINE subscribed == [i \in 1..Len(s.topics) |-> Ev("subscribed", s.topics[i])]
    <1>1. s.buffered \in Seq(Event) /\ s.topics \in Seq(Nat)
        BY DEF SessionType
    <1>2. subscribed \in Seq(Event)
        <2>1. Len(s.topics) \in Nat /\ \A i \in 1..Len(s.topics) : s.topics[i] \in Nat
            BY <1>1, LenProperties, ElementOfSeq
        <2> QED
            BY <2>1 DEF Ev, Event, EventType
    <1>3. /\ <<Ev("open", 0)>> \in Seq(Event)
          /\ <<Ev("error", 0)>> \in Seq(Event)
          /\ <<Ev("close", 0)>> \in Seq(Event)
          /\ <<>> \in Seq(Event)
        BY DEF Ev, Event, EventType, StatusEvents
    <1>4. <<Ev("open", 0)>> \o s.buffered \o subscribed \in Seq(Event)
        BY <1>1, <1>2, <1>3, ConcatProperties
    <1> QED
        BY <1>3, <1>4 DEF Replay

\* Emitting keeps the inboxes well typed (events.gateway.ts:103).
LEMMA EmitType ==
    ASSUME GatewayTypeOK, NEW evs \in Seq(Event), EmitAll(evs)
    PROVE  inbox' \in [Clients -> Seq(Event)]
    <1>1. \A k \in Clients : inbox[k] \o evs \in Seq(Event)
        BY ConcatProperties DEF GatewayTypeOK
    <1> QED
        BY <1>1 DEF EmitAll, GatewayTypeOK

\* The events the handlers emit are events.
LEMMA EventTypes ==
    /\ \A type \in EventType, n \in Nat : Ev(type, n) \in Event
    /\ {"open", "error", "close", "message", "sent", "pong", "subscribed"} \subseteq EventType
    BY DEF Ev, Event, EventType, StatusEvents

\* One event, two events and none are sequences of events.
LEMMA EventSeqs ==
    /\ \A e \in Event : <<e>> \in Seq(Event)
    /\ \A e, f \in Event : <<e, f>> \in Seq(Event)
    /\ <<>> \in Seq(Event)
    OBVIOUS

-----------------------------------------------------------------------------
(* What a browser hears. *)

\* Events that are no status events do not change what a browser hears.
LEMMA QuietIsUnheard ==
    ASSUME NEW q \in Seq(Event), NEW r \in Seq(Event), Quiet(r), NEW status
    PROVE  /\ Hears(q \o r, status) <=> Hears(q, status)
           /\ Quiet(q) => Quiet(q \o r)
    <1>1. /\ DOMAIN q = 1..Len(q) /\ Len(q) \in Nat
          /\ DOMAIN r = 1..Len(r) /\ Len(r) \in Nat
          /\ q \o r \in Seq(Event) /\ Len(q \o r) = Len(q) + Len(r)
          /\ DOMAIN (q \o r) = 1..(Len(q) + Len(r))
        BY LenProperties, ConcatProperties
    <1>2. \A i \in 1..Len(q) : (q \o r)[i] = q[i]
        BY <1>1, ConcatProperties
    <1>3. \A i \in 1..(Len(q) + Len(r)) : i > Len(q) => (q \o r)[i].type \notin StatusEvents
        BY <1>1, ConcatProperties DEF Quiet
    <1>4. Quiet(q \o r) <=> Quiet(q)
        BY <1>1, <1>2, <1>3 DEF Quiet
    <1>5. ASSUME Hears(q, status) PROVE Hears(q \o r, status)
        BY <1>1, <1>2, <1>3, <1>4, <1>5 DEF Hears
    <1>6. ASSUME Hears(q \o r, status) PROVE Hears(q, status)
        <2>1. "open" \in StatusEvents
            BY DEF StatusEvents
        <2> QED
            BY <1>1, <1>2, <1>3, <1>4, <1>6, <2>1 DEF Hears
    <1> QED
        BY <1>4, <1>5, <1>6

\* The last status event a browser is sent decides what it hears.
LEMMA LastStatusIsHeard ==
    ASSUME NEW q \in Seq(Event), NEW e \in Event, e.type \in StatusEvents, NEW status
    PROVE  Hears(Append(q, e), status) <=> e.type = "open"
    <1>1. /\ DOMAIN q = 1..Len(q) /\ Len(q) \in Nat
          /\ DOMAIN Append(q, e) = 1..(Len(q) + 1)
          /\ Append(q, e)[Len(q) + 1] = e
        BY LenProperties, AppendProperties
    <1>2. ~Quiet(Append(q, e))
        BY <1>1 DEF Quiet
    <1> QED
        BY <1>1, <1>2 DEF Hears

\* Receiving the head of the inbox changes what is shown, not what is heard.
LEMMA ReceivingIsHearing ==
    ASSUME NEW q \in Seq(Event), q # <<>>, NEW status
    PROVE  /\ Hears(Tail(q), ViewAfter(status, Head(q).type)) <=> Hears(q, status)
           /\ Quiet(q) => /\ Quiet(Tail(q))
                          /\ ViewAfter(status, Head(q).type) = status
    <1>1. /\ DOMAIN q = 1..Len(q) /\ Len(q) \in Nat \ {0} /\ Head(q) = q[1]
          /\ DOMAIN Tail(q) = 1..(Len(q) - 1)
          /\ \A i \in 1..(Len(q) - 1) : Tail(q)[i] = q[i + 1]
        BY LenProperties, HeadTailProperties, EmptySeq
    <1>2. /\ \A i \in 1..Len(q) : i # 1 => i - 1 \in 1..(Len(q) - 1) /\ q[i] = Tail(q)[i - 1]
          /\ \A i \in 1..(Len(q) - 1) : i + 1 \in 1..Len(q) /\ i + 1 > 1
          /\ 1 \in DOMAIN q
        BY <1>1
    <1>3. Quiet(q) <=> q[1].type \notin StatusEvents /\ Quiet(Tail(q))
        BY <1>1, <1>2 DEF Quiet
    <1>4. Quiet(q) => ViewAfter(status, Head(q).type) = status
        BY <1>1, <1>3 DEF ViewAfter, StatusEvents
    <1>5. ViewAfter(status, q[1].type) = "connected" <=>
             \/ q[1].type = "open"
             \/ q[1].type \notin StatusEvents /\ status = "connected"
        BY DEF ViewAfter, StatusEvents
    <1>6. (\E i \in DOMAIN q : /\ i # 1 /\ q[i].type = "open"
                               /\ \A j \in DOMAIN q : j > i => q[j].type \notin StatusEvents)
          <=> \E i \in DOMAIN Tail(q) :
                 /\ Tail(q)[i].type = "open"
                 /\ \A j \in DOMAIN Tail(q) : j > i => Tail(q)[j].type \notin StatusEvents
        <2> DEFINE LastOpen(s, i) == /\ s[i].type = "open"
                                     /\ \A j \in DOMAIN s : j > i => s[j].type \notin StatusEvents
        <2>1. ASSUME NEW i \in DOMAIN q, i # 1, LastOpen(q, i)
              PROVE  i - 1 \in DOMAIN Tail(q) /\ LastOpen(Tail(q), i - 1)
            BY <1>1, <1>2, <2>1
        <2>2. ASSUME NEW i \in DOMAIN Tail(q), LastOpen(Tail(q), i)
              PROVE  i + 1 \in DOMAIN q /\ i + 1 # 1 /\ LastOpen(q, i + 1)
            <3>1. ASSUME NEW j \in DOMAIN q, j > i + 1
                  PROVE  q[j].type \notin StatusEvents
                <4>1. /\ i \in 1..(Len(q) - 1) /\ j \in 1..Len(q)
                      /\ j # 1 /\ j - 1 > i
                    BY <1>1, <3>1
                <4>2. j - 1 \in DOMAIN Tail(q) /\ q[j] = Tail(q)[j - 1]
                    BY <1>1, <1>2, <4>1
                <4> QED
                    BY <2>2, <4>1, <4>2
            <3>2. i + 1 \in DOMAIN q /\ i + 1 # 1 /\ q[i + 1].type = "open"
                BY <1>1, <1>2, <2>2
            <3> QED
                BY <3>1, <3>2
        <2> HIDE DEF LastOpen
        <2>3. (\E i \in DOMAIN q : i # 1 /\ LastOpen(q, i))
              <=> \E i \in DOMAIN Tail(q) : LastOpen(Tail(q), i)
            BY <2>1, <2>2
        <2> QED
            BY <2>3 DEF LastOpen
    <1>7. (\A j \in DOMAIN q : j > 1 => q[j].type \notin StatusEvents) <=> Quiet(Tail(q))
        <2>1. \A j \in DOMAIN q : j > 1 <=> j # 1
            BY <1>1
        <2> QED
            BY <1>1, <1>2, <2>1 DEF Quiet
    <1>8. Hears(q, status) <=>
             \/ \E i \in DOMAIN q : /\ i # 1 /\ q[i].type = "open"
                                    /\ \A j \in DOMAIN q : j > i => q[j].type \notin StatusEvents
             \/ q[1].type = "open" /\ Quiet(Tail(q))
             \/ status = "connected" /\ q[1].type \notin StatusEvents /\ Quiet(Tail(q))
        BY <1>1, <1>3, <1>7 DEF Hears
    <1> QED
        BY <1>1, <1>3, <1>4, <1>5, <1>6, <1>8 DEF Hears

\* Appending to the second sequence appends to the concatenation.
LEMMA AppendOfConcat ==
    ASSUME NEW s \in Seq(Event), NEW q \in Seq(Event), NEW e \in Event
    PROVE  s \o Append(q, e) = Append(s \o q, e)
    <1>1. <<e>> \in Seq(Event) /\ s \o q \in Seq(Event)
        BY ConcatProperties
    <1>2. Append(q, e) = q \o <<e>> /\ Append(s \o q, e) = (s \o q) \o <<e>>
        BY <1>1, AppendIsConcat
    <1>3. (s \o q) \o <<e>> = s \o (q \o <<e>>)
        BY <1>1, ConcatAssociative
    <1> QED
        BY <1>2, <1>3

\* Concatenation of event sequences is associative.
LEMMA ConcatEvents ==
    ASSUME NEW s \in Seq(Event), NEW t \in Seq(Event), NEW u \in Seq(Event)
    PROVE  (s \o t) \o u = s \o (t \o u)
    BY ConcatAssociative

\* A client that joins a connected session hears that it is connected, whatever
\* was still in flight to it.
LEMMA JoiningIsHearing ==
    ASSUME NEW s \in SessionType, Quiet(s.buffered),
           NEW q \in Seq(Event), NEW status, s.status # "connecting", s.status # "reconnecting"
    PROVE  Hears(q \o Replay(s), status) <=> s.status = "connected"
    <1>1. s.buffered \in Seq(Event) /\ s.topics \in Seq(Nat) /\ s.status \in Status
        BY DEF SessionType
    <1>2. /\ \A type \in StatusEvents : Ev(type, 0) \in Event /\ Ev(type, 0).type = type
          /\ {"open", "error", "close"} \subseteq StatusEvents
        BY DEF Ev, Event, EventType, StatusEvents
    <1>3. CASE s.status = "connected"
        <2> DEFINE subs == [i \in 1..Len(s.topics) |-> Ev("subscribed", s.topics[i])]
                   open == <<Ev("open", 0)>>
        <2>1. open \in Seq(Event)
            BY <1>2
        <2>2. subs \in Seq(Event) /\ Quiet(subs)
            <3>1. Len(s.topics) \in Nat /\ \A i \in 1..Len(s.topics) : s.topics[i] \in Nat
                BY <1>1, LenProperties, ElementOfSeq
            <3> QED
                BY <3>1 DEF Ev, Event, EventType, Quiet, StatusEvents
        <2> HIDE DEF subs, open
        <2>3. open \o s.buffered \in Seq(Event) /\ q \o open \in Seq(Event)
            BY <1>1, <2>1, ConcatProperties
        <2>4. q \o (open \o s.buffered) \in Seq(Event)
            BY <2>3, ConcatProperties
        <2>5. q \o ((open \o s.buffered) \o subs) = (q \o (open \o s.buffered)) \o subs
            BY <2>2, <2>3, ConcatEvents
        <2>6. q \o (open \o s.buffered) = (q \o open) \o s.buffered
            BY <1>1, <2>1, ConcatEvents
        <2>7. Hears(q \o open, status)
            <3>1. /\ Ev("open", 0) \in Event /\ Ev("open", 0).type = "open"
                  /\ "open" \in StatusEvents
                BY <1>2
            <3>2. Append(q, Ev("open", 0)) = q \o open
                BY <3>1, AppendIsConcat DEF open
            <3>3. Hears(Append(q, Ev("open", 0)), status)
                BY <3>1, LastStatusIsHeard
            <3> QED
                BY <3>2, <3>3
        <2>8. Hears((q \o (open \o s.buffered)) \o subs, status)
            BY <1>1, <2>2, <2>3, <2>4, <2>6, <2>7, QuietIsUnheard
        <2>9. Replay(s) = (open \o s.buffered) \o subs
            BY <1>3 DEF Replay, open, subs
        <2> QED
            BY <1>3, <2>5, <2>8, <2>9
    <1>4. CASE s.status \in {"error", "disconnected"}
        <2>1. PICK e \in {Ev("error", 0), Ev("close", 0)} : Replay(s) = <<e>>
            BY <1>4 DEF Replay
        <2>2. e \in Event /\ e.type \in StatusEvents /\ e.type # "open"
            BY <1>2, <2>1
        <2>3. q \o <<e>> = Append(q, e)
            BY <2>2, AppendIsConcat
        <2> QED
            BY <1>4, <2>1, <2>2, <2>3, LastStatusIsHeard
    <1> QED
        BY <1>1, <1>3, <1>4 DEF Status

-----------------------------------------------------------------------------
(* Counting what a sequence holds. *)

\* The places of q that hold an element of A, and how many they are.
Where(q, A) == {i \in DOMAIN q : q[i] \in A}
Count(q, A) == Cardinality(Where(q, A))

\* A sequence has finitely many places.
LEMMA CountType ==
    ASSUME NEW T, NEW q \in Seq(T), NEW A
    PROVE  IsFiniteSet(Where(q, A)) /\ Count(q, A) \in Nat
    <1>1. DOMAIN q = 1..Len(q) /\ Len(q) \in Nat
        BY LenProperties
    <1>2. IsFiniteSet(1..Len(q))
        BY <1>1, FS_Interval
    <1>3. Where(q, A) \in SUBSET (1..Len(q))
        BY <1>1 DEF Where
    <1>4. IsFiniteSet(Where(q, A))
        BY <1>2, <1>3, FS_Subset
    <1> QED
        BY <1>4, FS_CardinalityType DEF Count

\* The empty sequence holds nothing, a singleton its element.
LEMMA CountOne ==
    /\ \A A : Count(<<>>, A) = 0
    /\ \A e, A : Count(<<e>>, A) = IF e \in A THEN 1 ELSE 0
    <1>1. ASSUME NEW A PROVE Count(<<>>, A) = 0
        <2>1. Where(<<>>, A) = {}
            BY DEF Where
        <2> QED
            BY <2>1, FS_EmptySet DEF Count
    <1>2. ASSUME NEW e, NEW A PROVE Count(<<e>>, A) = IF e \in A THEN 1 ELSE 0
        <2>1. Where(<<e>>, A) = IF e \in A THEN {1} ELSE {}
            BY DEF Where
        <2> QED
            BY <2>1, FS_EmptySet, FS_Singleton DEF Count
    <1> QED
        BY <1>1, <1>2

\* A concatenation holds what its parts hold.
LEMMA CountConcat ==
    ASSUME NEW T, NEW q \in Seq(T), NEW r \in Seq(T), NEW A
    PROVE  Count(q \o r, A) = Count(q, A) + Count(r, A)
    <1> DEFINE n == Len(q)
               left == Where(q, A)
               shifted == {j + n : j \in Where(r, A)}
               shift == [j \in Where(r, A) |-> j + n]
    <1>1. /\ DOMAIN q = 1..n /\ n \in Nat
          /\ DOMAIN r = 1..Len(r) /\ Len(r) \in Nat
          /\ DOMAIN (q \o r) = 1..(n + Len(r))
          /\ \A i \in 1..(n + Len(r)) : (q \o r)[i] = IF i <= n THEN q[i] ELSE r[i - n]
        BY LenProperties, ConcatProperties
    <1>2. Where(q \o r, A) = left \cup shifted
        <2>1. ASSUME NEW i \in Where(q \o r, A)
              PROVE  i \in left \cup shifted
            <3>1. i \in 1..(n + Len(r)) /\ (q \o r)[i] \in A
                BY <1>1 DEF Where
            <3>2. CASE i <= n
                BY <1>1, <3>1, <3>2 DEF Where
            <3>3. CASE i > n
                <4>1. i - n \in 1..Len(r) /\ r[i - n] \in A /\ (i - n) + n = i
                    BY <1>1, <3>1, <3>3
                <4>2. i - n \in Where(r, A)
                    BY <1>1, <4>1 DEF Where
                <4> QED
                    BY <4>1, <4>2
            <3> QED
                BY <1>1, <3>1, <3>2, <3>3
        <2>2. ASSUME NEW i \in left
              PROVE  i \in Where(q \o r, A)
            <3>1. i \in 1..n /\ q[i] \in A
                BY <1>1 DEF Where
            <3>2. i \in 1..(n + Len(r)) /\ i <= n
                BY <1>1, <3>1
            <3> QED
                BY <1>1, <3>1, <3>2 DEF Where
        <2>3. ASSUME NEW j \in Where(r, A)
              PROVE  j + n \in Where(q \o r, A)
            <3>1. j \in 1..Len(r) /\ r[j] \in A
                BY <1>1 DEF Where
            <3>2. j + n \in 1..(n + Len(r)) /\ ~(j + n <= n) /\ (j + n) - n = j
                BY <1>1, <3>1
            <3> QED
                BY <1>1, <3>1, <3>2 DEF Where
        <2> QED
            BY <2>1, <2>2, <2>3
    <1>3. left \cap shifted = {}
        <2>1. ASSUME NEW j \in Where(r, A) PROVE j + n \notin 1..n
            BY <1>1 DEF Where
        <2> QED
            BY <1>1, <2>1 DEF Where
    <1>4. IsFiniteSet(left) /\ IsFiniteSet(Where(r, A))
        BY CountType
    <1>5. shift \in Bijection(Where(r, A), shifted)
        <2>1. shift \in [Where(r, A) -> shifted]
            OBVIOUS
        <2>2. ASSUME NEW a \in Where(r, A), NEW b \in Where(r, A), shift[a] = shift[b]
              PROVE  a = b
            <3>1. a \in Int /\ b \in Int /\ a + n = b + n
                BY <1>1, <2>2 DEF Where
            <3> QED
                BY <1>1, <3>1
        <2>3. \A t \in shifted : \E j \in Where(r, A) : shift[j] = t
            OBVIOUS
        <2> QED
            BY <2>1, <2>2, <2>3 DEF Bijection, Injection, Surjection, IsInjective
    <1>6. IsFiniteSet(shifted) /\ Cardinality(shifted) = Cardinality(Where(r, A))
        BY <1>4, <1>5, FS_Bijection DEF ExistsBijection
    <1>7. Cardinality(left \cup shifted)
            = Cardinality(left) + Cardinality(shifted) - Cardinality(left \cap shifted)
        <2> HIDE DEF left, shifted
        <2> QED
            BY <1>4, <1>6, FS_Union
    <1>8. Cardinality({}) = 0 /\ Cardinality(left) \in Nat /\ Cardinality(shifted) \in Nat
        BY <1>4, <1>6, FS_EmptySet, FS_CardinalityType
    <1> HIDE DEF left, shifted
    <1>9. Cardinality(left \cup shifted) = Cardinality(left) + Cardinality(shifted)
        <2>1. Cardinality(left \cap shifted) = 0
            BY <1>3, <1>8, Zenon
        <2> QED
            BY <1>7, <1>8, <2>1
    <1>10. /\ Count(q \o r, A) = Cardinality(left \cup shifted)
           /\ Count(q, A) = Cardinality(left) /\ Count(r, A) = Cardinality(shifted)
        BY <1>2, <1>6, Zenon DEF Count, left
    <1> QED
        BY <1>9, <1>10

\* Appending adds the element to what is held.
LEMMA CountAppend ==
    ASSUME NEW T, NEW q \in Seq(T), NEW e \in T, NEW A
    PROVE  Count(Append(q, e), A) = Count(q, A) + (IF e \in A THEN 1 ELSE 0)
    <1>1. Append(q, e) = q \o <<e>> /\ <<e>> \in Seq(T)
        BY AppendIsConcat
    <1>2. Count(q \o <<e>>, A) = Count(q, A) + Count(<<e>>, A)
        BY <1>1, CountConcat
    <1> QED
        BY <1>1, <1>2, CountOne

\* A sequence is its head and its tail.
LEMMA HeadAndTail ==
    ASSUME NEW T, NEW q \in Seq(T), q # <<>>
    PROVE  q = <<Head(q)>> \o Tail(q)
    <1>1. /\ DOMAIN q = 1..Len(q) /\ Len(q) \in Nat \ {0} /\ Head(q) = q[1]
          /\ Head(q) \in T /\ Tail(q) \in Seq(T) /\ Len(Tail(q)) = Len(q) - 1
          /\ \A i \in 1..(Len(q) - 1) : Tail(q)[i] = q[i + 1]
        BY LenProperties, HeadTailProperties, EmptySeq
    <1> DEFINE r == <<Head(q)>> \o Tail(q)
    <1>2. /\ r \in Seq(T) /\ Len(r) = 1 + (Len(q) - 1)
          /\ \A i \in 1..(1 + (Len(q) - 1)) :
                r[i] = IF i <= 1 THEN q[1] ELSE Tail(q)[i - 1]
        BY <1>1, ConcatProperties
    <1> HIDE DEF r
    <1>3. Len(r) = Len(q)
        BY <1>1, <1>2
    <1>4. ASSUME NEW i \in 1..Len(q) PROVE q[i] = r[i]
        <2>1. i \in 1..(1 + (Len(q) - 1))
            BY <1>1
        <2>2. CASE i = 1
            BY <1>2, <2>1, <2>2
        <2>3. CASE i # 1
            <3>1. i - 1 \in 1..(Len(q) - 1) /\ (i - 1) + 1 = i /\ ~(i <= 1)
                BY <1>1, <2>3
            <3>2. Tail(q)[i - 1] = q[i]
                BY <1>1, <3>1
            <3> QED
                BY <1>2, <2>1, <3>1, <3>2
        <2> QED
            BY <2>2, <2>3
    <1>5. q = r
        BY <1>2, <1>3, <1>4, SeqEqual
    <1> QED
        BY <1>5 DEF r

\* A sequence holds its head and what its tail holds.
LEMMA CountTail ==
    ASSUME NEW T, NEW q \in Seq(T), q # <<>>, NEW A
    PROVE  Count(q, A) = Count(Tail(q), A) + (IF Head(q) \in A THEN 1 ELSE 0)
    <1>1. Head(q) \in T /\ Tail(q) \in Seq(T) /\ <<Head(q)>> \in Seq(T)
        BY HeadTailProperties
    <1>2. q = <<Head(q)>> \o Tail(q)
        BY HeadAndTail
    <1>3. Count(q, A) = Count(<<Head(q)>>, A) + Count(Tail(q), A)
        <2>1. Count(<<Head(q)>> \o Tail(q), A) = Count(<<Head(q)>>, A) + Count(Tail(q), A)
            BY <1>1, CountConcat
        <2> QED
            BY <1>2, <2>1
    <1>4. Count(Tail(q), A) \in Nat
        BY <1>1, CountType
    <1> QED
        BY <1>3, <1>4, CountOne


\* A sequence without its i-th element.
Skip(q, i) == SubSeq(q, 1, i - 1) \o SubSeq(q, i + 1, Len(q))

\* It keeps the others in their order.
LEMMA SkipKeepsOthers ==
    ASSUME NEW T, NEW q \in Seq(T), NEW i \in 1..Len(q)
    PROVE  /\ Skip(q, i) \in Seq(T) /\ Len(Skip(q, i)) = Len(q) - 1
           /\ \A j \in 1..Len(Skip(q, i)) :
                Skip(q, i)[j] = IF j < i THEN q[j] ELSE q[j + 1]
    <1> DEFINE r == Skip(q, i)
               left == SubSeq(q, 1, i - 1)
               right == SubSeq(q, i + 1, Len(q))
    <1>1. Len(q) \in Nat /\ i \in Int /\ \A j \in 1..Len(q) : q[j] \in T
        BY LenProperties, ElementOfSeq
    <1>2. /\ left \in Seq(T) /\ Len(left) = i - 1
          /\ \A j \in 1..(i - 1) : left[j] = q[j]
        <2>1. /\ 1 \in Int /\ i - 1 \in Int /\ \A j \in 1..(i - 1) : q[j] \in T
              /\ (IF 1 <= i - 1 THEN (i - 1) - 1 + 1 ELSE 0) = i - 1
            BY <1>1
        <2>2. /\ left \in Seq(T) /\ Len(left) = IF 1 <= i - 1 THEN (i - 1) - 1 + 1 ELSE 0
              /\ \A j \in 1..((i - 1) - 1 + 1) : left[j] = q[1 + j - 1]
            BY <2>1, SubSeqProperties
        <2>3. \A j \in 1..(i - 1) : j \in 1..((i - 1) - 1 + 1) /\ 1 + j - 1 = j
            BY <1>1
        <2> QED
            BY <2>1, <2>2, <2>3
    <1>3. /\ right \in Seq(T) /\ Len(right) = Len(q) - i
          /\ \A j \in 1..(Len(q) - i) : right[j] = q[j + i]
        <2>1. /\ i + 1 \in Int /\ Len(q) \in Int /\ \A j \in (i + 1)..Len(q) : q[j] \in T
              /\ (IF i + 1 <= Len(q) THEN Len(q) - (i + 1) + 1 ELSE 0) = Len(q) - i
            BY <1>1
        <2>2. /\ right \in Seq(T)
              /\ Len(right) = IF i + 1 <= Len(q) THEN Len(q) - (i + 1) + 1 ELSE 0
              /\ \A j \in 1..(Len(q) - (i + 1) + 1) : right[j] = q[(i + 1) + j - 1]
            BY <2>1, SubSeqProperties
        <2>3. \A j \in 1..(Len(q) - i) : /\ j \in 1..(Len(q) - (i + 1) + 1)
                                         /\ (i + 1) + j - 1 = j + i
            BY <1>1
        <2> QED
            BY <2>1, <2>2, <2>3
    <1>4. r = left \o right
        BY DEF Skip
    <1> HIDE DEF r, left, right
    <1>5. /\ r \in Seq(T) /\ Len(r) = Len(left) + Len(right)
          /\ \A j \in 1..(Len(left) + Len(right)) :
                r[j] = IF j <= Len(left) THEN left[j] ELSE right[j - Len(left)]
        BY <1>2, <1>3, <1>4, ConcatProperties
    <1>6. Len(left) + Len(right) = Len(q) - 1 /\ Len(r) = Len(q) - 1
        BY <1>1, <1>2, <1>3, <1>5
    <1>7. ASSUME NEW j \in 1..Len(r)
          PROVE  r[j] = IF j < i THEN q[j] ELSE q[j + 1]
        <2>1. j \in 1..(Len(left) + Len(right)) /\ j \in Int /\ j <= Len(q) - 1
            BY <1>1, <1>5, <1>6, <1>7
        <2>2. CASE j < i
            <3>1. j \in 1..(i - 1) /\ j <= i - 1
                BY <1>1, <2>1, <2>2
            <3> QED
                BY <1>2, <1>5, <2>1, <2>2, <3>1
        <2>3. CASE ~(j < i)
            <3>1. /\ j - (i - 1) \in 1..(Len(q) - i) /\ ~(j <= i - 1)
                  /\ (j - (i - 1)) + i = j + 1
                BY <1>1, <2>1, <2>3
            <3>2. right[j - (i - 1)] = q[j + 1]
                BY <1>3, <3>1
            <3> QED
                BY <1>2, <1>5, <2>1, <2>3, <3>1, <3>2
        <2> QED
            BY <2>2, <2>3
    <1> QED
        BY <1>5, <1>6, <1>7 DEF r


-----------------------------------------------------------------------------
(* What a browser was sent. *)

Messages == {e \in Event : e.type = "message"}

\* The messages in a sequence of events.
Sent(q) == {q[i].id : i \in Where(q, Messages)}

\* The messages of a tab that received s and will receive q, and their number.
GotOf(s, q) == {s[i] : i \in DOMAIN s} \cup Sent(q)
TakenOf(s, q) == Len(s) + Count(q, Messages)

\* Got and ReceivedOnce in these terms.
LEMMA GotIsSent ==
    ASSUME NEW q \in Seq(Event)
    PROVE  /\ {i \in DOMAIN q : q[i].type = "message"} = Where(q, Messages)
           /\ {q[i].id : i \in {j \in DOMAIN q : q[j].type = "message"}} = Sent(q)
    <1>1. \A i \in DOMAIN q : q[i] \in Event
        BY LenProperties, ElementOfSeq
    <1>2. {i \in DOMAIN q : q[i].type = "message"} = Where(q, Messages)
        BY <1>1 DEF Where, Messages
    <1> QED
        BY <1>2, Zenon DEF Sent

\* What a concatenation, and a sequence of one event, sends.
LEMMA SentParts ==
    /\ Sent(<<>>) = {}
    /\ \A e : Sent(<<e>>) = IF e \in Messages THEN {e.id} ELSE {}
    /\ \A q, r \in Seq(Event) : Sent(q \o r) = Sent(q) \cup Sent(r)
    <1>1. Sent(<<>>) = {}
        BY DEF Sent, Where
    <1>2. ASSUME NEW e PROVE Sent(<<e>>) = IF e \in Messages THEN {e.id} ELSE {}
        BY DEF Sent, Where
    <1>3. ASSUME NEW q \in Seq(Event), NEW r \in Seq(Event)
          PROVE  Sent(q \o r) = Sent(q) \cup Sent(r)
        <2>1. /\ DOMAIN q = 1..Len(q) /\ Len(q) \in Nat
              /\ DOMAIN r = 1..Len(r) /\ Len(r) \in Nat
              /\ DOMAIN (q \o r) = 1..(Len(q) + Len(r))
              /\ \A i \in 1..(Len(q) + Len(r)) :
                    (q \o r)[i] = IF i <= Len(q) THEN q[i] ELSE r[i - Len(q)]
            BY LenProperties, ConcatProperties
        <2>2. ASSUME NEW i \in Where(q \o r, Messages)
              PROVE  (q \o r)[i].id \in Sent(q) \cup Sent(r)
            <3>1. i \in 1..(Len(q) + Len(r)) /\ (q \o r)[i] \in Messages
                BY <2>1 DEF Where
            <3>2. CASE i <= Len(q)
                <4>1. i \in Where(q, Messages) /\ (q \o r)[i] = q[i]
                    BY <2>1, <3>1, <3>2 DEF Where
                <4> QED
                    BY <4>1 DEF Sent
            <3>3. CASE ~(i <= Len(q))
                <4>1. i - Len(q) \in 1..Len(r) /\ (q \o r)[i] = r[i - Len(q)]
                    BY <2>1, <3>1, <3>3
                <4>2. i - Len(q) \in Where(r, Messages)
                    BY <2>1, <3>1, <4>1 DEF Where
                <4> QED
                    BY <4>1, <4>2 DEF Sent
            <3> QED
                BY <3>2, <3>3
        <2>3. ASSUME NEW i \in Where(q, Messages)
              PROVE  q[i].id \in Sent(q \o r)
            <3>1. i \in 1..Len(q) /\ q[i] \in Messages
                BY <2>1 DEF Where
            <3>2. i \in 1..(Len(q) + Len(r)) /\ (q \o r)[i] = q[i]
                BY <2>1, <3>1
            <3>3. i \in Where(q \o r, Messages)
                BY <2>1, <3>1, <3>2 DEF Where
            <3> QED
                BY <3>2, <3>3 DEF Sent
        <2>4. ASSUME NEW j \in Where(r, Messages)
              PROVE  r[j].id \in Sent(q \o r)
            <3>1. j \in 1..Len(r) /\ r[j] \in Messages
                BY <2>1 DEF Where
            <3>2. /\ j + Len(q) \in 1..(Len(q) + Len(r))
                  /\ ~(j + Len(q) <= Len(q)) /\ (j + Len(q)) - Len(q) = j
                BY <2>1, <3>1
            <3>3. (q \o r)[j + Len(q)] = r[j]
                BY <2>1, <3>2
            <3>4. j + Len(q) \in Where(q \o r, Messages)
                BY <2>1, <3>1, <3>2, <3>3 DEF Where
            <3> QED
                BY <3>3, <3>4 DEF Sent
        <2> QED
            BY <2>2, <2>3, <2>4 DEF Sent
    <1> QED
        BY <1>1, <1>2, <1>3

\* Events that are no messages leave what a tab gets.
LEMMA OthersAreNotGot ==
    ASSUME NEW s, NEW q \in Seq(Event), NEW r \in Seq(Event), Where(r, Messages) = {}
    PROVE  GotOf(s, q \o r) = GotOf(s, q) /\ TakenOf(s, q \o r) = TakenOf(s, q)
    <1>1. Sent(r) = {} /\ Sent(q \o r) = Sent(q) \cup Sent(r)
        BY SentParts DEF Sent
    <1>2. Count(r, Messages) = 0
        BY FS_EmptySet DEF Count
    <1>3. Count(q \o r, Messages) = Count(q, Messages) + 0 /\ Count(q, Messages) \in Nat
        BY <1>2, CountConcat, CountType
    <1>4. Count(q \o r, Messages) = Count(q, Messages)
        BY <1>3
    <1> QED
        BY <1>1, <1>4 DEF GotOf, TakenOf

\* A message that is sent is one more.
LEMMA MessageIsGot ==
    ASSUME NEW s \in Seq(Nat), NEW q \in Seq(Event), NEW n \in Nat
    PROVE  /\ GotOf(s, q \o <<Ev("message", n)>>) = GotOf(s, q) \cup {n}
           /\ TakenOf(s, q \o <<Ev("message", n)>>) = TakenOf(s, q) + 1
    <1> DEFINE ev == Ev("message", n)
    <1>1. ev \in Messages /\ ev.id = n /\ <<ev>> \in Seq(Event)
        BY EventTypes, EventSeqs DEF Messages, Ev
    <1> HIDE DEF ev
    <1>2. Sent(q \o <<ev>>) = Sent(q) \cup {n}
        BY <1>1, SentParts
    <1>3. Count(q \o <<ev>>, Messages) = Count(q, Messages) + 1
        <2>1. Count(q \o <<ev>>, Messages) = Count(q, Messages) + Count(<<ev>>, Messages)
            BY <1>1, CountConcat
        <2>2. Count(<<ev>>, Messages) = 1
            BY <1>1, CountOne
        <2> QED
            BY <2>1, <2>2
    <1>4. Len(s) \in Nat /\ Count(q, Messages) \in Nat
        BY LenProperties, CountType
    <1>5. TakenOf(s, q \o <<ev>>) = TakenOf(s, q) + 1
        BY <1>3, <1>4 DEF TakenOf
    <1> QED
        BY <1>2, <1>5 DEF GotOf, ev

\* Receiving what was sent leaves what the tab gets.
LEMMA ReceivingIsGetting ==
    ASSUME NEW s \in Seq(Nat), NEW q \in Seq(Event), q # <<>>, NEW t,
           t = IF Head(q).type = "message" THEN Append(s, Head(q).id) ELSE s
    PROVE  GotOf(t, Tail(q)) = GotOf(s, q) /\ TakenOf(t, Tail(q)) = TakenOf(s, q)
    <1> DEFINE e == Head(q)
    <1>1. e \in Event /\ Tail(q) \in Seq(Event) /\ <<e>> \in Seq(Event)
        BY HeadTailProperties
    <1>2. e.type = "message" <=> e \in Messages
        BY <1>1 DEF Messages
    <1>3. Sent(q) = (IF e \in Messages THEN {e.id} ELSE {}) \cup Sent(Tail(q))
        <2>1. q = <<e>> \o Tail(q)
            BY HeadAndTail
        <2>2. Sent(<<e>> \o Tail(q)) = Sent(<<e>>) \cup Sent(Tail(q))
            BY <1>1, SentParts
        <2> QED
            BY <2>1, <2>2, SentParts
    <1>4. /\ Count(q, Messages) = Count(Tail(q), Messages) + (IF e \in Messages THEN 1 ELSE 0)
          /\ Count(Tail(q), Messages) \in Nat /\ Len(s) \in Nat /\ DOMAIN s = 1..Len(s)
        BY <1>1, CountTail, CountType, LenProperties
    <1> HIDE DEF e
    <1>5. CASE e \in Messages
        <2>1. t = Append(s, e.id) /\ e.id \in Nat
            BY <1>1, <1>2, <1>5 DEF e, Event
        <2>2. /\ Len(t) = Len(s) + 1 /\ DOMAIN t = 1..(Len(s) + 1)
              /\ \A i \in 1..Len(s) : t[i] = s[i]
              /\ t[Len(s) + 1] = e.id
            BY <2>1, AppendProperties, LenProperties
        <2>3. {t[i] : i \in DOMAIN t} = {s[i] : i \in DOMAIN s} \cup {e.id}
            <3>1. DOMAIN t = DOMAIN s \cup {Len(s) + 1}
                BY <1>4, <2>2
            <3> QED
                BY <1>4, <2>2, <3>1
        <2>4. GotOf(t, Tail(q)) = GotOf(s, q)
            BY <1>3, <1>5, <2>3 DEF GotOf
        <2>5. TakenOf(t, Tail(q)) = TakenOf(s, q)
            BY <1>4, <1>5, <2>2 DEF TakenOf
        <2> QED
            BY <2>4, <2>5
    <1>6. CASE e \notin Messages
        <2>1. t = s
            BY <1>2, <1>6 DEF e
        <2>2. TakenOf(t, Tail(q)) = TakenOf(s, q)
            <3>1. Count(q, Messages) = Count(Tail(q), Messages)
                BY <1>4, <1>6
            <3>2. TakenOf(s, Tail(q)) = TakenOf(s, q)
                BY <3>1 DEF TakenOf
            <3> QED
                BY <2>1, <3>2
        <2>3. Sent(q) = Sent(Tail(q))
            BY <1>3, <1>6
        <2>4. GotOf(t, Tail(q)) = GotOf(s, q)
            <3>1. GotOf(s, Tail(q)) = GotOf(s, q)
                BY <2>3 DEF GotOf
            <3> QED
                BY <2>1, <3>1
        <2> QED
            BY <2>2, <2>4
    <1> QED
        BY <1>5, <1>6


\* A buffer: messages, all of them different.
NoneTwice(q) ==
    /\ \A i \in DOMAIN q : q[i] \in Messages
    /\ \A i, j \in DOMAIN q : q[i].id = q[j].id => i = j

\* Such a buffer holds as many messages as it is long.
LEMMA DifferentAreCounted ==
    ASSUME NEW q \in Seq(Event), NoneTwice(q)
    PROVE  Count(q, Messages) = Cardinality(Sent(q))
    <1> DEFINE ids == [i \in Where(q, Messages) |-> q[i].id]
    <1>1. ids \in Bijection(Where(q, Messages), Sent(q))
        <2>1. ids \in [Where(q, Messages) -> Sent(q)]
            BY DEF Sent
        <2>2. \A a, b \in Where(q, Messages) : ids[a] = ids[b] => a = b
            BY DEF NoneTwice, Where
        <2>3. \A n \in Sent(q) : \E i \in Where(q, Messages) : ids[i] = n
            BY DEF Sent
        <2> QED
            BY <2>1, <2>2, <2>3 DEF Bijection, Injection, Surjection, IsInjective
    <1>2. IsFiniteSet(Where(q, Messages))
        BY CountType
    <1> QED
        BY <1>1, <1>2, FS_Bijection DEF ExistsBijection, Count

\* A new message joins a buffer ...
LEMMA DifferentAppend ==
    ASSUME NEW q \in Seq(Event), NoneTwice(q), NEW n \in Nat, n \notin Sent(q)
    PROVE  /\ NoneTwice(Append(q, Ev("message", n)))
           /\ Sent(Append(q, Ev("message", n))) = Sent(q) \cup {n}
    <1> DEFINE ev == Ev("message", n)
    <1>1. ev \in Messages /\ ev \in Event /\ ev.id = n
        BY EventTypes DEF Messages, Ev
    <1> HIDE DEF ev
    <1>2. /\ DOMAIN q = 1..Len(q) /\ Len(q) \in Nat
          /\ DOMAIN Append(q, ev) = 1..(Len(q) + 1)
          /\ Append(q, ev)[Len(q) + 1] = ev
          /\ \A i \in 1..Len(q) : Append(q, ev)[i] = q[i]
        BY <1>1, LenProperties, AppendProperties
    <1>3. \A i \in DOMAIN Append(q, ev) : i \in DOMAIN q \/ i = Len(q) + 1
        BY <1>2
    <1>4. \A i \in DOMAIN q : q[i].id # n
        BY DEF NoneTwice, Sent, Where
    <1>5. NoneTwice(Append(q, ev))
        BY <1>1, <1>2, <1>3, <1>4 DEF NoneTwice
    <1>6. Sent(Append(q, ev)) = Sent(q) \cup {n}
        <2>1. Append(q, ev) = q \o <<ev>> /\ <<ev>> \in Seq(Event)
            BY <1>1, AppendIsConcat
        <2> QED
            BY <1>1, <2>1, SentParts
    <1> QED
        BY <1>5, <1>6 DEF ev

\* ... and the oldest leaves it.
LEMMA DifferentTail ==
    ASSUME NEW q \in Seq(Event), NoneTwice(q), q # <<>>
    PROVE  NoneTwice(Tail(q)) /\ Sent(q) = {Head(q).id} \cup Sent(Tail(q))
    <1>1. /\ DOMAIN q = 1..Len(q) /\ Len(q) \in Nat \ {0} /\ Head(q) = q[1]
          /\ Tail(q) \in Seq(Event) /\ <<Head(q)>> \in Seq(Event)
          /\ DOMAIN Tail(q) = 1..(Len(q) - 1)
          /\ \A i \in 1..(Len(q) - 1) : Tail(q)[i] = q[i + 1]
        BY LenProperties, HeadTailProperties, EmptySeq
    <1>2. \A i \in DOMAIN Tail(q) : i \in Int /\ i + 1 \in DOMAIN q /\ Tail(q)[i] = q[i + 1]
        BY <1>1
    <1>3. NoneTwice(Tail(q))
        <2>1. \A i \in DOMAIN Tail(q) : Tail(q)[i] \in Messages
            BY <1>2 DEF NoneTwice
        <2>2. ASSUME NEW i \in DOMAIN Tail(q), NEW j \in DOMAIN Tail(q),
                     Tail(q)[i].id = Tail(q)[j].id
              PROVE  i = j
            <3>1. i + 1 = j + 1
                BY <1>2, <2>2 DEF NoneTwice
            <3> QED
                BY <1>2, <3>1
        <2> QED
            BY <2>1, <2>2 DEF NoneTwice
    <1>4. Head(q) \in Messages
        BY <1>1 DEF NoneTwice
    <1>5. Sent(q) = Sent(<<Head(q)>>) \cup Sent(Tail(q))
        <2>1. q = <<Head(q)>> \o Tail(q)
            BY HeadAndTail
        <2>2. Sent(<<Head(q)>> \o Tail(q)) = Sent(<<Head(q)>>) \cup Sent(Tail(q))
            BY <1>1, SentParts
        <2> QED
            BY <2>1, <2>2
    <1> QED
        BY <1>3, <1>4, <1>5, SentParts

\* What bufferMessage keeps: the new message, and the others but for the oldest
\* when the buffer is full (session.service.ts:98).
LEMMA BufferKeeps ==
    ASSUME NEW s \in SessionType, NoneTwice(s.buffered),
           NEW n \in Nat, n \notin Sent(s.buffered), NEW t,
           t = BufferMessage(s, Ev("message", n)).buffered
    PROVE  /\ NoneTwice(t)
           /\ n \in Sent(t) /\ Sent(t) \subseteq Sent(s.buffered) \cup {n}
           /\ Sent(s.buffered) \subseteq
                 Sent(t) \cup IF Len(s.buffered) < MaxBuffered THEN {} ELSE {Head(s.buffered).id}
    <1> DEFINE b == s.buffered
               a == Append(b, Ev("message", n))
    <1>1. b \in Seq(Event) /\ Ev("message", n) \in Event
        BY EventTypes DEF SessionType
    <1>2. NoneTwice(a) /\ Sent(a) = Sent(b) \cup {n} /\ a \in Seq(Event) /\ a # <<>>
        BY <1>1, DifferentAppend, AppendProperties
    <1>3. t = IF Len(b) < MaxBuffered THEN a ELSE Tail(a)
        BY DEF BufferMessage, SessionType
    <1>4. CASE Len(b) < MaxBuffered
        BY <1>2, <1>3, <1>4
    <1>5. CASE ~(Len(b) < MaxBuffered)
        <2>1. b # <<>>
            BY <1>1, <1>5, SessionAssumption, EmptySeq
        <2>2. Head(a) = Head(b) /\ Tail(a) = Append(Tail(b), Ev("message", n))
            BY <1>1, <2>1, HeadTailAppend
        <2>3. NoneTwice(Tail(a)) /\ Sent(a) = {Head(b).id} \cup Sent(Tail(a))
            BY <1>2, <2>2, DifferentTail
        <2>4. n \in Sent(Tail(a))
            <3>1. NoneTwice(Tail(b)) /\ Sent(b) = {Head(b).id} \cup Sent(Tail(b))
                BY <1>1, <2>1, DifferentTail
            <3>2. Tail(b) \in Seq(Event) /\ n \notin Sent(Tail(b))
                BY <1>1, <2>1, <3>1, HeadTailProperties
            <3>3. Sent(Append(Tail(b), Ev("message", n))) = Sent(Tail(b)) \cup {n}
                BY <3>1, <3>2, DifferentAppend
            <3> QED
                BY <2>2, <3>3
        <2>5. t = Tail(a)
            BY <1>3, <1>5
        <2> HIDE DEF a, b
        <2>6. /\ NoneTwice(t) /\ n \in Sent(t) /\ Sent(t) \subseteq Sent(b) \cup {n}
              /\ Sent(b) \subseteq Sent(t) \cup {Head(b).id}
            BY <1>2, <2>3, <2>4, <2>5
        <2> QED
            BY <1>5, <2>6 DEF b
    <1> QED
        BY <1>4, <1>5

\* A browser that joins a connected session gets what is buffered, once.
LEMMA ReplayIsGot ==
    ASSUME NEW s \in SessionType, NoneTwice(s.buffered), s.status = "connected"
    PROVE  /\ GotOf(<<>>, Replay(s)) = Sent(s.buffered)
           /\ TakenOf(<<>>, Replay(s)) = Cardinality(Sent(s.buffered))
    <1> DEFINE open == <<Ev("open", 0)>>
               subs == [i \in 1..Len(s.topics) |-> Ev("subscribed", s.topics[i])]
               b == s.buffered
    <1>1. b \in Seq(Event) /\ s.topics \in Seq(Nat)
        BY DEF SessionType
    <1>2. open \in Seq(Event) /\ Ev("open", 0) \notin Messages
        BY EventTypes, EventSeqs DEF Messages, Ev
    <1>3. subs \in Seq(Event) /\ Where(subs, Messages) = {}
        <2>1. Len(s.topics) \in Nat /\ \A i \in 1..Len(s.topics) : s.topics[i] \in Nat
            BY <1>1, LenProperties, ElementOfSeq
        <2>2. subs \in Seq(Event)
            BY <2>1 DEF Ev, Event, EventType
        <2>3. \A i \in DOMAIN subs : subs[i].type # "message"
            BY DEF Ev
        <2> QED
            BY <2>2, <2>3 DEF Where, Messages
    <1>4. Replay(s) = (open \o b) \o subs
        BY DEF Replay
    <1> HIDE DEF open, subs, b
    <1>5. open \o b \in Seq(Event)
        BY <1>1, <1>2, ConcatProperties
    <1>6. /\ GotOf(<<>>, Replay(s)) = GotOf(<<>>, open \o b)
          /\ TakenOf(<<>>, Replay(s)) = TakenOf(<<>>, open \o b)
        BY <1>3, <1>4, <1>5, OthersAreNotGot
    <1>7. Sent(open \o b) = Sent(b)
        <2>1. Sent(open) = {}
            BY <1>2, SentParts DEF open
        <2>2. Sent(open \o b) = Sent(open) \cup Sent(b)
            BY <1>1, <1>2, SentParts
        <2> QED
            BY <2>1, <2>2
    <1>8. Count(open \o b, Messages) = Cardinality(Sent(b))
        <2>1. Count(open, Messages) = 0
            BY <1>2, CountOne DEF open
        <2>2. Count(open \o b, Messages) = Count(open, Messages) + Count(b, Messages)
            BY <1>1, <1>2, CountConcat
        <2>3. Count(b, Messages) \in Nat /\ Count(b, Messages) = Cardinality(Sent(b))
            BY <1>1, CountType, DifferentAreCounted DEF b
        <2> QED
            BY <2>1, <2>2, <2>3
    <1>9. GotOf(<<>>, open \o b) = Sent(b)
        BY <1>7 DEF GotOf
    <1>10. TakenOf(<<>>, open \o b) = Cardinality(Sent(b))
        <2>1. Len(<<>>) = 0 /\ Count(open \o b, Messages) \in Nat
            BY <1>5, CountType
        <2> QED
            BY <1>8, <2>1 DEF TakenOf
    <1> QED
        BY <1>6, <1>9, <1>10 DEF b

==============================================================================
