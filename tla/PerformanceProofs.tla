-------------------------- MODULE PerformanceProofs --------------------------
(****************************************************************************)
(* Proofs about Performance, for every value of the constants: the types,   *)
(* one test at a time, whose ping is registered, what a result says, and    *)
(* what an abort stops.                                                     *)
(*                                                                          *)
(* The proofs stand on Lifecycle of WsProxyProofs: that a ping promise is   *)
(* pending exactly while it is registered.                                  *)
(****************************************************************************)
EXTENDS Performance, WsProxyProofs

-----------------------------------------------------------------------------
(* The connection under a test.                                             *)

\* Events that say nothing about the connection and carry no message.
Noise == {evs \in Seq(Event) : Quiet(evs) /\ Where(evs, Messages) = {}}

\* What a test emits is noise.
LEMMA TestsMakeNoise ==
    ASSUME NEW t \in Test
    PROVE  /\ <<>> \in Noise
           /\ <<Ev("perf", t)>> \in Noise
           /\ <<Ev("sent", 0), Ev("perf", t)>> \in Noise
           /\ <<>> \o <<Ev("perf", t)>> \in Noise
           /\ <<Ev("perf", t)>> \o <<Ev("perf", t)>> \in Noise
    <1> DEFINE e == Ev("perf", t)
               f == Ev("sent", 0)
    <1>1. /\ e \in Event /\ e \notin Messages /\ e.type \notin StatusEvents
          /\ f \in Event /\ f \notin Messages /\ f.type \notin StatusEvents
        BY DEF Ev, Event, EventType, StatusEvents, Messages, Test
    <1> HIDE DEF e, f
    <1>2. ASSUME NEW evs \in Seq(Event), \A i \in DOMAIN evs : evs[i] \in {e, f}
          PROVE  evs \in Noise
        BY <1>1, <1>2 DEF Noise, Quiet, Where
    <1>3. <<>> \in Seq(Event) /\ <<e>> \in Seq(Event) /\ <<f, e>> \in Seq(Event)
                /\ <<e, e>> \in Seq(Event)
        BY <1>1, EventSeqs
    <1>4. /\ \A i \in DOMAIN <<>> : <<>>[i] \in {e, f}
          /\ \A i \in DOMAIN <<e>> : <<e>>[i] \in {e, f}
          /\ \A i \in DOMAIN <<f, e>> : <<f, e>>[i] \in {e, f}
          /\ \A i \in DOMAIN <<e, e>> : <<e, e>>[i] \in {e, f}
        OBVIOUS
    <1>5. <<>> \in Noise /\ <<e>> \in Noise /\ <<f, e>> \in Noise /\ <<e, e>> \in Noise
        BY <1>2, <1>3, <1>4
    <1>6. ASSUME NEW q \in {<<>>, <<e>>} PROVE q \o <<e>> \in Noise
        <2> DEFINE r == <<e>>
        <2>1. /\ q \in Seq(Event) /\ r \in Seq(Event) /\ Len(r) = 1 /\ r[1] = e
              /\ \A i \in 1..Len(q) : q[i] = e
            <3>1. q \in Seq(Event) /\ r \in Seq(Event)
                BY <1>3
            <3>2. Len(r) = 1 /\ r[1] = e
                OBVIOUS
            <3>3. \A i \in 1..Len(q) : q[i] = e
                <4>1. CASE q = <<>>
                    BY <4>1
                <4>2. CASE q = <<e>>
                    BY <4>2
                <4> QED
                    BY <4>1, <4>2
            <3> QED
                BY <3>1, <3>2, <3>3
        <2> HIDE DEF r
        <2>2. /\ q \o r \in Seq(Event) /\ DOMAIN (q \o r) = 1..Len(q \o r)
              /\ \A i \in 1..Len(q \o r) : (q \o r)[i] = e
            BY <2>1, ConcatProperties, LenProperties
        <2>3. q \o r \in Noise
            BY <1>2, <2>2
        <2> QED
            BY <2>3 DEF r
    <1> QED
        BY <1>5, <1>6 DEF e, f

\* A step that at most makes noise, counts a send and sets its timestamp on a
\* tracked socket.
OnlyMakes(evs) ==
    /\ EmitAll(evs)
    /\ sess' \in {sess, RecordSent(sess)} /\ pingTs' \in {pingTs, pingTs \/ tracked}
    /\ UNCHANGED <<connection, pingVars>>

MakesNoise == \E evs \in Noise : OnlyMakes(evs)

\* A round that emits nothing is such a step too.
LEMMA EmitNothing == TypeOK /\ UNCHANGED inbox => EmitAll(<<>>)
    <1> SUFFICES ASSUME TypeOK, UNCHANGED inbox PROVE EmitAll(<<>>)
        OBVIOUS
    <1>1. \A k \in Clients : inbox[k] \o <<>> = inbox[k]
        <2>1. \A k \in Clients : inbox[k] \in Seq(Event)
            BY DEF TypeOK, GatewayTypeOK
        <2> QED
            BY <2>1, ConcatEmptySeq
    <1>2. inbox = [k \in Clients |-> inbox[k]]
        BY DEF TypeOK, GatewayTypeOK
    <1> QED
        BY <1>1, <1>2 DEF EmitAll

\* A round of a latency test is a call of pingAsync, or the end of the test.
LEMMA PingRoundIs ==
    ASSUME NEW t \in Test, NEW r, PingRound(t, r), UNCHANGED <<connection, sess, pingTs>>
    PROVE  Next \/ MakesNoise
    <1>1. ASSUME tracked, ws = "open", UNCHANGED inbox,
                 NEW p \in Ping, NewPing(p), RegisterPing(p)
          PROVE  Next
        <2>1. PingAsync(p)
            BY <1>1 DEF PingAsync, connection, clients, gatewayVars, condVars, feedVars, history
        <2> QED
            BY <2>1 DEF Next
    <1>2. ASSUME Finish(t, [r EXCEPT !.aborted = TRUE], <<>>), UNCHANGED pingVars
          PROVE  MakesNoise
        BY <1>2, TestsMakeNoise DEF Finish, MakesNoise, OnlyMakes
    <1>3. CASE Finish(t, [r EXCEPT !.aborted = TRUE], <<>>) /\ UNCHANGED pingVars
        BY <1>2, <1>3
    <1>4. CASE /\ tracked /\ ws = "open" /\ UNCHANGED inbox
               /\ \E p \in Ping : NewPing(p) /\ RegisterPing(p)
        BY <1>1, <1>4
    <1> QED
        BY <1>3, <1>4, Zenon DEF PingRound

\* A round of a throughput test sends a message, or fails to.
LEMMA SendRoundIs ==
    ASSUME TypeOK, NEW t \in Test, NEW r, SendRound(t, r), UNCHANGED <<connection, pingVars>>
    PROVE  MakesNoise
    <1>1. CASE sess' = RecordSent(sess) /\ EmitAll(<<Ev("sent", 0), Ev("perf", t)>>)
        BY <1>1, TestsMakeNoise DEF SendRound, MakesNoise, OnlyMakes
    <1>2. CASE UNCHANGED <<sess, inbox>>
        BY <1>2, EmitNothing, TestsMakeNoise DEF SendRound, MakesNoise, OnlyMakes
    <1> QED
        BY <1>1, <1>2 DEF SendRound

\* To the connection, a step of a test is a pingAsync or noise.
LEMMA TestsOnlyMakeNoise ==
    ASSUME TypeOK, [PerfNext]_allVars
    PROVE  [Next]_vars \/ MakesNoise
    <1>1. CASE ConnectionNext \/ UNCHANGED vars
        BY <1>1 DEF Next
    <1>2. ASSUME NEW t \in Test, StartLatency(t) \/ WakeLatency(t)
          PROVE  Next \/ MakesNoise
        <2>1. CASE \E r : PingRound(t, r)
            BY <1>2, <2>1, PingRoundIs DEF StartLatency, WakeLatency
        <2>2. CASE \E r : Finish(t, r, <<>>) /\ UNCHANGED pingVars
            BY <1>2, <2>2, TestsMakeNoise
            DEF Finish, StartLatency, WakeLatency, MakesNoise, OnlyMakes
        <2> QED
            BY <1>2, <2>1, <2>2 DEF StartLatency, WakeLatency
    <1>3. ASSUME NEW t \in Test, Resume(t)
          PROVE  MakesNoise
        <2>1. PICK evs \in {<<Ev("perf", t)>>, <<>> \o <<Ev("perf", t)>>,
                            <<Ev("perf", t)>> \o <<Ev("perf", t)>>} : EmitAll(evs)
            BY <1>3 DEF Resume, Finish, FailPing
        <2>2. evs \in Noise
            BY TestsMakeNoise
        <2> QED
            BY <1>3, <2>1, <2>2 DEF Resume, MakesNoise, OnlyMakes
    <1>4. ASSUME NEW t \in Test, StartThroughput(t) \/ WakeThroughput(t)
          PROVE  MakesNoise
        <2>1. CASE \E r : SendRound(t, r)
            BY <1>4, <2>1, SendRoundIs DEF StartThroughput, WakeThroughput
        <2>2. CASE (\E r : Finish(t, r, <<>>)) /\ UNCHANGED <<sess, pingTs>>
            BY <1>4, <2>2, TestsMakeNoise
            DEF Finish, StartThroughput, WakeThroughput, MakesNoise, OnlyMakes
        <2> QED
            BY <1>4, <2>1, <2>2 DEF StartThroughput, WakeThroughput
    <1> QED
        BY <1>1, <1>2, <1>3, <1>4 DEF PerfNext, TestStep, AbortTest, allVars

\* Noise changes no status, buffer or number of messages of the session.
LEMMA NoisySession ==
    ASSUME TypeOK, MakesNoise
    PROVE  /\ sess' \in SessionType /\ sess'.status = sess.status
           /\ sess'.buffered = sess.buffered /\ sess'.received = sess.received
    <1>1. sess \in SessionType /\ "error" \in Status /\ Ev("open", 0) \in Event
        BY EventTypes DEF TypeOK, GatewayTypeOK, Status
    <1>2. sess' \in {sess, RecordSent(sess)}
        BY DEF MakesNoise, OnlyMakes
    <1>3. RecordSent(sess).received = sess.received
        BY <1>1, ReceivedKept
    <1>4. SameAs(sess, RecordSent(sess))
        BY <1>1, RecordTypes
    <1> QED
        BY <1>1, <1>2, <1>3, <1>4 DEF SameAs

\* Noise disturbs neither the types nor Lifecycle.
LEMMA NoiseKeepsConnection ==
    ASSUME TypeOK, Lifecycle, MakesNoise
    PROVE  TypeOK' /\ Lifecycle'
    <1>1. PICK evs \in Noise : OnlyMakes(evs)
        BY DEF MakesNoise
    <1>2. evs \in Seq(Event)
        BY DEF Noise
    <1>3. inbox' \in [Clients -> Seq(Event)]
        BY <1>1, <1>2, EmitType DEF TypeOK, OnlyMakes
    <1>4. sess' \in SessionType /\ sess'.status = sess.status
        BY NoisySession
    <1>5. TypeOK'
        BY <1>1, <1>3, <1>4
        DEF OnlyMakes, TypeOK, GatewayTypeOK, connection, clients, condVars, feedVars,
            pingVars, history
    <1>6. Lifecycle'
        BY <1>1, <1>4
        DEF OnlyMakes, Lifecycle, ClosedIsSettled, DeletedNeverReconnects,
            PendingPingIsRegistered, CutNeedsCondition, TypeOK,
            connection, condVars, pingVars, history
    <1> QED
        BY <1>5, <1>6

\* Every step, of a test or of the connection, keeps types and Lifecycle.
LEMMA ConnectionKept ==
    TypeOK /\ Lifecycle /\ [PerfNext]_allVars => TypeOK' /\ Lifecycle'
    BY TestsOnlyMakeNoise, TypeStep, LifecycleStep, NoiseKeepsConnection

-----------------------------------------------------------------------------
(* The tests.                                                               *)

\* A test record that the code can be in: only a latency test awaits, it has
\* samples to go while it runs, and a whole or an aborted result says so.
Sound(r) ==
    /\ r \in TestType
    /\ r.got <= IF r.kind = "latency" THEN Total ELSE MaxRounds
    /\ r.pc = "idle" => ~r.abort
    /\ r.pc = "await" => r.kind = "latency"
    /\ r.pc \in {"await", "sleep"} /\ r.kind = "latency" => r.got < Total
    /\ r.pc = "done" /\ ~r.aborted =>
           IF r.kind = "latency" THEN r.got = Total ELSE ~r.abort

\* The inductive invariant of the tests.
Tests ==
    /\ active \in Test \cup {0}
    /\ test \in [Test -> TestType]
    /\ \A t \in Test : Sound(test[t])
    /\ OneTestAtATime
    /\ PingBelongsToTest

\* It implies the properties the runs check.
LEMMA TestsImply == Tests => PerfTypeOK /\ UnmarkedIsWhole
    BY DEF Tests, Sound, PerfTypeOK, UnmarkedIsWhole

\* At first no test has run.
LEMMA TestsInit == PerfInit => Tests
    BY PerformanceAssumption
    DEF PerfInit, Init, NewTest, Tests, Sound, TestType, OneTestAtATime,
        PingBelongsToTest, Test, Ping

\* A test that starts, goes on or ends while no other runs.
LEMMA TestMoves ==
    ASSUME Tests, NEW t \in Test, active \in {0, t}, NEW r, Sound(r), r.pc # "idle",
           Set(t, r), active' = (IF r.pc = "done" THEN 0 ELSE t),
           resolver' # 0 => r.pc = "await" /\ r.ping = resolver'
    PROVE  Tests'
    <1>1. /\ test' \in [Test -> TestType] /\ test'[t] = r
          /\ \A u \in Test \ {t} : test'[u] = test[u]
        BY DEF Tests, Set, Sound
    <1>2. active' \in Test \cup {0} /\ \A u \in Test : Sound(test'[u])
        BY <1>1 DEF Tests
    <1>3. r.pc \in {"await", "sleep", "done"}
        BY DEF Sound, TestType
    <1>4. OneTestAtATime'
        BY <1>1, <1>3 DEF Tests, OneTestAtATime, Test
    <1>5. PingBelongsToTest'
        BY <1>1 DEF PingBelongsToTest, Test
    <1> QED
        BY <1>1, <1>2, <1>4, <1>5 DEF Tests, Sound

\* A test ends: its record is sound if the result says how it ended.
LEMMA TestFinishes ==
    ASSUME Tests, NEW t \in Test, active \in {0, t}, NEW r, r \in TestType,
           r.got <= IF r.kind = "latency" THEN Total ELSE MaxRounds,
           r.aborted \/ (IF r.kind = "latency" THEN r.got = Total ELSE ~r.abort),
           NEW evs, Finish(t, r, evs), resolver' = 0
    PROVE  Tests'
    <1> DEFINE done == [r EXCEPT !.pc = "done", !.ping = 0]
    <1>1. done.pc = "done" /\ Sound(done)
        BY DEF Sound, TestType
    <1>2. Set(t, done) /\ active' = 0
        BY DEF Finish
    <1> HIDE DEF done
    <1> QED
        BY <1>1, <1>2, TestMoves

\* A round of a latency test.
LEMMA PingRoundTests ==
    ASSUME Tests, NEW t \in Test, active \in {0, t}, resolver = 0,
           NEW r \in TestType, r.kind = "latency", r.got < Total, PingRound(t, r)
    PROVE  Tests'
    <1>1. ASSUME NEW p \in Ping, RegisterPing(p), active' = t,
                 Set(t, [r EXCEPT !.pc = "await", !.ping = p])
          PROVE  Tests'
        <2> DEFINE next == [r EXCEPT !.pc = "await", !.ping = p]
        <2>1. /\ next \in TestType /\ next.pc = "await" /\ next.ping = p
              /\ next.kind = "latency" /\ next.got = r.got
            BY DEF TestType
        <2>2. resolver' = p
            BY <1>1 DEF RegisterPing
        <2>3. Set(t, next)
            BY <1>1
        <2> HIDE DEF next
        <2>4. Sound(next)
            BY <2>1, PerformanceAssumption DEF Sound, TestType
        <2> QED
            BY <1>1, <2>1, <2>2, <2>3, <2>4, TestMoves
    <1>2. ASSUME Finish(t, [r EXCEPT !.aborted = TRUE], <<>>), UNCHANGED pingVars
          PROVE  Tests'
        <2> DEFINE last == [r EXCEPT !.aborted = TRUE]
        <2>1. last \in TestType /\ last.aborted /\ last.kind = "latency" /\ last.got = r.got
            BY DEF TestType
        <2>4. last.got <= Total
            BY <2>1, PerformanceAssumption DEF TestType
        <2>2. resolver' = 0
            BY <1>2 DEF pingVars
        <2> HIDE DEF last
        <2>3. Finish(t, last, <<>>)
            BY <1>2 DEF last
        <2> QED
            BY <2>1, <2>2, <2>3, <2>4, TestFinishes
    <1> QED
        BY <1>1, <1>2 DEF PingRound

\* A round of a throughput test.
LEMMA SendRoundTests ==
    ASSUME Tests, NEW t \in Test, active \in {0, t}, resolver' = 0,
           NEW r \in TestType, r.kind = "throughput", r.got < MaxRounds, SendRound(t, r)
    PROVE  Tests'
    <1>1. PICK next \in {[r EXCEPT !.pc = "sleep", !.got = @ + 1],
                         [r EXCEPT !.pc = "sleep", !.errs = @ + 1]} : Set(t, next)
        BY DEF SendRound
    <1>2. /\ next \in TestType /\ next.pc = "sleep" /\ next.kind = "throughput"
          /\ next.got \in {r.got, r.got + 1}
        <2>1. r.got + 1 \in Nat /\ r.errs + 1 \in Nat
            BY DEF TestType
        <2>2. CASE next = [r EXCEPT !.pc = "sleep", !.got = r.got + 1]
            BY <2>1, <2>2 DEF TestType
        <2>3. CASE next = [r EXCEPT !.pc = "sleep", !.errs = r.errs + 1]
            BY <2>1, <2>3 DEF TestType
        <2> QED
            BY <1>1, <2>2, <2>3
    <1>3. active' = t
        BY DEF SendRound
    <1>4. Sound(next)
        BY <1>2, PerformanceAssumption DEF Sound, TestType
    <1> QED
        BY <1>1, <1>2, <1>3, <1>4, TestMoves

\* Only pingAsync registers a ping.
LEMMA NoNewPing == ConnectionNext => resolver' \in {0, resolver}
    BY DEF ConnectionNext, ClientJoins, ClientGoes, ClientStays, SetCondition,
           ClearCondition, CutConnection, OnOpen, OnMessage, OnMessageDropped,
           ForwardDelayed, HandshakeFails, HandshakeRejected, OnError, PeerEnds, OnClose,
           OnPong, SendMessage, SendPing, CloseConnection, PingTimeout, CloseCleanup,
           wsVars, pingVars

\* While a test sleeps, or no test runs, no ping is registered.
LEMMA NoPingRegistered ==
    ASSUME Tests, active = 0 \/ test[active].pc = "sleep"
    PROVE  resolver = 0
    BY DEF Tests, PingBelongsToTest

\* The test whose loop runs is the active one.
LEMMA RunningIsActive ==
    ASSUME Tests, NEW t \in Test, test[t].pc \in {"await", "sleep"}
    PROVE  active = t /\ test[t] \in TestType /\ Sound(test[t])
    BY DEF Tests, OneTestAtATime

\* The continuation of an awaited ping.
LEMMA ResumeTests ==
    ASSUME TypeOK, Lifecycle, Tests, NEW t \in Test, Resume(t)
    PROVE  Tests'
    <1> DEFINE r == [test[t] EXCEPT !.pc = "sleep", !.ping = 0, !.got = test[t].got + 1]
               last == [test[t] EXCEPT !.aborted = TRUE]
    <1>1. test[t].pc = "await" /\ active = t /\ test[t] \in TestType /\ Sound(test[t])
        BY RunningIsActive DEF Resume
    <1>2. test[t].kind = "latency" /\ test[t].got < Total
        BY <1>1 DEF Sound
    <1>3. promise[test[t].ping] # "pending" => resolver = 0
        BY <1>1 DEF Tests, PingBelongsToTest, Lifecycle, PendingPingIsRegistered, TypeOK
    <1>4. resolver' = resolver
        BY DEF Resume, pingVars
    <1>5. r \in TestType /\ r.kind = "latency" /\ r.pc = "sleep" /\ r.got = test[t].got + 1
        <2>1. test[t].got + 1 \in Nat
            BY <1>1 DEF TestType
        <2> QED
            BY <1>1, <1>2, <2>1 DEF TestType
    <1> HIDE DEF r
    <1>6. r.got <= Total
        BY <1>1, <1>2, <1>5, PerformanceAssumption DEF TestType
    <1>7. ASSUME promise[test[t].ping] = "resolved", ~LastSample(r.got),
                 Set(t, r), active' = active
          PROVE  Tests'
        <2>1. resolver' = 0
            BY <1>3, <1>4, <1>7
        <2>2. Sound(r)
            BY <1>5, <1>6, <1>7, PerformanceAssumption DEF Sound, LastSample, TestType
        <2> QED
            BY <1>1, <1>5, <1>7, <2>1, <2>2, TestMoves
    <1>8. ASSUME promise[test[t].ping] = "resolved", LastSample(r.got),
                 Finish(t, r, <<Ev("perf", t)>>)
          PROVE  Tests'
        <2>1. resolver' = 0
            BY <1>3, <1>4, <1>8
        <2>2. r.got = Total
            BY <1>5, <1>6, <1>8, PerformanceAssumption DEF LastSample, TestType
        <2>3. r.got <= Total
            BY <1>6
        <2> QED
            BY <1>1, <1>5, <1>8, <2>1, <2>2, <2>3, TestFinishes
    <1>9. ASSUME promise[test[t].ping] = "rejected", Finish(t, last, <<>>)
          PROVE  Tests'
        <2>1. resolver' = 0
            BY <1>3, <1>4, <1>9
        <2>2. /\ last \in TestType /\ last.aborted /\ last.kind = "latency"
              /\ last.got = test[t].got
            BY <1>1, <1>2 DEF TestType
        <2>3. last.got <= Total
            BY <1>1, <1>2, <2>2, PerformanceAssumption DEF TestType
        <2> HIDE DEF last
        <2> QED
            BY <1>1, <1>9, <2>1, <2>2, <2>3, TestFinishes
    <1> QED
        BY <1>7, <1>8, <1>9 DEF Resume, FailPing, r

\* A latency test starts, or wakes from its interval.
LEMMA LatencyTests ==
    ASSUME Tests, NEW t \in Test, StartLatency(t) \/ WakeLatency(t)
    PROVE  Tests'
    <1>1. CASE StartLatency(t)
        <2>1. active = 0 /\ resolver = 0
            BY <1>1, NoPingRegistered DEF StartLatency, MayStart
        <2>2. /\ NewTest("latency") \in TestType
              /\ NewTest("latency").kind = "latency" /\ NewTest("latency").got < Total
            BY PerformanceAssumption DEF NewTest, TestType
        <2> QED
            BY <1>1, <2>1, <2>2, PingRoundTests DEF StartLatency
    <1>2. CASE WakeLatency(t)
        <2> DEFINE last == [test[t] EXCEPT !.aborted = TRUE]
        <2>1. /\ active = t /\ test[t] \in TestType /\ Sound(test[t])
              /\ test[t].kind = "latency" /\ test[t].pc = "sleep"
            BY <1>2, RunningIsActive DEF WakeLatency
        <2>2. resolver = 0 /\ test[t].got < Total
            BY <2>1, NoPingRegistered DEF Sound
        <2>3. ASSUME Finish(t, last, <<>>), UNCHANGED pingVars
              PROVE  Tests'
            <3>1. resolver' = 0
                BY <2>2, <2>3 DEF pingVars
            <3>2. /\ last \in TestType /\ last.aborted /\ last.kind = "latency"
                  /\ last.got = test[t].got
                BY <2>1 DEF TestType
            <3>3. last.got <= Total
                BY <2>1, <2>2, <3>2, PerformanceAssumption DEF TestType
            <3> HIDE DEF last
            <3> QED
                BY <2>1, <2>3, <3>1, <3>2, <3>3, TestFinishes
        <2> QED
            BY <1>2, <2>1, <2>2, <2>3, PingRoundTests DEF WakeLatency
    <1> QED
        BY <1>1, <1>2

\* A throughput test starts, or wakes from its pause.
LEMMA ThroughputTests ==
    ASSUME Tests, NEW t \in Test, StartThroughput(t) \/ WakeThroughput(t)
    PROVE  Tests'
    <1>1. CASE StartThroughput(t)
        <2>1. active = 0 /\ resolver' = 0
            BY <1>1, NoPingRegistered DEF StartThroughput, MayStart, pingVars
        <2>2. /\ NewTest("throughput") \in TestType
              /\ NewTest("throughput").kind = "throughput"
              /\ NewTest("throughput").got < MaxRounds
            BY PerformanceAssumption DEF NewTest, TestType
        <2> QED
            BY <1>1, <2>1, <2>2, SendRoundTests DEF StartThroughput
    <1>2. CASE WakeThroughput(t)
        <2> DEFINE last == [test[t] EXCEPT !.aborted = test[t].abort]
        <2>1. /\ active = t /\ test[t] \in TestType /\ Sound(test[t])
              /\ test[t].kind = "throughput" /\ test[t].pc = "sleep"
            BY <1>2, RunningIsActive DEF WakeThroughput
        <2>2. resolver' = 0
            BY <1>2, <2>1, NoPingRegistered DEF WakeThroughput, pingVars
        <2>3. ASSUME SendRound(t, test[t]), test[t].got + test[t].errs < MaxRounds
              PROVE  Tests'
            <3>1. test[t].got < MaxRounds
                BY <2>1, <2>3, PerformanceAssumption DEF TestType
            <3> QED
                BY <2>1, <2>2, <2>3, <3>1, SendRoundTests
        <2>4. ASSUME Finish(t, last, <<>>)
              PROVE  Tests'
            <3>1. /\ last \in TestType /\ last.kind = "throughput"
                  /\ last.got = test[t].got
                BY <2>1 DEF TestType
            <3>2. last.aborted \/ ~last.abort
                BY <2>1 DEF TestType
            <3>3. last.got <= MaxRounds
                BY <2>1, <3>1 DEF Sound
            <3> HIDE DEF last
            <3> QED
                BY <2>1, <2>2, <2>4, <3>1, <3>2, <3>3, TestFinishes
        <2> QED
            BY <1>2, <2>3, <2>4 DEF WakeThroughput
    <1> QED
        BY <1>1, <1>2

\* An abort is only recorded, and only in a running test.
LEMMA AbortTests ==
    ASSUME Tests, AbortTest
    PROVE  Tests'
    <1> DEFINE r == [test[active] EXCEPT !.abort = TRUE]
    <1>1. /\ active \in Test /\ test[active].pc \in {"await", "sleep"}
          /\ Sound(test[active]) /\ test[active] \in TestType
        BY DEF AbortTest, Tests, OneTestAtATime
    <1>2. /\ r \in TestType /\ r.pc = test[active].pc /\ r.kind = test[active].kind
          /\ r.got = test[active].got /\ r.ping = test[active].ping
        BY <1>1 DEF TestType
    <1>3. Sound(r)
        BY <1>1, <1>2 DEF Sound
    <1>4. Set(active, r) /\ UNCHANGED <<resolver, active>>
        BY DEF AbortTest, vars, wsVars
    <1>5. resolver' # 0 => r.pc = "await" /\ r.ping = resolver'
        BY <1>2, <1>4 DEF Tests, PingBelongsToTest
    <1> HIDE DEF r
    <1> QED
        BY <1>1, <1>2, <1>3, <1>4, <1>5, TestMoves

\* Every step keeps the invariant of the tests.
LEMMA TestsStep ==
    TypeOK /\ Lifecycle /\ Tests /\ [PerfNext]_allVars => Tests'
    <1> SUFFICES ASSUME TypeOK, Lifecycle, Tests, [PerfNext]_allVars
                 PROVE  Tests'
        OBVIOUS
    <1>1. CASE resolver' \in {0, resolver} /\ UNCHANGED perfVars
        BY <1>1 DEF Tests, OneTestAtATime, PingBelongsToTest, perfVars
    <1>2. CASE ConnectionNext /\ UNCHANGED perfVars
        BY <1>1, <1>2, NoNewPing
    <1>3. CASE UNCHANGED allVars
        BY <1>1, <1>3 DEF allVars, vars, wsVars
    <1> QED
        BY <1>2, <1>3, ResumeTests, LatencyTests, ThroughputTests, AbortTests
        DEF PerfNext, TestStep

\* All invariants together hold in every behaviour.
LEMMA TestsCorrect == PerfSpec => [](TypeOK /\ Lifecycle /\ Tests)
    <1>1. PerfInit => TypeOK /\ Lifecycle /\ Tests
        BY TypeInit, LifecycleInit, TestsInit DEF PerfInit
    <1>2. TypeOK /\ Lifecycle /\ Tests /\ [PerfNext]_allVars
              => (TypeOK /\ Lifecycle /\ Tests)'
        BY ConnectionKept, TestsStep
    <1> QED
        BY <1>1, <1>2, PTL DEF PerfSpec

-----------------------------------------------------------------------------

\* Tests and results are well typed: a latency test never has more samples than
\* it was asked for.
THEOREM PerfTypeCorrect == PerfSpec => []PerfTypeOK
    BY TestsCorrect, TestsImply, PTL

\* activeTests holds exactly the test whose loop runs, also between an abort and
\* the end of the loop, and the registered ping is the one that test awaits.
THEOREM TestsAreSeparate == PerfSpec => []TestsKeptApart
    <1>1. Tests => TestsKeptApart
        BY DEF Tests, TestsKeptApart
    <1> QED
        BY <1>1, TestsCorrect, PTL

\* A result that is complete and not marked aborted is that of a whole test.
THEOREM UnmarkedResultsAreWhole == PerfSpec => []UnmarkedIsWhole
    BY TestsCorrect, TestsImply, PTL

\* What a step that sets test u does to test t.
LEMMA SetsTest ==
    ASSUME Tests, NEW u \in Test, NEW r, Set(u, r), NEW t \in Test
    PROVE  test'[t] = IF t = u THEN r ELSE test[t]
    BY DEF Tests, Set

\* The step of a test whose abort was requested: it registers no ping, and sends
\* no message if it is a throughput test.
LEMMA AbortedTestStep ==
    ASSUME Tests, NEW t \in Test, test[t].abort, TestStep(t)
    PROVE  /\ test'[t].ping \in {test[t].ping, 0}
           /\ test[t].kind = "throughput" => test'[t].got = test[t].got
    <1>0. test[t] \in TestType /\ Sound(test[t])
        BY DEF Tests
    <1>1. ASSUME NEW r \in TestType, NEW evs, Finish(t, r, evs),
                 test[t].kind = "throughput" => r.got = test[t].got
          PROVE  /\ test'[t].ping \in {test[t].ping, 0}
                 /\ test[t].kind = "throughput" => test'[t].got = test[t].got
        <2>1. test'[t] = [r EXCEPT !.pc = "done", !.ping = 0]
            BY <1>1, SetsTest DEF Finish
        <2> QED
            BY <1>1, <2>1 DEF TestType
    <1>2. CASE Resume(t)
        <2> DEFINE r == [test[t] EXCEPT !.pc = "sleep", !.ping = 0, !.got = test[t].got + 1]
        <2>1. test[t].kind = "latency"
            BY <1>0, <1>2 DEF Sound, Resume
        <2>2. test[t].got + 1 \in Nat
            BY <1>0 DEF TestType
        <2>3. r \in TestType /\ r.ping = 0
            BY <1>0, <2>2 DEF TestType
        <2>4. [test[t] EXCEPT !.aborted = TRUE] \in TestType
            BY <1>0 DEF TestType
        <2>5. CASE Set(t, r)
            BY <2>1, <2>3, <2>5, SetsTest
        <2>6. CASE \E evs : Finish(t, r, evs)
            BY <1>1, <2>1, <2>3, <2>6
        <2>7. CASE Finish(t, [test[t] EXCEPT !.aborted = TRUE], <<>>)
            BY <1>1, <2>1, <2>4, <2>7
        <2> QED
            BY <1>2, <2>5, <2>6, <2>7 DEF Resume, FailPing
    <1>3. CASE WakeLatency(t)
        <2>1. Finish(t, [test[t] EXCEPT !.aborted = TRUE], <<>>)
            BY <1>3 DEF WakeLatency
        <2>2. /\ [test[t] EXCEPT !.aborted = TRUE] \in TestType
              /\ [test[t] EXCEPT !.aborted = TRUE].got = test[t].got
            BY <1>0 DEF TestType
        <2> QED
            BY <1>1, <2>1, <2>2
    <1>4. CASE WakeThroughput(t)
        <2>1. Finish(t, [test[t] EXCEPT !.aborted = test[t].abort], <<>>)
            BY <1>4 DEF WakeThroughput
        <2>2. /\ [test[t] EXCEPT !.aborted = test[t].abort] \in TestType
              /\ [test[t] EXCEPT !.aborted = test[t].abort].got = test[t].got
            BY <1>0 DEF TestType
        <2> QED
            BY <1>1, <2>1, <2>2
    <1> QED
        BY <1>2, <1>3, <1>4 DEF TestStep

\* The same of any step: those of other tests leave this one alone.
LEMMA AbortedStep ==
    ASSUME Tests, [PerfNext]_allVars, NEW t \in Test, test[t].abort
    PROVE  /\ test'[t].ping \in {test[t].ping, 0}
           /\ test[t].kind = "throughput" => test'[t].got = test[t].got
    <1>1. test[t] \in TestType /\ test[t].pc # "idle"
        BY DEF Tests, Sound
    <1>2. CASE test' = test
        BY <1>2
    <1>3. ASSUME NEW u \in Test, StartLatency(u) \/ StartThroughput(u) \/ TestStep(u),
                 u # t
          PROVE  test'[t] = test[t]
        <2>1. PICK r : Set(u, r)
            BY <1>3 DEF StartLatency, StartThroughput, TestStep, Resume, WakeLatency,
                        WakeThroughput, PingRound, SendRound, Finish, FailPing
        <2> QED
            BY <1>3, <2>1, SetsTest
    <1>4. ~StartLatency(t) /\ ~StartThroughput(t)
        BY <1>1 DEF StartLatency, StartThroughput, MayStart
    <1>5. CASE AbortTest
        <2>1. active \in Test /\ test[active] \in TestType
            BY <1>5 DEF AbortTest, Tests
        <2>2. test'[t] = IF t = active THEN [test[active] EXCEPT !.abort = TRUE]
                                       ELSE test[t]
            BY <1>5, <2>1, SetsTest DEF AbortTest
        <2> QED
            BY <2>1, <2>2 DEF TestType
    <1> QED
        BY <1>2, <1>3, <1>4, <1>5, AbortedTestStep DEF PerfNext, allVars, perfVars

\* Once its abort was requested, a test sends no ping and no message more.
THEOREM AbortedTestsSendNothing == PerfSpec => AbortStopsSending
    <1>1. Tests /\ [PerfNext]_allVars =>
              [\A t \in Test :
                  test[t].abort =>
                      /\ test'[t].ping \in {test[t].ping, 0}
                      /\ test[t].kind = "throughput" => test'[t].got = test[t].got]_allVars
        BY AbortedStep
    <1> QED
        BY <1>1, TestsCorrect, PTL DEF PerfSpec, AbortStopsSending

-----------------------------------------------------------------------------
(* The connection keeps its promises under tests.                           *)

\* All that is known of a connection by itself.
Promises == /\ TypeOK /\ Lifecycle /\ Hearing /\ Stage
            /\ Counted /\ Unopened /\ Waiting /\ Served

\* Noise breaks none of it.
LEMMA NoiseKeepsPromises == Promises /\ MakesNoise => Promises'
    <1> SUFFICES ASSUME Promises, MakesNoise PROVE Promises'
        OBVIOUS
    <1> USE DEF Promises
    <1>1. /\ sess'.status = sess.status /\ sess'.buffered = sess.buffered
          /\ sess'.received = sess.received
        BY NoisySession
    <1>2. PICK evs \in Noise : OnlyMakes(evs)
        BY DEF MakesNoise
    <1>3. evs \in Seq(Event) /\ Quiet(evs) /\ Where(evs, Messages) = {} /\ EmitAll(evs)
        BY <1>2 DEF Noise, OnlyMakes
    <1>4. UNCHANGED <<room, view, seen, ws, pending, arrived,
                      deleted, forwarded, evicted, joined, primary>>
        BY <1>2 DEF OnlyMakes, connection, clients, feedVars, history
    <1>5. TypeOK' /\ Lifecycle'
        BY NoiseKeepsConnection
    <1>6. Quiet(sess'.buffered)
        BY <1>1 DEF Hearing
    <1>7. Hearing'
        BY <1>1, <1>3, <1>4, <1>6, HearingQuiet
    <1>8. Stage' /\ Counted' /\ Unopened'
        BY <1>1, <1>4 DEF Stage, Counted, Unopened
    <1>9. Waiting' /\ Served'
        BY <1>1, <1>3, <1>4, ServedQuietly
    <1> QED
        BY <1>5, <1>7, <1>8, <1>9

\* Nor does any other step.
LEMMA PromisesKept == Promises /\ [PerfNext]_allVars => Promises'
    <1>1. Promises /\ [Next]_vars => Promises'
        BY TypeStep, LifecycleStep, HearingStep, StageStep, CountedStep, UnopenedStep,
           ServedStep DEF Promises
    <1>2. Promises => TypeOK
        BY DEF Promises
    <1> QED
        BY <1>1, <1>2, NoiseKeepsPromises, TestsOnlyMakeNoise

\* The promises hold when the connection is made.
LEMMA PromisesInit == Init => Promises
    BY TypeInit, LifecycleInit, HearingInit, StageInit, CountedInit, UnopenedInit, ServedInit
    DEF Promises

\* A connection on which tests start, run, are aborted and end at any time keeps
\* the promises of one without tests: what its end leaves behind, the bookkeeping
\* of its pings, the agreement of its room with its session, the count of its
\* messages and the feed of its first browser (performance.service.ts:66-233 on
\* websocket.service.ts).
THEOREM TestsDisturbNothing ==
    PerfSpec => /\ []ClosedIsSettled /\ []DeletedNeverReconnects
                /\ []PendingPingIsRegistered /\ []CutNeedsCondition
                /\ []RoomHearsTheSession /\ []CountedOnce /\ []FirstJoinerGetsAllOnce
    <1>1. PerfInit => Promises
        BY PromisesInit DEF PerfInit
    <1>2. Promises => /\ ClosedIsSettled /\ DeletedNeverReconnects
                      /\ PendingPingIsRegistered /\ CutNeedsCondition
                      /\ RoomHearsTheSession /\ CountedOnce /\ FirstJoinerGetsAllOnce
        <2>1. Lifecycle => /\ ClosedIsSettled /\ DeletedNeverReconnects
                           /\ PendingPingIsRegistered /\ CutNeedsCondition
            BY DEF Lifecycle
        <2>2. Hearing => RoomHearsTheSession
            BY DEF Hearing
        <2>3. Counted => CountedOnce
            BY DEF Counted, CountedOnce
        <2>4. TypeOK /\ Served => FirstJoinerGetsAllOnce
            BY ServedImplies
        <2> QED
            BY <2>1, <2>2, <2>3, <2>4 DEF Promises
    <1> QED
        BY <1>1, <1>2, PromisesKept, PTL DEF PerfSpec

\* Nor do tests change what ConnectionLife promises of its status.
THEOREM LifeUnderTests == PerfSpec => RefinesLife
    <1>1. PerfInit => Life!Init /\ Promises
        BY PromisesInit DEF PerfInit, Init, GatewayInit, NewSession, Life!Init
    <1>2. Promises /\ [PerfNext]_allVars => [Life!Next]_(Life!lifeVars)
        <2> SUFFICES ASSUME Promises, [PerfNext]_allVars
                     PROVE  [Life!Next]_(Life!lifeVars)
            OBVIOUS
        <2>1. TypeOK /\ Stage
            BY DEF Promises
        <2>2. CASE [Next]_vars
            BY <2>1, <2>2, LifeStep
        <2>3. CASE MakesNoise
            <3>1. sess'.status = sess.status
                BY <2>1, <2>3, NoisySession
            <3>2. deleted' = deleted
                BY <2>3 DEF MakesNoise, OnlyMakes, connection, history
            <3> QED
                BY <3>1, <3>2 DEF Life!lifeVars
        <2> QED
            BY <2>1, <2>2, <2>3, TestsOnlyMakeNoise
    <1> QED
        BY <1>1, <1>2, PromisesKept, PTL DEF PerfSpec, RefinesLife, Life!Spec

==============================================================================
