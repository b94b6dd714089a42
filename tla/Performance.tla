----------------------------- MODULE Performance -----------------------------
(****************************************************************************)
(* PerformanceTestService on one WebSocket connection: latency tests, which *)
(* await pingAsync in a loop, and throughput tests, which call sendMessage  *)
(* on a timer.  Both run beside the connection's own jobs, so the           *)
(* connection may fail, close or be deleted between any two of their steps. *)
(*                                                                          *)
(* A test that is started runs to its first await in the same job.  The     *)
(* continuation of an await is an action of its own (Resume, Wake...).      *)
(****************************************************************************)
EXTENDS WsProxy

CONSTANTS
    MaxTests,    \* bound: tests started
    Total,       \* pings of a latency test
    MaxRounds    \* bound: sends of a throughput test, at most 60 s of them

ASSUME PerformanceAssumption ==
    /\ MaxTests \in Nat /\ Total \in Nat \ {0} /\ MaxRounds \in Nat \ {0}
    /\ MaxPings >= Total * MaxTests

VARIABLES
    active,    \* activeTests.get(id): the running test, 0 for none
    test       \* test[t]: the t-th test, its result and its control state

perfVars == <<active, test>>
allVars == <<vars, perfVars>>

Test == 1..MaxTests

\* abort is abortRequested; aborted, got (latencies or messagesSent) and errs
\* are the result; pc is "done" once completedAt is set.
TestType ==
    [kind : {"none", "latency", "throughput"},
     pc : {"idle", "await", "sleep", "done"}, ping : Ping \cup {0},
     abort : BOOLEAN, aborted : BOOLEAN, got : Nat, errs : Nat]

NewTest(kind) ==
    [kind |-> kind, pc |-> "idle", ping |-> 0,
     abort |-> FALSE, aborted |-> FALSE, got |-> 0, errs |-> 0]

PerfTypeOK ==
    /\ active \in Test \cup {0}
    /\ test \in [Test -> TestType]
    /\ \A t \in Test : test[t].got <= IF test[t].kind = "latency"
                                      THEN Total ELSE MaxRounds

PerfInit ==
    /\ Init
    /\ active = 0
    /\ test = [t \in Test |-> NewTest("none")]

\* What no step of a test changes.
connection == <<clients, ws, tracked, namedPing, condVars, feedVars, calls, history>>

Set(t, r) == test' = [test EXCEPT ![t] = r]

\* The tail of both loops: completedAt, the test is no longer active, and
\* perf:complete follows the events evs of the same job.
Finish(t, r, evs) ==
    /\ Set(t, [r EXCEPT !.pc = "done", !.ping = 0])
    /\ active' = 0
    /\ EmitAll(evs \o <<Ev("perf", t)>>)

-----------------------------------------------------------------------------
(* Latency tests *)

\* One pass of the loop: pingAsync, which throws unless the socket is open.
PingRound(t, r) ==
    \/ /\ tracked /\ ws = "open"
       /\ \E p \in Ping :
             /\ NewPing(p)
             /\ RegisterPing(p)
             /\ Set(t, [r EXCEPT !.pc = "await", !.ping = p])
       /\ active' = t
       /\ UNCHANGED inbox
    \/ /\ ~(tracked /\ ws = "open")
       /\ Finish(t, [r EXCEPT !.aborted = TRUE], <<>>)
       /\ UNCHANGED pingVars

\* Any other start is refused: 400, a test is already running.
MayStart(t) ==
    /\ active = 0
    /\ test[t].pc = "idle" /\ \A u \in 1..(t - 1) : test[u].pc # "idle"

StartLatency(t) ==
    /\ MayStart(t)
    /\ PingRound(t, NewTest("latency"))
    /\ UNCHANGED <<connection, sess, pingTs>>

\* Mutant: one ping too many.
LastSampleLate(n) == n > Total

LastSample(n) == n >= Total

\* Mutant: the loop ends on a failed ping and the result does not say so.
FailPingUnmarked(t) == Finish(t, test[t], <<>>)

FailPing(t) == Finish(t, [test[t] EXCEPT !.aborted = TRUE], <<>>)

\* The awaited promise settled: the sample is kept and the loop sleeps, or it
\* was the last one; a rejection ends the test.
Resume(t) ==
    /\ test[t].pc = "await"
    /\ LET r == [test[t] EXCEPT !.pc = "sleep", !.ping = 0, !.got = @ + 1]
           progress == <<Ev("perf", t)>>
       IN  \/ /\ promise[test[t].ping] = "resolved" /\ ~LastSample(r.got)
              /\ Set(t, r)
              /\ EmitAll(progress)
              /\ UNCHANGED active
           \/ /\ promise[test[t].ping] = "resolved" /\ LastSample(r.got)
              /\ Finish(t, r, progress)
           \/ /\ promise[test[t].ping] = "rejected"
              /\ FailPing(t)
    /\ UNCHANGED <<connection, sess, pingTs, pingVars>>

\* Mutant: only a failed ping ends the loop.
WakeLatencyUnchecked(t) ==
    /\ test[t].kind = "latency" /\ test[t].pc = "sleep"
    /\ PingRound(t, test[t])
    /\ UNCHANGED <<connection, sess, pingTs>>

\* The interval is over: the abort request is looked at, then the next ping.
WakeLatency(t) ==
    /\ test[t].kind = "latency" /\ test[t].pc = "sleep"
    /\ \/ /\ test[t].abort
          /\ Finish(t, [test[t] EXCEPT !.aborted = TRUE], <<>>)
          /\ UNCHANGED pingVars
       \/ /\ ~test[t].abort
          /\ PingRound(t, test[t])
    /\ UNCHANGED <<connection, sess, pingTs>>

-----------------------------------------------------------------------------
(* Throughput tests *)

\* One pass of the loop: sendMessage, which fails when the connection is
\* forgotten, or while connecting after the timestamp was set.
SendRound(t, r) ==
    /\ pingTs' = (pingTs \/ tracked)
    /\ active' = t
    /\ \/ /\ tracked /\ ws # "connecting"
          /\ sess' = RecordSent(sess)
          /\ Set(t, [r EXCEPT !.pc = "sleep", !.got = @ + 1])
          /\ EmitAll(<<Ev("sent", 0), Ev("perf", t)>>)
       \/ /\ ~tracked \/ ws = "connecting"
          /\ Set(t, [r EXCEPT !.pc = "sleep", !.errs = @ + 1])
          /\ UNCHANGED <<sess, inbox>>

StartThroughput(t) ==
    /\ MayStart(t)
    /\ SendRound(t, NewTest("throughput"))
    /\ UNCHANGED <<connection, pingVars>>

\* The pause is over: the test sends again, or it was aborted or its time is up.
WakeThroughput(t) ==
    /\ test[t].kind = "throughput" /\ test[t].pc = "sleep"
    /\ \/ /\ ~test[t].abort /\ test[t].got + test[t].errs < MaxRounds
          /\ SendRound(t, test[t])
       \/ /\ Finish(t, [test[t] EXCEPT !.aborted = test[t].abort], <<>>)
          /\ UNCHANGED <<sess, pingTs>>
    /\ UNCHANGED <<connection, pingVars>>

-----------------------------------------------------------------------------

\* Mutant: an aborted test is no longer active at once, while it still runs.
AbortTestAtOnce ==
    /\ active # 0
    /\ Set(active, [test[active] EXCEPT !.abort = TRUE])
    /\ active' = 0
    /\ UNCHANGED vars

\* DELETE .../perf only asks: the loop ends when it next looks.
AbortTest ==
    /\ active # 0
    /\ Set(active, [test[active] EXCEPT !.abort = TRUE])
    /\ UNCHANGED <<vars, active>>

TestStep(t) == Resume(t) \/ WakeLatency(t) \/ WakeThroughput(t)

PerfNext ==
    \/ ConnectionNext /\ UNCHANGED perfVars
    \/ \E t \in Test : StartLatency(t) \/ StartThroughput(t) \/ TestStep(t)
    \/ AbortTest

PerfSpec == PerfInit /\ [][PerfNext]_allVars

\* Timers fire and settled promises resume their await.  A throughput test
\* ends by its clock, here by MaxRounds.
PerfFairness ==
    /\ \A t \in Test : WF_allVars(TestStep(t))
    /\ \A p \in Ping : WF_allVars(PingTimeout(p) /\ UNCHANGED perfVars)

FairPerfSpec == PerfSpec /\ PerfFairness

-----------------------------------------------------------------------------
(* Properties *)

\* activeTests has exactly the test whose loop is alive: a second test cannot
\* start before an aborted one really ended, and no ended test blocks the next.
OneTestAtATime == \A t \in Test : test[t].pc \in {"await", "sleep"} <=> active = t

\* The registered ping resolver belongs to the test that awaits it, so a ping is
\* never superseded and no pong is credited to another test, not even when a
\* connection is deleted under a test, which leaves the resolver registered.
PingBelongsToTest ==
    resolver # 0 =>
        /\ active # 0
        /\ test[active].pc = "await" /\ test[active].ping = resolver

\* Two tests of a connection are kept apart, although an abort only asks the
\* first one to end and both use the connection's single ping resolver.
TestsKeptApart == OneTestAtATime /\ PingBelongsToTest

\* A result that is complete and not marked aborted is a whole latency test, or
\* a throughput test nobody asked to abort.
UnmarkedIsWhole ==
    \A t \in Test :
        test[t].pc = "done" /\ ~test[t].aborted =>
            IF test[t].kind = "latency" THEN test[t].got = Total ELSE ~test[t].abort

\* After the abort request a test sends nothing more: no new ping, no message.
AbortStopsSending ==
    [][\A t \in Test :
          test[t].abort =>
              /\ test'[t].ping \in {test[t].ping, 0}
              /\ test[t].kind = "throughput" => test'[t].got = test[t].got]_allVars

\* Every test completes, whatever happens to its connection: a lost pong, a
\* close or a DELETE does not leave it running for ever.
TestsComplete ==
    \A t \in Test : test[t].pc \in {"await", "sleep"} ~> test[t].pc = "done"

==============================================================================
