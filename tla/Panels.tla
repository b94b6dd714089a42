------------------------------- MODULE Panels --------------------------------
(****************************************************************************)
(* The two panels of the tester that act on the connection of the active    *)
(* tab: NetworkConditionsPanel, which is there while the sidebar is open,   *)
(* and PerformancePanel, which is there while its content tab is.  Each     *)
(* keeps one state for all connections and changes it when a call is        *)
(* answered or an event comes, whichever tab is shown by then; calls may    *)
(* overtake each other and fail.                                            *)
(*                                                                          *)
(* What conditions do to a connection is in WsProxy, what a test does is in *)
(* Performance.  The browser is in the rooms of its connections.            *)
(****************************************************************************)
EXTENDS Feed

CONSTANTS
    Settings,     \* values of the fields of the network form
    Unset,        \* those of DEFAULT
    NoSettings,   \* no condition
    MaxAsked,     \* bound: calls of the panels
    MaxProgress   \* bound: progress events

ASSUME PanelsAssumption ==
    /\ Unset \in Settings /\ NoSettings \notin Settings
    /\ MaxAsked \in Nat /\ MaxProgress \in Nat

VARIABLES
    conditions,  \* NetworkConditionService.conditions
    sidebar,     \* useUIStore's sidebarOpen
    form,        \* the form of the network panel
    netCalls,    \* its calls that are not answered yet
    edited,      \* history: the form was edited since the last answer
    crossed,     \* history: the last call crossed another, or one failed since
    activeTests, \* PerformanceTestService.activeTests, 0 for none
    perfWire,    \* performance events in flight, in order
    mounted,     \* the performance panel is there
    perfPanel,   \* its state
    perfCalls,   \* its calls that are not answered yet
    asked,       \* calls of the panels so far, the source of their numbers
    progressed   \* progress events so far

networkVars == <<conditions, sidebar, form, netCalls, edited, crossed>>
perfVars == <<activeTests, perfWire, mounted, perfPanel, perfCalls,
              progressed>>
panelVars == <<networkVars, perfVars, asked>>

Ask == asked < MaxAsked /\ asked' = asked + 1

------------------------------------------------------------------------------
(* Network conditions.                                                      *)

Default == [values |-> Unset, active |-> FALSE]

\* What the server answers of a condition.
Answer(condition) ==
    IF condition = NoSettings THEN Default ELSE [values |-> condition, active |-> TRUE]

\* Only a PUT has a body.
NetCall(op, c, number) ==
    [op |-> op, conn |-> c, number |-> number,
     values |-> IF op = "put" THEN form.values ELSE Unset,
     served |-> FALSE, heard |-> TRUE, answer |-> Default]

NetworkInit ==
    /\ conditions = [c \in Conns |-> NoSettings]
    /\ sidebar = TRUE
    /\ form = Default
    /\ netCalls = {NetCall("get", shownConn, 0)}
    /\ edited = FALSE /\ crossed = FALSE

AskServer(op, c) ==
    /\ Ask
    /\ netCalls' = netCalls \cup {NetCall(op, c, asked')}
    /\ crossed' = (netCalls # {})
    /\ UNCHANGED <<conditions, form, edited>>

\* What the panel does only while it is there.
Here == sidebar /\ UNCHANGED sidebar

\* Mutant: the panel asks only when it is mounted.
FollowTabNot(c) == SwitchTab(c) /\ UNCHANGED panelVars

\* Another tab is shown; the panel, if it is there, asks what holds for its
\* connection.
FollowTab(c) ==
    /\ SwitchTab(c)
    /\ \/ (c = NoConn \/ ~sidebar) /\ UNCHANGED <<networkVars, asked>>
       \/ c # NoConn /\ AskServer("get", c) /\ Here
    /\ UNCHANGED perfVars

\* The sidebar is closed: the panel goes and its form with it.  Its calls reach
\* the server all the same; nobody waits for the answers.
CloseSidebar ==
    /\ sidebar /\ sidebar' = FALSE
    /\ form' = Default /\ edited' = FALSE
    /\ netCalls' = {[call EXCEPT !.heard = FALSE] :
                       call \in {sent \in netCalls : ~sent.served /\ sent.op # "get"}}
    /\ UNCHANGED <<conditions, crossed, perfVars, asked, allFeedVars>>

\* It is opened, with a new panel that asks about the connection shown.
OpenSidebar ==
    /\ ~sidebar /\ sidebar' = TRUE
    /\ \/ shownConn = NoConn /\ UNCHANGED <<conditions, form, netCalls, edited, crossed, asked>>
       \/ shownConn # NoConn /\ AskServer("get", shownConn)
    /\ UNCHANGED <<perfVars, allFeedVars>>

\* The fields and the presets change values and never the mark.
EditForm(values) ==
    /\ values # form.values /\ Here
    /\ form' = [form EXCEPT !.values = values] /\ edited' = TRUE
    /\ UNCHANGED <<conditions, netCalls, crossed, perfVars, asked, allFeedVars>>

\* Apply and Clear.
Request(op) ==
    /\ shownConn # NoConn /\ Here
    /\ AskServer(op, shownConn)
    /\ UNCHANGED <<perfVars, allFeedVars>>

Apply == Request("put")
Clear == Request("delete")

\* The controller: a condition that is set is in force, whatever its values.
ServeNetwork(call) ==
    /\ ~call.served
    /\ conditions' = CASE call.op = "get"    -> conditions
                       [] call.op = "put"    -> [conditions EXCEPT ![call.conn] = call.values]
                       [] call.op = "delete" -> [conditions EXCEPT ![call.conn] = NoSettings]
    /\ netCalls' = (netCalls \ {call}) \cup
           {done \in {[call EXCEPT !.served = TRUE, !.answer = Answer(conditions'[call.conn])]} :
               done.heard}
    /\ UNCHANGED <<sidebar, form, edited, crossed, perfVars, asked, allFeedVars>>

NetworkAnswered(call) ==
    /\ call.served
    /\ netCalls' = netCalls \ {call}
    /\ form' = call.answer /\ edited' = FALSE
    /\ UNCHANGED <<conditions, sidebar, crossed, perfVars, asked, allFeedVars>>

\* A call fails on its way there or back; only a failed question shows.
NetworkFails(call) ==
    /\ netCalls' = netCalls \ {call}
    /\ form' = IF call.op = "get" THEN Default ELSE form
    /\ crossed' = TRUE
    /\ UNCHANGED <<conditions, sidebar, edited, perfVars, asked, allFeedVars>>

\* The connection closes, which clears its condition and tells the panel nothing.
ConditionEnds(c) ==
    /\ conditions[c] # NoSettings
    /\ conditions' = [conditions EXCEPT ![c] = NoSettings]
    /\ UNCHANGED <<sidebar, form, netCalls, edited, crossed, perfVars, asked, allFeedVars>>

NetworkPart ==
    \/ CloseSidebar \/ OpenSidebar
    \/ \E c \in Conns \cup {NoConn} : FollowTab(c)
    \/ \E v \in Settings : EditForm(v)
    \/ Apply \/ Clear
    \/ \E call \in netCalls :
          ServeNetwork(call) \/ NetworkAnswered(call) \/ NetworkFails(call)
    \/ \E c \in Conns : ConditionEnds(c)

------------------------------------------------------------------------------
(* Performance tests.                                                       *)

Idle == [running |-> FALSE, testId |-> 0, progress |-> 0, result |-> 0, error |-> FALSE]

PerfInit ==
    /\ activeTests = [c \in Conns |-> 0]
    /\ perfWire = <<>> /\ perfCalls = {} /\ progressed = 0
    /\ mounted = TRUE /\ perfPanel = Idle

\* What the server's side of a test leaves alone, and what the panel's does.
serverOnly == <<networkVars, perfPanel, mounted, asked, allFeedVars>>
panelOnly  == <<networkVars, activeTests, progressed, allFeedVars>>

PerfEvent(type, t) == perfWire' = Append(perfWire, [type |-> type, test |-> t])

\* The POST of a connection that does not exist, is no WebSocket or has a test
\* is refused.
ServeStart(call) ==
    /\ call.op = "start" /\ call.state = "asked"
    /\ \/ /\ activeTests[call.conn] = 0
          /\ activeTests' = [activeTests EXCEPT ![call.conn] = call.number]
          /\ perfCalls' = (perfCalls \ {call}) \cup {[call EXCEPT !.state = "done"]}
       \/ /\ perfCalls' = (perfCalls \ {call}) \cup {[call EXCEPT !.state = "failed"]}
          /\ UNCHANGED activeTests
    /\ UNCHANGED <<serverOnly, perfWire, progressed>>

\* The DELETE only asks: the test ends when its loop looks, in TestEnds.
ServeAbort(call) ==
    /\ call.op = "abort" /\ call.state = "asked"
    /\ perfCalls' = (perfCalls \ {call}) \cup {[call EXCEPT !.state = "done"]}
    /\ UNCHANGED <<serverOnly, activeTests, perfWire, progressed>>

TestProgresses(c) ==
    /\ activeTests[c] # 0 /\ progressed < MaxProgress
    /\ progressed' = progressed + 1
    /\ PerfEvent("progress", activeTests[c])
    /\ UNCHANGED <<serverOnly, activeTests, perfCalls>>

TestEnds(c) ==
    /\ activeTests[c] # 0
    /\ activeTests' = [activeTests EXCEPT ![c] = 0]
    /\ PerfEvent("complete", activeTests[c])
    /\ UNCHANGED <<serverOnly, perfCalls, progressed>>

\* The control channel hands the next event to the panel, whatever connection
\* and test it is of; nobody hears it while the panel is not mounted.
PerfReceive ==
    /\ perfWire # <<>>
    /\ perfWire' = Tail(perfWire)
    /\ LET ev == Head(perfWire) IN
       \/ ~mounted /\ UNCHANGED perfPanel
       \/ /\ mounted /\ ev.type = "progress"
          /\ perfPanel' = [perfPanel EXCEPT !.progress = ev.test]
       \/ /\ mounted /\ ev.type = "complete"
          /\ perfPanel' = [perfPanel EXCEPT !.running = FALSE, !.progress = 0,
                                            !.result = ev.test]
    /\ UNCHANGED <<panelOnly, mounted, perfCalls, asked>>

\* The content tab of the panel is opened or left; a call of a panel that is
\* gone still reaches the server, and its answer changes nothing.
OpenPanel ==
    /\ ~mounted /\ mounted' = TRUE
    /\ UNCHANGED <<panelOnly, perfPanel, perfWire, perfCalls, asked>>

LeavePanel ==
    /\ mounted /\ mounted' = FALSE
    /\ perfPanel' = Idle
    /\ perfCalls' = {[call EXCEPT !.heard = FALSE] : call \in perfCalls}
    /\ UNCHANGED <<panelOnly, perfWire, asked>>

PerfAsk(op) ==
    /\ mounted /\ shownConn # NoConn /\ Ask
    /\ perfCalls' = perfCalls \cup
           {[op |-> op, conn |-> shownConn, number |-> asked', state |-> "asked",
             heard |-> TRUE]}
    /\ UNCHANGED <<panelOnly, mounted, perfWire>>

\* Run is there while nothing runs, Abort while something does.
StartTest ==
    /\ ~perfPanel.running
    /\ perfPanel' = [Idle EXCEPT !.running = TRUE]
    /\ PerfAsk("start")

AbortTest == perfPanel.running /\ PerfAsk("abort") /\ UNCHANGED perfPanel

\* Mutant: the answer of a start says once more that the test runs.
ShowStartedRunning(call) ==
    perfPanel' = [perfPanel EXCEPT !.testId = call.number, !.running = TRUE]

\* The answer of a start tells the test; the test may have ended before.
ShowStarted(call) == perfPanel' = [perfPanel EXCEPT !.testId = call.number]

\* The answers; that of an abort says that nothing runs, and one that fails on
\* its way back says so of a start only.
PerfAnswered(call) ==
    /\ call.state # "asked"
    /\ perfCalls' = perfCalls \ {call}
    /\ \/ ~call.heard /\ UNCHANGED perfPanel
       \/ call.heard /\ call.op = "start" /\ call.state = "done" /\ ShowStarted(call)
       \/ /\ call.heard /\ call.op = "start"
          /\ perfPanel' = [Idle EXCEPT !.error = TRUE]
       \/ /\ call.heard /\ call.op = "abort"
          /\ perfPanel' = [perfPanel EXCEPT !.running = FALSE, !.progress = 0]
       \/ call.heard /\ call.op = "abort" /\ UNCHANGED perfPanel
    /\ UNCHANGED <<panelOnly, mounted, perfWire, asked>>

PerformancePart ==
    \/ \E c \in Conns \cup {NoConn} : SwitchTab(c) /\ UNCHANGED panelVars
    \/ \E call \in perfCalls : ServeStart(call) \/ ServeAbort(call) \/ PerfAnswered(call)
    \/ \E c \in Conns : TestProgresses(c) \/ TestEnds(c)
    \/ PerfReceive \/ OpenPanel \/ LeavePanel \/ StartTest \/ AbortTest

PanelsInit == NetworkInit /\ PerfInit /\ asked = 0

------------------------------------------------------------------------------
(* Properties.                                                              *)

\* A condition that is in force on the connection that is shown is marked as
\* active, with its values unless they are being edited, whatever was set and
\* cleared on which connection before and however often the panel was taken
\* away; but for a call that overtook another or failed, when the panel has to
\* be asked again (NetworkConditionsPanel.tsx:59-92).
InForceIsShown ==
    /\ sidebar /\ netCalls = {} /\ ~crossed /\ shownConn # NoConn
    /\ conditions[shownConn] # NoSettings
    => /\ form.active
       /\ edited \/ form.values = conditions[shownConn]

\* The panel says that a test runs only while its start is under way, a test
\* runs, or the news of a test's end is; so it never waits for nothing, in
\* whatever order the answer of the start, the events of the tests and the
\* answers of aborts come, and however often the panel is left and opened
\* (PerformancePanel.tsx:108-152).
RunningHasCause ==
    perfPanel.running =>
        \/ \E call \in perfCalls : call.heard /\ call.op = "start"
        \/ \E c \in Conns : activeTests[c] # 0
        \/ \E i \in DOMAIN perfWire : perfWire[i].type = "complete"
==============================================================================
