------------------------------- MODULE Browser -------------------------------
(****************************************************************************)
(* The browser's own state beside the tabs: what it stores, and what it     *)
(* shows of its connections.  The parts share no variable but the tab that  *)
(* is shown, which any of them may switch, so a behaviour exercises one of  *)
(* them and leaves the others as they began.                                *)
(****************************************************************************)
EXTENDS Storage, Panels

VARIABLE part    \* the part this behaviour exercises

browserVars == <<storageVars, allFeedVars, panelVars, part>>

Parts == {"configurations", "workspaces", "feed", "charts", "statistics",
          "network", "performance"}

Init == StorageInit /\ FeedInit /\ PanelsInit /\ part \in Parts

\* The windows load and close whichever part of the storage is exercised.
ConfigurationPart ==
    \/ \E w \in Windows : OpenTester(w) \/ CloseWindow(w) \/ ConfigStep(w)
    \/ \E w \in Windows, t \in Tokens : OpenShared(w, t)
    \/ ShareStep

WorkspacePart ==
    \E w \in Windows : OpenTester(w) \/ CloseWindow(w) \/ WorkspaceStep(w)

SendStep ==
    \/ Send \/ \E call \in calls : SendMessage(call) \/ RefuseMessage(call)

\* The feed does not depend on latencies, on time or on the log.
FeedPart ==
    \/ SendStep \/ Receive \/ ShowReceived \/ ClearFeed \/ ClearHistory
    \/ \E c \in Conns : OnMessage(c, 0) \/ OnOther(c, "status", 0)
    \/ \E call \in calls : SendAnswered(call)
    \/ \E c \in Conns \cup {NoConn} : SwitchTab(c)

\* The charts and the log depend neither on the feed nor on the statistics.
ChartPart ==
    \/ SendStep \/ Receive \/ ClearLog \/ Tick
    \/ \E c \in Conns :
          \/ \E l \in Latencies : OnMessage(c, l) \/ OnOther(c, "pong", l)
          \/ OnOther(c, "error", 0) \/ ClearByConnection(c)

\* The statistics are asked of the server; the events do not change them.
StatisticsPart ==
    \/ SendStep \/ Poll
    \/ \E c \in Conns, l \in Latencies \cup {0} : OnMessage(c, l)
    \/ \E poll \in polls : PollAnswered(poll) \/ TotalsAnswered(poll) \/ PollFails(poll)
    \/ \E c \in Conns \cup {NoConn} : SwitchTab(c)

StoragePart ==
    \/ part = "configurations" /\ ConfigurationPart
    \/ part = "workspaces" /\ WorkspacePart

ShownPart ==
    \/ part = "feed" /\ FeedPart
    \/ part = "charts" /\ ChartPart
    \/ part = "statistics" /\ StatisticsPart

PanelPart ==
    \/ part = "network" /\ NetworkPart
    \/ part = "performance" /\ PerformancePart

Next ==
    /\ UNCHANGED part
    /\ \/ StoragePart /\ UNCHANGED <<allFeedVars, panelVars>>
       \/ ShownPart /\ UNCHANGED <<storageVars, panelVars>>
       \/ PanelPart /\ UNCHANGED storageVars

Spec == Init /\ [][Next]_browserVars
==============================================================================
