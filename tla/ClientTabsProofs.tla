--------------------------- MODULE ClientTabsProofs ---------------------------
(****************************************************************************)
(* Theorems about ClientTabs, for any number of tabs and connections.       *)
(*                                                                          *)
(* Rooms follows the join effect; Derived adds to ActiveIsDerived that tab  *)
(* ids are unique, which closing a tab relies on; Single adds to            *)
(* OneTabPerConnection that what a POST will bring is new.                  *)
(****************************************************************************)
EXTENDS ClientTabs, SequenceTheorems, TLAPS

-----------------------------------------------------------------------------
(* Type correctness *)

\* A tab list with one connection replaced is a tab list of the same tabs.
LEMMA PutType ==
    ASSUME NEW ts \in Seq(Tab), NEW t, NEW conn \in Connection
    PROVE  /\ Put(ts, t, conn) \in Seq(Tab)
           /\ Len(Put(ts, t, conn)) = Len(ts)
<1>0. ts \in [1..Len(ts) -> Tab] /\ Len(ts) \in Nat
  OBVIOUS
<1>1. \A i \in 1..Len(ts) : [ts[i] EXCEPT !.conn = conn] \in Tab
  BY <1>0 DEF Tab
<1>2. Put(ts, t, conn) \in [1..Len(ts) -> Tab]
  BY <1>0, <1>1 DEF Put
<1>3. Put(ts, t, conn) \in Seq(Tab)
  BY <1>0, <1>2, IsASeq
<1>. QED  BY <1>0, <1>2, <1>3, LenProperties

\* The connection of a tab is a connection, also when there is no such tab.
LEMMA ConnectionOfType ==
    ASSUME NEW ts \in Seq(Tab), NEW t
    PROVE  ConnectionOf(ts, t) \in Connection
<1>1. \A i \in DOMAIN ts : ts[i].conn \in Connection
  <2>1. \A i \in DOMAIN ts : ts[i] \in Tab
    BY ElementOfSeq, LenProperties
  <2>. QED  BY <2>1 DEF Tab
<1>2. CASE HasTab(ts, t)
  BY <1>1, <1>2 DEF ConnectionOf, HasTab
<1>3. CASE ~HasTab(ts, t)
  BY <1>3 DEF ConnectionOf, Connection
<1>. QED  BY <1>2, <1>3

\* The connections shown by well-typed tabs are connections.
LEMMA ShownType ==
    ASSUME NEW ts \in Seq(Tab)
    PROVE  Shown(ts) \subseteq Conn
<1>1. \A i \in DOMAIN ts : ts[i].conn \in Connection
  <2>1. \A i \in DOMAIN ts : ts[i] \in Tab
    BY ElementOfSeq, LenProperties
  <2>. QED  BY <2>1 DEF Tab
<1>2. \A conn \in Connection : conn.id \in Conn \cup {0}
  BY DEF Connection, NoConnection
<1>. QED  BY <1>1, <1>2 DEF Shown

\* The effect that runs when the tabs changed keeps the rooms' types.
LEMMA SyncType ==
    ASSUME TypeOK, tabs' \in Seq(Tab), SyncRooms
    PROVE  /\ waiting' \in BOOLEAN /\ online' \in BOOLEAN
           /\ joined' \in SUBSET Conn /\ room' \in SUBSET Conn
BY ShownType DEF TypeOK, SyncRooms, JoinNew, WaitForConnect

\* setConnection keeps the types of the store and of the rooms.
LEMMA SetConnectionType ==
    ASSUME TypeOK, NEW conn \in Connection, SetConnection(conn)
    PROVE  /\ tabs' \in Seq(Tab) /\ Len(tabs') = Len(tabs)
           /\ activeConnection' \in Connection
           /\ waiting' \in BOOLEAN /\ online' \in BOOLEAN
           /\ joined' \in SUBSET Conn /\ room' \in SUBSET Conn
<1>1. tabs' \in Seq(Tab) /\ Len(tabs') = Len(tabs)
  BY PutType DEF TypeOK, SetConnection
<1>. QED  BY <1>1, SyncType DEF SetConnection

\* So does updateStatus, with or without an active connection.
LEMMA UpdateStatusType ==
    ASSUME TypeOK, NEW status \in Status, UpdateStatus(status)
    PROVE  /\ tabs' \in Seq(Tab) /\ Len(tabs') = Len(tabs)
           /\ activeConnection' \in Connection
           /\ waiting' \in BOOLEAN /\ online' \in BOOLEAN
           /\ joined' \in SUBSET Conn /\ room' \in SUBSET Conn
<1>1. CASE activeConnection = NoConnection
  BY <1>1 DEF UpdateStatus, TypeOK, socketVars
<1>2. CASE activeConnection # NoConnection
  <2>1. [activeConnection EXCEPT !.status = status] \in Connection
    BY <1>2 DEF TypeOK, Connection, NoConnection
  <2>. QED  BY <1>2, <2>1, SetConnectionType DEF UpdateStatus
<1>. QED  BY <1>1, <1>2

\* For a position i of a sequence of n elements: arithmetic of the removal.
LEMMA RemovalIndex ==
    ASSUME NEW n \in Nat, NEW i \in 1..n
    PROVE  /\ i \in Nat /\ i + 1 \in Nat /\ i - 1 \in Nat /\ i - 1 <= n
           /\ (i - 1) + (n - i) = n - 1
           /\ n - i \in Nat
           /\ \A j \in 1..(n - 1) :
                 ~(j <= i - 1) => /\ j - (i - 1) \in 1..(n - i)
                                  /\ i + (j - (i - 1)) = j + 1
OBVIOUS

\* A tab list without its i-th tab is a tab list, shorter by one, whose tabs
\* are the others in the same order.
LEMMA RemoveTab ==
    ASSUME NEW ts \in Seq(Tab), NEW i \in 1..Len(ts)
    PROVE  LET r == SubSeq(ts, 1, i - 1) \o SubSeq(ts, i + 1, Len(ts))
           IN  /\ r \in Seq(Tab) /\ Len(r) = Len(ts) - 1
               /\ \A j \in 1..(Len(ts) - 1) :
                     r[j] = IF j <= i - 1 THEN ts[j] ELSE ts[j + 1]
<1>. DEFINE a == SubSeq(ts, 1, i - 1)
            b == SubSeq(ts, i + 1, Len(ts))
            n == Len(ts)
<1>1. n \in Nat
  BY LenProperties
<1>2. /\ a \in Seq(Tab) /\ Len(a) = i - 1
      /\ \A j \in 1..(i - 1) : a[j] = ts[j]
  BY SubSeqProperties
<1>3. /\ b \in Seq(Tab) /\ Len(b) = n - i
      /\ \A j \in 1..(n - i) : b[j] = ts[i + j]
  BY SubSeqProperties
<1>. HIDE DEF a, b, n
<1>4. i \in 1..n
  BY DEF n
<1>5. a \o b \in Seq(Tab) /\ Len(a \o b) = n - 1
  <2>1. a \o b \in Seq(Tab) /\ Len(a \o b) = Len(a) + Len(b)
    BY <1>2, <1>3, ConcatProperties
  <2>. QED  BY <1>1, <1>2, <1>3, <1>4, <2>1, RemovalIndex
<1>6. \A j \in 1..(n - 1) : (a \o b)[j] = IF j <= i - 1 THEN a[j] ELSE b[j - (i - 1)]
  BY <1>1, <1>2, <1>3, <1>4, ConcatProperties, RemovalIndex
<1>7. ASSUME NEW j \in 1..(n - 1)
      PROVE  (a \o b)[j] = IF j <= i - 1 THEN ts[j] ELSE ts[j + 1]
  <2>1. CASE j <= i - 1
    <3>1. j \in 1..(i - 1)
      BY <1>1, <1>4, <2>1
    <3>. QED  BY <1>2, <1>6, <2>1, <3>1
  <2>2. CASE ~(j <= i - 1)
    <3>1. j - (i - 1) \in 1..(n - i) /\ i + (j - (i - 1)) = j + 1
      BY <1>1, <1>4, <2>2, RemovalIndex
    <3>2. b[j - (i - 1)] = ts[j + 1]
      BY <1>3, <3>1
    <3>. QED  BY <1>6, <2>2, <3>2
  <2>. QED  BY <2>1, <2>2
<1>. QED  BY <1>5, <1>7 DEF a, b, n

\* The first state is well typed.
LEMMA TypeInit == Init => TypeOK
<1>. SUFFICES ASSUME Init PROVE TypeOK
  OBVIOUS
<1>1. 1 \in TabId /\ 1 \in 1..MaxTabs
  BY TabsAssumption DEF TabId
<1>2. NoConnection \in Connection
  BY DEF Connection
<1>3. tabs \in Seq(Tab) /\ Len(tabs) = 1
  BY <1>1, <1>2 DEF Init, Tab
<1>4. /\ 0 \in 0..MaxConns /\ 0 \in 0..MaxDrops /\ 1 \in 1..MaxOpened
  BY TabsAssumption
<1>. QED  BY <1>1, <1>2, <1>3, <1>4 DEF Init, TypeOK

\* Every job of the page keeps the types.
LEMMA TypeStep == TypeOK /\ [Next]_vars => TypeOK'
<1>. SUFFICES ASSUME TypeOK, [Next]_vars PROVE TypeOK'
  OBVIOUS
<1>. USE DEF callVars, socketVars, storeVars
<1>c. /\ NoConnection \in Connection
      /\ \A id \in Conn \cup {0}, status \in Status :
            [id |-> id, status |-> status] \in Connection
      /\ \A status \in {"connecting", "error"} : status \in Status
      /\ "disconnected" \in Status
  BY DEF Connection, Status
<1>1. CASE AddTab
  <2>1. opened + 1 \in TabId /\ opened + 1 \in 1..MaxOpened
    BY <1>1, TabsAssumption DEF AddTab, TypeOK, TabId
  <2>2. tabs' \in Seq(Tab) /\ Len(tabs') = Len(tabs) + 1
    BY <1>1, <1>c, <2>1, AppendProperties DEF AddTab, TypeOK, Tab
  <2>3. Len(tabs') \in 1..MaxTabs
    BY <1>1, <2>2, TabsAssumption DEF AddTab, TabsLeft, TypeOK
  <2>4. SyncRooms
    BY <1>1 DEF AddTab
  <2>. QED  BY <1>1, <1>c, <2>1, <2>2, <2>3, <2>4, SyncType DEF AddTab, TypeOK
<1>2. ASSUME NEW t \in TabId, CloseTab(t) PROVE TypeOK'
  <2>1. PICK i \in DOMAIN tabs :
           tabs' = SubSeq(tabs, 1, i - 1) \o SubSeq(tabs, i + 1, Len(tabs))
    BY <1>2 DEF CloseTab
  <2>2. tabs \in Seq(Tab) /\ i \in 1..Len(tabs)
    BY <2>1 DEF TypeOK
  <2>3. tabs' \in Seq(Tab) /\ Len(tabs') = Len(tabs) - 1
    BY <2>1, <2>2, RemoveTab
  <2>4. Len(tabs) \in Nat /\ Len(tabs') \in 1..MaxTabs
    <3>1. Len(tabs) \in 1..MaxTabs /\ Len(tabs) > 1
      BY <1>2 DEF CloseTab, TypeOK
    <3>. QED  BY <2>3, <3>1, TabsAssumption
  <2>5. tabs'[Len(tabs')] \in Tab
    BY <2>3, <2>4, ElementOfSeq
  <2>6. activeTabId' \in TabId
    BY <1>2, <2>5 DEF CloseTab, Tab, TypeOK
  <2>7. activeConnection' \in Connection
    BY <1>2, <2>3, ConnectionOfType DEF CloseTab, ActiveAfterClose
  <2>8. SyncRooms
    BY <1>2 DEF CloseTab
  <2>. QED  BY <1>2, <2>3, <2>4, <2>6, <2>7, <2>8, SyncType DEF CloseTab, TypeOK
<1>3. ASSUME NEW t \in TabId, SetActiveTab(t) PROVE TypeOK'
  BY <1>3, ConnectionOfType DEF SetActiveTab, TypeOK
<1>4. CASE Connect
  <2>1. asked + 1 \in Conn /\ asked + 1 \in 0..MaxConns
    BY <1>4, TabsAssumption DEF Connect, TypeOK, Conn
  <2>2. SetConnection([id |-> 0, status |-> "connecting"])
    BY <1>4 DEF Connect
  <2>. QED  BY <1>4, <1>c, <2>1, <2>2, SetConnectionType DEF Connect, TypeOK
<1>5. CASE ConnectInvalid
  <2>1. \/ UpdateStatus("error")
        \/ SetConnection([id |-> 0, status |-> "error"])
    BY <1>5 DEF ConnectInvalid
  <2>. QED  BY <1>5, <1>c, <2>1, SetConnectionType, UpdateStatusType
            DEF ConnectInvalid, TypeOK
<1>6. ASSUME NEW post \in posts, ConnectAnswered(post) PROVE TypeOK'
  <2>1. post.id \in Conn
    BY <1>6 DEF TypeOK
  <2>2. SetConnection([id |-> post.id, status |-> "connecting"])
    BY <1>6 DEF ConnectAnswered
  <2>. QED  BY <1>6, <1>c, <2>1, <2>2, SetConnectionType DEF ConnectAnswered, TypeOK
<1>7. ASSUME NEW post \in posts, ConnectFails(post) PROVE TypeOK'
  <2>1. UpdateStatus("error")
    BY <1>7 DEF ConnectFails
  <2>. QED  BY <1>7, <1>c, <2>1, UpdateStatusType DEF ConnectFails, TypeOK
<1>8. ASSUME NEW origin \in Origin, Disconnect(origin) PROVE TypeOK'
  <2>1. activeConnection.id \in Conn
    BY <1>8 DEF Disconnect, TypeOK, Connection, NoConnection
  <2>. QED  BY <1>8, <2>1 DEF Disconnect, TypeOK
<1>9. ASSUME NEW call \in closing, DisconnectAnswered(call) PROVE TypeOK'
  <2>1. CASE call.origin = "form"
    BY <1>9, <1>c, <2>1, SetConnectionType DEF DisconnectAnswered, TypeOK
  <2>2. CASE call.origin = "shortcut"
    BY <1>9, <1>c, <2>2, UpdateStatusType DEF DisconnectAnswered, TypeOK
  <2>3. CASE call.origin \notin {"form", "shortcut"}
    BY <1>9, <2>3 DEF DisconnectAnswered, TypeOK
  <2>. QED  BY <2>1, <2>2, <2>3
<1>10. ASSUME NEW c \in Conn, NEW status \in Status, Receive(c, status) PROVE TypeOK'
  <2>1. tabs \in [1..Len(tabs) -> Tab] /\ Len(tabs) \in Nat
    BY LenProperties DEF TypeOK
  <2>2. \A i \in 1..Len(tabs) :
           tabs[i].conn.id = c => [tabs[i] EXCEPT !.conn.status = status] \in Tab
    BY <2>1, TabsAssumption DEF Tab, Connection, NoConnection, Conn
  <2>3. tabs' \in [1..Len(tabs) -> Tab]
    BY <1>10, <2>1, <2>2 DEF Receive
  <2>4. tabs' \in Seq(Tab) /\ Len(tabs') = Len(tabs)
    BY <2>1, <2>3, IsASeq, LenProperties
  <2>5. activeConnection' \in Connection
    BY <1>10, <2>4, ConnectionOfType DEF Receive
  <2>6. SyncRooms
    BY <1>10 DEF Receive
  <2>. QED  BY <1>10, <2>4, <2>5, <2>6, SyncType DEF Receive, TypeOK
<1>11. CASE ControlDrop
  <2>1. drops' \in 0..MaxDrops
    BY <1>11, TabsAssumption DEF ControlDrop, TypeOK
  <2>2. /\ online' = FALSE /\ room' = {} /\ joined' = {}
        /\ UNCHANGED <<tabs, activeTabId, activeConnection, opened, asked, posts,
                       closing, waiting, astray>>
    BY <1>11 DEF ControlDrop, ForgetRooms
  <2>. QED  BY <2>1, <2>2 DEF TypeOK
<1>12. CASE ControlConnect
  BY <1>12, ShownType DEF ControlConnect, JoinNew, TypeOK
<1>13. CASE UNCHANGED vars
  BY <1>13 DEF vars, TypeOK
<1>. QED  BY <1>1, <1>2, <1>3, <1>4, <1>5, <1>6, <1>7, <1>8, <1>9, <1>10, <1>11,
             <1>12, <1>13 DEF Next

\* The store, the calls under way and the rooms are always well typed; in
\* particular there are never more than MaxTabs tabs and never none.
THEOREM TypeCorrect == Spec => []TypeOK
<1>. QED  BY TypeInit, TypeStep, PTL DEF Spec

-----------------------------------------------------------------------------
(* Rooms *)

\* What the join effect keeps up: offline the socket is in no room and claims
\* none, and until the first drop the next 'connect' is waited for; online it
\* claims only rooms it is in, and until the first drop it is in every tab's.
Rooms ==
    /\ JoinedIsInRoom
    /\ RoomsJoinedUntilDrop
    /\ ~online => joined = {} /\ room = {}
    /\ ~online /\ drops = 0 => waiting

\* The effect itself re-establishes all of it for the new tabs.
LEMMA SyncRoomsHold ==
    ASSUME Rooms, SyncRooms, UNCHANGED drops
    PROVE  Rooms'
BY DEF Rooms, JoinedIsInRoom, RoomsJoinedUntilDrop, SyncRooms, JoinNew, WaitForConnect

\* Both setConnection and updateStatus run the effect or change nothing.
LEMMA UpdateRoomsHold ==
    ASSUME Rooms, UNCHANGED drops,
           \/ \E conn : SetConnection(conn)
           \/ \E status : UpdateStatus(status)
    PROVE  Rooms'
<1>1. CASE SyncRooms
  BY <1>1, SyncRoomsHold
<1>2. CASE UNCHANGED <<tabs, activeConnection, socketVars>>
  BY <1>2 DEF Rooms, JoinedIsInRoom, RoomsJoinedUntilDrop, socketVars, Shown
<1>. QED  BY <1>1, <1>2 DEF SetConnection, UpdateStatus

\* Every job of the page keeps Rooms.
LEMMA RoomsStep == TypeOK /\ Rooms /\ [Next]_vars => Rooms'
<1>. SUFFICES ASSUME TypeOK, Rooms, [Next]_vars PROVE Rooms'
  OBVIOUS
<1>1. CASE AddTab
  BY <1>1, SyncRoomsHold DEF AddTab
<1>2. ASSUME NEW t \in TabId, CloseTab(t) PROVE Rooms'
  BY <1>2, SyncRoomsHold DEF CloseTab
<1>3. ASSUME NEW t \in TabId, SetActiveTab(t) PROVE Rooms'
  BY <1>3 DEF SetActiveTab, Rooms, JoinedIsInRoom, RoomsJoinedUntilDrop,
              socketVars, Shown
<1>4. CASE Connect
  BY <1>4, UpdateRoomsHold DEF Connect
<1>5. CASE ConnectInvalid
  BY <1>5, UpdateRoomsHold DEF ConnectInvalid
<1>6. ASSUME NEW post \in posts, ConnectAnswered(post) PROVE Rooms'
  BY <1>6, UpdateRoomsHold DEF ConnectAnswered
<1>7. ASSUME NEW post \in posts, ConnectFails(post) PROVE Rooms'
  BY <1>7, UpdateRoomsHold DEF ConnectFails
<1>8. ASSUME NEW origin \in Origin, Disconnect(origin) PROVE Rooms'
  BY <1>8 DEF Disconnect, Rooms, JoinedIsInRoom, RoomsJoinedUntilDrop,
              socketVars, storeVars, Shown
<1>9. ASSUME NEW call \in closing, DisconnectAnswered(call) PROVE Rooms'
  <2>1. UNCHANGED drops
    BY <1>9 DEF DisconnectAnswered
  <2>2. \/ SetConnection(NoConnection)
        \/ UpdateStatus("disconnected")
        \/ UNCHANGED <<tabs, activeConnection, socketVars>>
    BY <1>9 DEF DisconnectAnswered
  <2>3. CASE UNCHANGED <<tabs, activeConnection, socketVars>>
    BY <2>1, <2>3 DEF Rooms, JoinedIsInRoom, RoomsJoinedUntilDrop, socketVars, Shown
  <2>. QED  BY <2>1, <2>2, <2>3, UpdateRoomsHold
<1>10. ASSUME NEW c \in Conn, NEW status \in Status, Receive(c, status) PROVE Rooms'
  BY <1>10, SyncRoomsHold DEF Receive
<1>11. CASE ControlDrop
  <2>1. ~online' /\ joined' = {} /\ room' = {}
    BY <1>11 DEF ControlDrop, ForgetRooms
  <2>2. drops' # 0
    BY <1>11 DEF ControlDrop, TypeOK
  <2>. QED  BY <2>1, <2>2 DEF Rooms, JoinedIsInRoom, RoomsJoinedUntilDrop
<1>12. CASE ControlConnect
  <2>1. online' /\ UNCHANGED <<drops, tabs>>
    BY <1>12 DEF ControlConnect, storeVars
  <2>2. \/ waiting /\ JoinNew(tabs, joined)
        \/ ~waiting /\ UNCHANGED <<joined, room>>
    BY <1>12 DEF ControlConnect
  <2>3. ~online
    BY <1>12 DEF ControlConnect
  <2>. QED  BY <2>1, <2>2, <2>3
            DEF Rooms, JoinedIsInRoom, RoomsJoinedUntilDrop, JoinNew, Shown
<1>13. CASE UNCHANGED vars
  BY <1>13 DEF vars, Rooms, JoinedIsInRoom, RoomsJoinedUntilDrop, socketVars,
               storeVars, Shown
<1>. QED  BY <1>1, <1>2, <1>3, <1>4, <1>5, <1>6, <1>7, <1>8, <1>9, <1>10, <1>11,
             <1>12, <1>13 DEF Next

\* joinedRooms never claims a room the socket is not in, and until the control
\* socket first drops it is in the room of every connection a tab shows.
THEOREM RoomsFollowTabs == Spec => []RoomsAgree
<1>1. Init => Rooms
  BY DEF Init, Rooms, JoinedIsInRoom, RoomsJoinedUntilDrop
<1>2. Rooms => RoomsAgree
  BY DEF Rooms, RoomsAgree
<1>. QED  BY <1>1, <1>2, RoomsStep, TypeCorrect, PTL DEF Spec

-----------------------------------------------------------------------------
(* The flat copy of the active tab's connection *)

UniqueIds == \A i, j \in DOMAIN tabs : tabs[i].id = tabs[j].id => i = j

OldIds == \A i \in DOMAIN tabs : tabs[i].id <= opened

\* Closing the active tab activates the last one, which exists because ids are
\* unique; a new tab's id is new because ids count up.
Derived == UniqueIds /\ OldIds /\ ActiveIsDerived

\* Replacing a connection leaves the ids, and is what one reads back.
LEMMA PutConnection ==
    ASSUME NEW ts \in Seq(Tab), NEW t, NEW conn
    PROVE  /\ DOMAIN Put(ts, t, conn) = DOMAIN ts
           /\ \A i \in DOMAIN ts : Put(ts, t, conn)[i].id = ts[i].id
           /\ HasTab(ts, t) => /\ HasTab(Put(ts, t, conn), t)
                               /\ ConnectionOf(Put(ts, t, conn), t) = conn
<1>. DEFINE ps == Put(ts, t, conn)
<1>1. DOMAIN ps = DOMAIN ts
  BY DEF Put
<1>2. \A i \in DOMAIN ts : ts[i] \in Tab
  BY ElementOfSeq, LenProperties
<1>3. \A i \in DOMAIN ts : /\ ps[i].id = ts[i].id
                           /\ ts[i].id = t => ps[i].conn = conn
  BY <1>2 DEF Put, Tab
<1>. HIDE DEF ps
<1>4. ASSUME HasTab(ts, t) PROVE HasTab(ps, t) /\ ConnectionOf(ps, t) = conn
  <2>1. HasTab(ps, t)
    BY <1>1, <1>3, <1>4 DEF HasTab
  <2>2. PICK i \in DOMAIN ps : /\ ps[i].id = t
                               /\ ConnectionOf(ps, t) = ps[i].conn
    BY <2>1 DEF HasTab, ConnectionOf
  <2>. QED  BY <1>1, <1>3, <2>1, <2>2
<1>. QED  BY <1>1, <1>3, <1>4 DEF ps

\* setConnection writes the tab and the flat copy alike.
LEMMA SetConnectionDerived ==
    ASSUME TypeOK, Derived, NEW conn, SetConnection(conn), UNCHANGED <<activeTabId, opened>>
    PROVE  Derived'
<1>1. tabs \in Seq(Tab)
  BY DEF TypeOK
<1>2. tabs' = Put(tabs, activeTabId, conn) /\ activeConnection' = conn
  BY DEF SetConnection
<1>3. /\ DOMAIN tabs' = DOMAIN tabs
      /\ \A i \in DOMAIN tabs : tabs'[i].id = tabs[i].id
  BY <1>1, <1>2, PutConnection
<1>4. HasTab(tabs, activeTabId)
  BY DEF Derived, ActiveIsDerived
<1>5. HasTab(tabs', activeTabId) /\ ConnectionOf(tabs', activeTabId) = conn
  BY <1>1, <1>2, <1>4, PutConnection
<1>. QED  BY <1>2, <1>3, <1>5 DEF Derived, UniqueIds, OldIds, ActiveIsDerived

\* updateStatus spreads the flat copy into the active tab, which held the same.
LEMMA UpdateStatusDerived ==
    ASSUME TypeOK, Derived, NEW status, UpdateStatus(status),
           UNCHANGED <<activeTabId, opened>>
    PROVE  Derived'
<1>1. CASE UNCHANGED <<tabs, activeConnection>>
  BY <1>1 DEF Derived, UniqueIds, OldIds, ActiveIsDerived, HasTab, ConnectionOf
<1>. QED  BY <1>1, SetConnectionDerived DEF UpdateStatus

\* A new tab has a new id and no connection.
LEMMA AddTabDerived == ASSUME TypeOK, Derived, AddTab PROVE Derived'
<1>1. /\ tabs \in Seq(Tab) /\ Len(tabs) \in Nat
      /\ tabs' = Append(tabs, [id |-> opened + 1, conn |-> NoConnection])
      /\ activeTabId' = opened + 1 /\ opened' = opened + 1
      /\ activeConnection' = NoConnection
  BY DEF TypeOK, AddTab
<1>2. /\ DOMAIN tabs' = 1..(Len(tabs) + 1) /\ DOMAIN tabs = 1..Len(tabs)
      /\ \A i \in DOMAIN tabs : tabs'[i] = tabs[i]
      /\ tabs'[Len(tabs) + 1] = [id |-> opened + 1, conn |-> NoConnection]
  BY <1>1
<1>3. \A i \in DOMAIN tabs : tabs[i].id \in Nat /\ tabs[i].id <= opened
  <2>1. \A i \in DOMAIN tabs : tabs[i] \in Tab
    BY <1>1, ElementOfSeq, LenProperties
  <2>. QED  BY <2>1 DEF Tab, TabId, Derived, OldIds
<1>4. opened \in Nat
  BY DEF TypeOK
<1>5. \A i \in DOMAIN tabs' : i \in DOMAIN tabs \/ i = Len(tabs) + 1
  BY <1>1, <1>2
<1>6. \A i \in DOMAIN tabs' : tabs'[i].id = opened + 1 => i = Len(tabs) + 1
  BY <1>2, <1>3, <1>4, <1>5
<1>7. UniqueIds'
  BY <1>2, <1>5, <1>6 DEF UniqueIds, Derived
<1>8. OldIds'
  BY <1>1, <1>2, <1>3, <1>4, <1>5 DEF OldIds
<1>9. HasTab(tabs', opened + 1)
  BY <1>1, <1>2 DEF HasTab
<1>10. ConnectionOf(tabs', opened + 1) = NoConnection
  <2>1. PICK i \in DOMAIN tabs' : /\ tabs'[i].id = opened + 1
                                  /\ ConnectionOf(tabs', opened + 1) = tabs'[i].conn
    BY <1>9 DEF HasTab, ConnectionOf
  <2>. QED  BY <1>2, <1>6, <2>1
<1>. QED  BY <1>1, <1>7, <1>8, <1>9, <1>10 DEF Derived, ActiveIsDerived

\* The closed tab is gone, the others keep their order, one of them is active.
LEMMA CloseTabDerived ==
    ASSUME TypeOK, Derived, NEW t \in TabId, CloseTab(t)
    PROVE  Derived'
<1>1. PICK i \in DOMAIN tabs :
         /\ tabs[i].id = t
         /\ tabs' = SubSeq(tabs, 1, i - 1) \o SubSeq(tabs, i + 1, Len(tabs))
  BY DEF CloseTab
<1>2. /\ tabs \in Seq(Tab) /\ Len(tabs) \in Nat /\ Len(tabs) > 1
      /\ i \in 1..Len(tabs) /\ DOMAIN tabs = 1..Len(tabs)
  BY <1>1, LenProperties DEF TypeOK, CloseTab
<1>3. /\ tabs' \in Seq(Tab) /\ Len(tabs') = Len(tabs) - 1
      /\ \A j \in 1..(Len(tabs) - 1) :
            tabs'[j] = IF j <= i - 1 THEN tabs[j] ELSE tabs[j + 1]
  BY <1>1, <1>2, RemoveTab
<1>4. DOMAIN tabs' = 1..(Len(tabs) - 1)
  BY <1>3, LenProperties
<1>. DEFINE from(j) == IF j <= i - 1 THEN j ELSE j + 1
<1>5. \A j \in DOMAIN tabs' : from(j) \in DOMAIN tabs /\ tabs'[j] = tabs[from(j)]
  BY <1>2, <1>3, <1>4
<1>6. \A j, k \in DOMAIN tabs' : from(j) = from(k) => j = k
  BY <1>2, <1>4
<1>7. UNCHANGED opened
  BY DEF CloseTab
<1>8. UniqueIds' /\ OldIds'
  <2>. HIDE DEF from
  <2>. QED  BY <1>5, <1>6, <1>7 DEF UniqueIds, OldIds, Derived
<1>9. HasTab(tabs', activeTabId')
  <2>1. CASE activeTabId = t
    <3>1. activeTabId' = tabs'[Len(tabs')].id
      BY <2>1 DEF CloseTab
    <3>2. Len(tabs') \in DOMAIN tabs'
      BY <1>2, <1>3, <1>4
    <3>. QED  BY <3>1, <3>2 DEF HasTab
  <2>2. CASE activeTabId # t
    <3>1. activeTabId' = activeTabId
      BY <2>2 DEF CloseTab
    <3>2. PICK k \in DOMAIN tabs : tabs[k].id = activeTabId
      BY DEF Derived, ActiveIsDerived, HasTab
    <3>3. k # i
      BY <1>1, <2>2, <3>2
    <3>4. \E j \in DOMAIN tabs' : from(j) = k
      <4>1. CASE k <= i - 1
        BY <1>2, <1>4, <4>1
      <4>2. CASE ~(k <= i - 1)
        <5>1. k - 1 \in DOMAIN tabs' /\ from(k - 1) = k
          BY <1>2, <1>4, <3>3, <4>2
        <5>. QED  BY <5>1
      <4>. QED  BY <4>1, <4>2
    <3>. QED  BY <1>5, <3>1, <3>2, <3>4 DEF HasTab
  <2>. QED  BY <2>1, <2>2
<1>10. activeConnection' = ConnectionOf(tabs', activeTabId')
  BY DEF CloseTab, ActiveAfterClose
<1>. QED  BY <1>8, <1>9, <1>10 DEF Derived, ActiveIsDerived

\* Every job of the page keeps Derived.
LEMMA DerivedStep == TypeOK /\ Derived /\ [Next]_vars => Derived'
<1>. SUFFICES ASSUME TypeOK, Derived, [Next]_vars PROVE Derived'
  OBVIOUS
<1>0. ASSUME UNCHANGED storeVars PROVE Derived'
  BY <1>0 DEF storeVars, Derived, UniqueIds, OldIds, ActiveIsDerived, HasTab,
              ConnectionOf
<1>3. ASSUME NEW t \in TabId, SetActiveTab(t) PROVE Derived'
  BY <1>3 DEF SetActiveTab, Derived, UniqueIds, OldIds, ActiveIsDerived, HasTab,
              ConnectionOf
<1>4. CASE Connect
  BY <1>4, SetConnectionDerived DEF Connect
<1>5. CASE ConnectInvalid
  BY <1>5, SetConnectionDerived, UpdateStatusDerived DEF ConnectInvalid
<1>6. ASSUME NEW post \in posts, ConnectAnswered(post) PROVE Derived'
  BY <1>6, SetConnectionDerived DEF ConnectAnswered
<1>7. ASSUME NEW post \in posts, ConnectFails(post) PROVE Derived'
  BY <1>7, UpdateStatusDerived DEF ConnectFails
<1>8. ASSUME NEW origin \in Origin, Disconnect(origin) PROVE Derived'
  BY <1>0, <1>8 DEF Disconnect
<1>9. ASSUME NEW call \in closing, DisconnectAnswered(call) PROVE Derived'
  <2>1. UNCHANGED <<activeTabId, opened>>
    BY <1>9 DEF DisconnectAnswered
  <2>2. \/ SetConnection(NoConnection)
        \/ UpdateStatus("disconnected")
        \/ UNCHANGED <<tabs, activeConnection, socketVars>>
    BY <1>9 DEF DisconnectAnswered
  <2>. QED  BY <1>0, <2>1, <2>2, SetConnectionDerived, UpdateStatusDerived DEF storeVars
<1>10. ASSUME NEW c \in Conn, NEW status \in Status, Receive(c, status) PROVE Derived'
  <2>1. \A i \in DOMAIN tabs : tabs[i] \in Tab
    BY ElementOfSeq, LenProperties DEF TypeOK
  <2>2. /\ DOMAIN tabs' = DOMAIN tabs
        /\ \A i \in DOMAIN tabs : tabs'[i].id = tabs[i].id
    BY <1>10, <2>1 DEF Receive, Tab
  <2>3. /\ activeConnection' = ConnectionOf(tabs', activeTabId)
        /\ UNCHANGED <<activeTabId, opened>>
    BY <1>10 DEF Receive
  <2>4. HasTab(tabs', activeTabId)
    BY <2>2 DEF Derived, ActiveIsDerived, HasTab
  <2>. QED  BY <2>2, <2>3, <2>4 DEF Derived, UniqueIds, OldIds, ActiveIsDerived
<1>11. CASE ControlDrop
  BY <1>0, <1>11 DEF ControlDrop
<1>12. CASE ControlConnect
  BY <1>0, <1>12 DEF ControlConnect
<1>13. CASE UNCHANGED vars
  BY <1>0, <1>13 DEF vars
<1>. QED  BY <1>3, <1>4, <1>5, <1>6, <1>7, <1>8, <1>9, <1>10, <1>11, <1>12, <1>13,
             AddTabDerived, CloseTabDerived DEF Next

\* The active tab exists and the flat copy of its connection always equals it.
THEOREM FlatCopyIsDerived == Spec => []ActiveIsDerived
<1>1. Init => Derived
  BY DEF Init, Derived, UniqueIds, OldIds, ActiveIsDerived, HasTab, ConnectionOf
<1>2. Derived => ActiveIsDerived
  BY DEF Derived
<1>. QED  BY <1>1, <1>2, DerivedStep, TypeCorrect, PTL DEF Spec

-----------------------------------------------------------------------------
(* One tab for each connection *)

\* What is asked for is new: no tab shows the connection of a POST that is under
\* way, no two POSTs are of the same one, and connections are counted up.
Fresh ==
    /\ \A i \in DOMAIN tabs : tabs[i].conn.id <= asked
    /\ \A post \in posts : post.id <= asked
    /\ \A p, q \in posts : p.id = q.id => p = q
    /\ \A post \in posts : \A i \in DOMAIN tabs : tabs[i].conn.id # post.id

Single == OneTabPerConnection /\ Fresh

\* The connections of the tabs are well typed.
LEMMA TabConnections ==
    ASSUME TypeOK
    PROVE  /\ DOMAIN tabs = 1..Len(tabs) /\ Len(tabs) \in Nat
           /\ \A i \in DOMAIN tabs :
                 /\ tabs[i] \in Tab /\ tabs[i].conn \in Connection
                 /\ tabs[i].conn.id \in Nat
<1>1. /\ DOMAIN tabs = 1..Len(tabs) /\ Len(tabs) \in Nat
      /\ \A i \in DOMAIN tabs : tabs[i] \in Tab
  BY ElementOfSeq, LenProperties DEF TypeOK
<1>2. \A tab \in Tab : tab.conn \in Connection
  BY DEF Tab
<1>3. \A conn \in Connection : conn.id \in Nat
  BY DEF Connection, NoConnection, Conn
<1>. QED  BY <1>1, <1>2, <1>3

\* The tabs show no connection they did not show, and none twice that they did
\* not: enough for whatever leaves the calls alone or takes one away.
LEMMA FewerShown ==
    ASSUME Single, OneTabPerConnection', asked' = asked, posts' \subseteq posts,
           \A j \in DOMAIN tabs' :
              tabs'[j].conn.id = 0 \/ \E i \in DOMAIN tabs : tabs'[j].conn.id = tabs[i].conn.id,
           asked \in Nat, \A post \in posts : post.id # 0
    PROVE  Single'
<1>1. \A j \in DOMAIN tabs' : tabs'[j].conn.id <= asked'
  BY DEF Single, Fresh
<1>2. \A post \in posts' : \A j \in DOMAIN tabs' : tabs'[j].conn.id # post.id
  BY DEF Single, Fresh
<1>. QED  BY <1>1, <1>2 DEF Single, Fresh

\* setConnection writes one tab: it shows a connection no other tab shows, if
\* it wrote none, the tab's own, or one that no tab showed.
LEMMA SetConnectionShows ==
    ASSUME TypeOK, Derived, Single, NEW conn, SetConnection(conn),
           \/ conn.id = 0
           \/ conn.id = activeConnection.id
           \/ \A i \in DOMAIN tabs : tabs[i].conn.id # conn.id
    PROVE  /\ OneTabPerConnection'
           /\ \A j \in DOMAIN tabs' :
                 \/ tabs'[j].conn.id = conn.id
                 \/ \E i \in DOMAIN tabs : tabs'[j].conn.id = tabs[i].conn.id
<1>1. \A i \in DOMAIN tabs : tabs[i] \in Tab
  BY TabConnections
<1>2. PICK a \in DOMAIN tabs : /\ tabs[a].id = activeTabId
                               /\ activeConnection = tabs[a].conn
  BY DEF Derived, ActiveIsDerived, HasTab, ConnectionOf
<1>3. tabs' = Put(tabs, activeTabId, conn)
  BY DEF SetConnection
<1>4. /\ DOMAIN tabs' = DOMAIN tabs
      /\ tabs'[a].conn = conn
      /\ \A i \in DOMAIN tabs : i # a => tabs'[i].conn = tabs[i].conn
  BY <1>1, <1>2, <1>3 DEF Put, Tab, Derived, UniqueIds
<1>5. ASSUME conn.id # 0
      PROVE  \A i \in DOMAIN tabs : i # a => tabs[i].conn.id # conn.id
  BY <1>2, <1>5 DEF Single, OneTabPerConnection
<1>6. OneTabPerConnection'
  BY <1>4, <1>5 DEF Single, OneTabPerConnection
<1>. QED  BY <1>4, <1>6

\* updateStatus keeps the active tab's connection, whatever its status.
LEMMA UpdateStatusShows ==
    ASSUME TypeOK, Derived, Single, NEW status, UpdateStatus(status)
    PROVE  /\ OneTabPerConnection'
           /\ \A j \in DOMAIN tabs' :
                 \E i \in DOMAIN tabs : tabs'[j].conn.id = tabs[i].conn.id
<1>1. CASE UNCHANGED tabs
  BY <1>1 DEF Single, OneTabPerConnection
<1>2. CASE SetConnection([activeConnection EXCEPT !.status = status])
  <2>. DEFINE conn == [activeConnection EXCEPT !.status = status]
  <2>1. conn.id = activeConnection.id
    BY DEF TypeOK, Connection, NoConnection
  <2>2. \E i \in DOMAIN tabs : tabs[i].conn.id = conn.id
    BY <2>1 DEF Derived, ActiveIsDerived, HasTab, ConnectionOf
  <2>. HIDE DEF conn
  <2>3. SetConnection(conn)
    BY <1>2 DEF conn
  <2>. QED  BY <2>1, <2>2, <2>3, SetConnectionShows
<1>. QED  BY <1>1, <1>2 DEF UpdateStatus

\* Every job of the page keeps Single.
LEMMA SingleStep == TypeOK /\ Derived /\ Single /\ [Next]_vars => Single'
<1>. SUFFICES ASSUME TypeOK, Derived, Single, [Next]_vars PROVE Single'
  OBVIOUS
<1>t. /\ asked \in Nat /\ \A post \in posts : post.id \in Nat \ {0}
      /\ \A i \in DOMAIN tabs : tabs[i].conn.id \in Nat
  BY TabConnections, TabsAssumption DEF TypeOK, Conn
<1>0. ASSUME UNCHANGED <<tabs, asked, posts>> PROVE Single'
  BY <1>0 DEF Single, OneTabPerConnection, Fresh
<1>1. CASE AddTab
  <2>1. /\ UNCHANGED <<asked, posts>> /\ tabs \in Seq(Tab)
        /\ tabs' = Append(tabs, [id |-> opened + 1, conn |-> NoConnection])
    BY <1>1 DEF AddTab, callVars, TypeOK
  <2>2. \A j \in DOMAIN tabs' :
           \/ j \in DOMAIN tabs /\ tabs'[j] = tabs[j]
           \/ tabs'[j].conn.id = 0
    BY <2>1, TabConnections DEF NoConnection
  <2>3. OneTabPerConnection'
    BY <2>2 DEF OneTabPerConnection, Single
  <2>. QED  BY <1>t, <2>1, <2>2, <2>3, FewerShown
<1>2. ASSUME NEW t \in TabId, CloseTab(t) PROVE Single'
  <2>1. PICK i \in DOMAIN tabs :
           tabs' = SubSeq(tabs, 1, i - 1) \o SubSeq(tabs, i + 1, Len(tabs))
    BY <1>2 DEF CloseTab
  <2>. DEFINE from(j) == IF j <= i - 1 THEN j ELSE j + 1
  <2>2. /\ Len(tabs) \in Nat /\ DOMAIN tabs = 1..Len(tabs) /\ i \in 1..Len(tabs)
        /\ tabs \in Seq(Tab)
    BY TabConnections DEF TypeOK
  <2>3. /\ tabs' \in Seq(Tab) /\ Len(tabs') = Len(tabs) - 1
        /\ \A j \in 1..(Len(tabs) - 1) : tabs'[j] = tabs[from(j)]
    BY <2>1, <2>2, RemoveTab
  <2>4. DOMAIN tabs' = 1..(Len(tabs) - 1)
    BY <2>3, LenProperties
  <2>5. \A j \in DOMAIN tabs' : from(j) \in DOMAIN tabs /\ tabs'[j] = tabs[from(j)]
    BY <2>2, <2>3, <2>4
  <2>6. \A j, k \in DOMAIN tabs' : from(j) = from(k) => j = k
    BY <2>2, <2>4
  <2>. HIDE DEF from
  <2>7. OneTabPerConnection'
    BY <2>5, <2>6 DEF OneTabPerConnection, Single
  <2>8. \A j \in DOMAIN tabs' : \E k \in DOMAIN tabs : tabs'[j].conn.id = tabs[k].conn.id
    BY <2>5
  <2>9. UNCHANGED <<asked, posts>>
    BY <1>2 DEF CloseTab, callVars
  <2>. QED  BY <1>t, <2>7, <2>8, <2>9, FewerShown
<1>3. ASSUME NEW t \in TabId, SetActiveTab(t) PROVE Single'
  BY <1>0, <1>3 DEF SetActiveTab, callVars
<1>4. CASE Connect
  <2>1. /\ SetConnection([id |-> 0, status |-> "connecting"])
        /\ asked' = asked + 1
        /\ posts' = posts \cup {[id |-> asked + 1, tab |-> activeTabId]}
    BY <1>4 DEF Connect
  <2>2. /\ OneTabPerConnection'
        /\ \A j \in DOMAIN tabs' :
              \/ tabs'[j].conn.id = 0
              \/ \E i \in DOMAIN tabs : tabs'[j].conn.id = tabs[i].conn.id
    BY <2>1, SetConnectionShows
  <2>3. \A j \in DOMAIN tabs' :
           /\ tabs'[j].conn.id \in Nat /\ tabs'[j].conn.id <= asked
           /\ \A post \in posts : tabs'[j].conn.id # post.id
    BY <1>t, <2>2 DEF Single, Fresh
  <2>4. \A post \in posts' : post \in posts \/ post.id = asked + 1
    BY <2>1
  <2>5. \A post \in posts : post.id <= asked
    BY DEF Single, Fresh
  <2>6. \A p, q \in posts' : p.id = q.id => p = q
    <3>1. ASSUME NEW p \in posts', NEW q \in posts', p.id = q.id PROVE p = q
      <4>1. CASE p \in posts /\ q \in posts
        BY <3>1, <4>1 DEF Single, Fresh
      <4>2. CASE p \notin posts
        BY <1>t, <2>1, <2>5, <3>1, <4>2
      <4>3. CASE q \notin posts
        BY <1>t, <2>1, <2>5, <3>1, <4>3
      <4>. QED  BY <4>1, <4>2, <4>3
    <3>. QED  BY <3>1
  <2>7. \A j \in DOMAIN tabs' : tabs'[j].conn.id <= asked'
    BY <1>t, <2>1, <2>3
  <2>8. \A post \in posts' : post.id <= asked'
    BY <1>t, <2>1, <2>4, <2>5
  <2>9. \A post \in posts' : \A j \in DOMAIN tabs' : tabs'[j].conn.id # post.id
    BY <1>t, <2>3, <2>4
  <2>. QED  BY <2>2, <2>6, <2>7, <2>8, <2>9 DEF Single, Fresh
<1>5. CASE ConnectInvalid
  <2>1. UNCHANGED <<asked, posts>>
    BY <1>5 DEF ConnectInvalid, callVars
  <2>2. CASE UpdateStatus("error")
    BY <1>t, <2>1, <2>2, UpdateStatusShows, FewerShown
  <2>3. CASE SetConnection([id |-> 0, status |-> "error"])
    BY <1>t, <2>1, <2>3, SetConnectionShows, FewerShown
  <2>. QED  BY <1>5, <2>2, <2>3 DEF ConnectInvalid
<1>6. ASSUME NEW post \in posts, ConnectAnswered(post) PROVE Single'
  <2>1. /\ SetConnection([id |-> post.id, status |-> "connecting"])
        /\ posts' = posts \ {post} /\ UNCHANGED asked
    BY <1>6 DEF ConnectAnswered
  <2>2. /\ OneTabPerConnection'
        /\ \A j \in DOMAIN tabs' :
              \/ tabs'[j].conn.id = post.id
              \/ \E i \in DOMAIN tabs : tabs'[j].conn.id = tabs[i].conn.id
    BY <2>1, SetConnectionShows DEF Single, Fresh
  <2>3. \A j \in DOMAIN tabs' : tabs'[j].conn.id <= asked'
    BY <2>1, <2>2 DEF Single, Fresh
  <2>4. \A other \in posts' : other \in posts /\ other.id # post.id
    BY <2>1 DEF Single, Fresh
  <2>5. \A other \in posts' : \A j \in DOMAIN tabs' : tabs'[j].conn.id # other.id
    BY <2>2, <2>4 DEF Single, Fresh
  <2>. QED  BY <2>1, <2>2, <2>3, <2>4, <2>5 DEF Single, Fresh
<1>7. ASSUME NEW post \in posts, ConnectFails(post) PROVE Single'
  <2>1. UpdateStatus("error") /\ posts' \subseteq posts /\ UNCHANGED asked
    BY <1>7 DEF ConnectFails
  <2>. QED  BY <1>t, <2>1, UpdateStatusShows, FewerShown
<1>8. ASSUME NEW origin \in Origin, Disconnect(origin) PROVE Single'
  BY <1>0, <1>8 DEF Disconnect, storeVars
<1>9. ASSUME NEW call \in closing, DisconnectAnswered(call) PROVE Single'
  <2>1. UNCHANGED <<asked, posts>>
    BY <1>9 DEF DisconnectAnswered
  <2>2. \/ SetConnection(NoConnection)
        \/ UpdateStatus("disconnected")
        \/ UNCHANGED <<tabs, activeConnection, socketVars>>
    BY <1>9 DEF DisconnectAnswered
  <2>3. CASE SetConnection(NoConnection)
    BY <1>t, <2>1, <2>3, SetConnectionShows, FewerShown DEF NoConnection
  <2>4. CASE UpdateStatus("disconnected")
    BY <1>t, <2>1, <2>4, UpdateStatusShows, FewerShown
  <2>. QED  BY <1>0, <2>1, <2>2, <2>3, <2>4
<1>10. ASSUME NEW c \in Conn, NEW status \in Status, Receive(c, status) PROVE Single'
  <2>1. UNCHANGED <<asked, posts>>
    BY <1>10 DEF Receive, callVars
  <2>2. \A i \in DOMAIN tabs :
           [tabs[i] EXCEPT !.conn.status = status].conn.id = tabs[i].conn.id
    BY TabConnections DEF Tab, Connection, NoConnection
  <2>3. /\ DOMAIN tabs' = DOMAIN tabs
        /\ \A i \in DOMAIN tabs : tabs'[i].conn.id = tabs[i].conn.id
    BY <1>10, <2>2 DEF Receive
  <2>4. OneTabPerConnection'
    BY <2>3 DEF OneTabPerConnection, Single
  <2>. QED  BY <1>t, <2>1, <2>3, <2>4, FewerShown
<1>11. CASE ControlDrop
  BY <1>0, <1>11 DEF ControlDrop, storeVars, callVars
<1>12. CASE ControlConnect
  BY <1>0, <1>12 DEF ControlConnect, storeVars, callVars
<1>13. CASE UNCHANGED vars
  BY <1>0, <1>13 DEF vars, storeVars, callVars
<1>. QED  BY <1>1, <1>2, <1>3, <1>4, <1>5, <1>6, <1>7, <1>8, <1>9, <1>10, <1>11,
             <1>12, <1>13 DEF Next

\* No connection is ever shown by two tabs, in whatever tab the answers of the
\* POSTs are stored (connectionStore.ts:83, ConnectionForm.tsx:284).
THEOREM ConnectionsAreShownOnce == Spec => []OneTabPerConnection
<1>1. Init => Derived
  BY DEF Init, Derived, UniqueIds, OldIds, ActiveIsDerived, HasTab, ConnectionOf
<1>2. Init => Single
  BY DEF Init, Single, OneTabPerConnection, Fresh, NoConnection
<1>3. Single => OneTabPerConnection
  BY DEF Single
<1>. QED  BY <1>1, <1>2, <1>3, DerivedStep, SingleStep, TypeCorrect, PTL DEF Spec

==============================================================================
