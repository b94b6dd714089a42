----------------------------- MODULE ClientTabs ------------------------------
(****************************************************************************)
(* The browser: the tabs of useConnectionStore, the handlers that change    *)
(* them (the connection form, the keyboard shortcuts, the tab bar, the      *)
(* events of the control socket), and the rooms useControlSocket joins.     *)
(*                                                                          *)
(* One action is one job of the page.  The answers of REST calls and the    *)
(* events of the control socket arrive in any order with respect to what    *)
(* the user does meanwhile.  The server itself is left out: any event may   *)
(* come for a connection while the socket is in its room, the replay that   *)
(* answers a join included (Gateway says which do).                         *)
(****************************************************************************)
EXTENDS Integers, Sequences

CONSTANTS
    MaxTabs,      \* tabs that may be open at the same time (10)
    MaxOpened,    \* bound: tabs ever opened
    MaxConns,     \* bound: connections asked for
    MaxDrops      \* bound: control-socket disconnections

ASSUME TabsAssumption ==
    /\ MaxTabs \in Nat \ {0} /\ MaxOpened \in Nat \ {0}
    /\ MaxConns \in Nat /\ MaxDrops \in Nat

VARIABLES
    tabs,             \* the tabs, in order
    activeTabId,
    activeConnection, \* kept beside the tabs
    opened,           \* tabs opened so far, the source of tab ids
    asked,            \* connections asked for so far, the source of their ids
    posts,            \* POST calls not answered yet
    closing,          \* DELETE calls not answered yet
    online,           \* the control socket is connected
    joined,           \* joinedRooms
    waiting,          \* joinNew waits for the next 'connect'
    room,             \* connections whose room the server has this socket in
    drops,            \* control-socket disconnections so far
    astray            \* history: connections stored in another tab than asked, which was there

storeVars  == <<tabs, activeTabId, activeConnection, opened>>
callVars   == <<asked, posts, closing>>
socketVars == <<online, joined, waiting, room>>
vars == <<storeVars, callVars, socketVars, drops, astray>>

Conn  == 1..MaxConns
TabId == 1..MaxOpened
Status == {"connecting", "connected", "reconnecting", "disconnected", "error"}

\* A tab's connection: its id, 0 while the POST is under way, and its status.
\* "idle" stands for null.
NoConnection == [id |-> 0, status |-> "idle"]
Connection == [id : Conn \cup {0}, status : Status] \cup {NoConnection}
Tab == [id : TabId, conn : Connection]

\* Who asked for a disconnection: the form's button, Ctrl+D, or the palette.
Origin == {"form", "shortcut", "palette"}

TypeOK ==
    /\ tabs \in Seq(Tab) /\ Len(tabs) \in 1..MaxTabs
    /\ activeTabId \in TabId
    /\ activeConnection \in Connection
    /\ opened \in 1..MaxOpened
    /\ asked \in 0..MaxConns
    /\ posts \in SUBSET [id : Conn, tab : TabId]
    /\ closing \in SUBSET [id : Conn, origin : Origin]
    /\ online \in BOOLEAN /\ waiting \in BOOLEAN
    /\ joined \in SUBSET Conn /\ room \in SUBSET Conn
    /\ drops \in 0..MaxDrops
    /\ astray \in SUBSET Conn

\* The page is loaded and its control socket is still connecting.
Init ==
    /\ tabs = <<[id |-> 1, conn |-> NoConnection]>>
    /\ activeTabId = 1 /\ activeConnection = NoConnection /\ opened = 1
    /\ asked = 0 /\ posts = {} /\ closing = {}
    /\ online = FALSE /\ joined = {} /\ waiting = TRUE /\ room = {}
    /\ drops = 0 /\ astray = {}

-----------------------------------------------------------------------------
(* Helpers *)

HasTab(ts, t) == \E i \in DOMAIN ts : ts[i].id = t

\* tabs.find(...)?.connection ?? null
ConnectionOf(ts, t) ==
    IF HasTab(ts, t) THEN ts[CHOOSE i \in DOMAIN ts : ts[i].id = t].conn
                     ELSE NoConnection

\* tabs.map: the connection of tab t becomes conn.
Put(ts, t, conn) ==
    [i \in DOMAIN ts |-> IF ts[i].id = t THEN [ts[i] EXCEPT !.conn = conn] ELSE ts[i]]

Shown(ts) == {ts[i].conn.id : i \in DOMAIN ts} \ {0}

\* joinNew for the tabs ts, with the rooms in already joined.
JoinNew(ts, in) ==
    /\ joined' = in \cup Shown(ts)
    /\ room' = room \cup Shown(ts)

WaitForConnect == ~online

\* The effect that runs when the tabs changed: rooms no tab shows are
\* forgotten (and not left), new ones are joined now or on the next 'connect'.
SyncRooms ==
    LET kept == joined \cap Shown(tabs')
    IN  /\ waiting' = WaitForConnect
        /\ \/ online /\ JoinNew(tabs', kept)
           \/ ~online /\ joined' = kept /\ UNCHANGED room
        /\ UNCHANGED online

SetConnection(conn) ==
    /\ tabs' = Put(tabs, activeTabId, conn)
    /\ activeConnection' = conn
    /\ SyncRooms

UpdateStatus(status) ==
    \/ /\ activeConnection = NoConnection
       /\ UNCHANGED <<tabs, activeConnection, socketVars>>
    \/ /\ activeConnection # NoConnection
       /\ SetConnection([activeConnection EXCEPT !.status = status])

-----------------------------------------------------------------------------
(* The tab bar and the shortcuts *)

\* Mutant: the limit is checked one tab too late.
TabsLeftLate == Len(tabs) <= MaxTabs

TabsLeft == Len(tabs) < MaxTabs

\* Mutant: the flat copy still shows the connection of the previous tab.
AddTabStale ==
    /\ TabsLeft /\ opened < MaxOpened
    /\ opened' = opened + 1
    /\ tabs' = Append(tabs, [id |-> opened + 1, conn |-> NoConnection])
    /\ activeTabId' = opened + 1
    /\ UNCHANGED activeConnection
    /\ UNCHANGED <<callVars, drops, astray>>
    /\ SyncRooms

AddTab ==
    /\ TabsLeft /\ opened < MaxOpened
    /\ opened' = opened + 1
    /\ tabs' = Append(tabs, [id |-> opened + 1, conn |-> NoConnection])
    /\ activeTabId' = opened + 1
    /\ activeConnection' = NoConnection
    /\ UNCHANGED <<callVars, drops, astray>>
    /\ SyncRooms

\* Mutant: the tab that follows the closed one is not looked up.
ActiveAfterCloseStale(ts) == activeConnection

ActiveAfterClose(ts) == ConnectionOf(ts, activeTabId')

\* The last tab stays.  filter removes one tab, ids being unique; its
\* connection is left as it is.
CloseTab(t) ==
    /\ Len(tabs) > 1
    /\ \E i \in DOMAIN tabs :
          /\ tabs[i].id = t
          /\ tabs' = SubSeq(tabs, 1, i - 1) \o SubSeq(tabs, i + 1, Len(tabs))
    /\ activeTabId' = IF activeTabId = t THEN tabs'[Len(tabs')].id ELSE activeTabId
    /\ activeConnection' = ActiveAfterClose(tabs')
    /\ UNCHANGED <<opened, callVars, drops, astray>>
    /\ SyncRooms

SetActiveTab(t) ==
    /\ HasTab(tabs, t)
    /\ activeTabId' = t
    /\ activeConnection' = ConnectionOf(tabs, t)
    /\ UNCHANGED <<tabs, opened, callVars, socketVars, drops, astray>>

-----------------------------------------------------------------------------
(* The connection form: one form for all tabs *)

\* Enter in the URL field looks at the status only, so that a second call may
\* be made from another tab while a first one is under way.
MayConnect == activeConnection.status \notin {"connecting", "connected"}

\* handleConnect up to the POST.
Connect ==
    /\ MayConnect
    /\ asked < MaxConns
    /\ asked' = asked + 1
    /\ posts' = posts \cup {[id |-> asked + 1, tab |-> activeTabId]}
    /\ UNCHANGED <<activeTabId, opened, closing, drops, astray>>
    /\ SetConnection([id |-> 0, status |-> "connecting"])

\* The URL is refused before setConnection, the auth JSON after it.
ConnectInvalid ==
    /\ MayConnect
    /\ UNCHANGED <<activeTabId, opened, callVars, drops, astray>>
    /\ \/ UpdateStatus("error")
       \/ SetConnection([id |-> 0, status |-> "error"])

\* The POST is answered: the id goes to the tab that is active by now.
ConnectAnswered(post) ==
    /\ posts' = posts \ {post}
    /\ SetConnection([id |-> post.id, status |-> "connecting"])
    /\ astray' = IF post.tab = activeTabId \/ ~HasTab(tabs, post.tab) THEN astray
                 ELSE astray \cup {post.id}
    /\ UNCHANGED <<activeTabId, opened, asked, closing, drops>>

ConnectFails(post) ==
    /\ posts' = posts \ {post}
    /\ UpdateStatus("error")
    /\ UNCHANGED <<activeTabId, opened, asked, closing, drops, astray>>

\* Disconnect, Ctrl+D and the palette call DELETE for a connected tab.
Disconnect(origin) ==
    /\ activeConnection.status = "connected" /\ activeConnection.id # 0
    /\ closing' = closing \cup {[id |-> activeConnection.id, origin |-> origin]}
    /\ UNCHANGED <<storeVars, asked, posts, socketVars, drops, astray>>

\* The answer, or the failure, of the DELETE: what follows is done to the tab
\* that is active by now.
DisconnectAnswered(call) ==
    /\ closing' = closing \ {call}
    /\ CASE call.origin = "form"     -> SetConnection(NoConnection)
         [] call.origin = "shortcut" -> UpdateStatus("disconnected")
         [] OTHER -> UNCHANGED <<tabs, activeConnection, socketVars>>
    /\ UNCHANGED <<activeTabId, opened, asked, posts, drops, astray>>

-----------------------------------------------------------------------------
(* The control socket *)

\* No tab shows the connection, or the status is not news, or it is a close
\* that would overwrite an error.
Ignored(c, status) ==
    \A i \in DOMAIN tabs : tabs[i].conn.id = c =>
        \/ tabs[i].conn.status = status
        \/ tabs[i].conn.status = "error" /\ status = "disconnected"

\* onOpen, onError, onReconnecting and onClose, through
\* updateStatusByConnectionId.
Receive(c, status) ==
    /\ online /\ c \in room
    /\ ~Ignored(c, status)
    /\ tabs' = [i \in DOMAIN tabs |->
                   IF tabs[i].conn.id = c THEN [tabs[i] EXCEPT !.conn.status = status]
                                          ELSE tabs[i]]
    /\ activeConnection' = ConnectionOf(tabs', activeTabId)
    /\ SyncRooms
    /\ UNCHANGED <<activeTabId, opened, callVars, drops, astray>>

\* Mutant: the rooms joined before the drop still count as joined.
ForgetRoomsNever == UNCHANGED joined

ForgetRooms == joined' = {}

\* 'disconnect': the server drops the rooms and what is in flight is lost.
ControlDrop ==
    /\ online /\ drops < MaxDrops
    /\ drops' = drops + 1
    /\ online' = FALSE /\ room' = {}
    /\ ForgetRooms
    /\ UNCHANGED <<storeVars, callVars, waiting, astray>>

\* 'connect': rooms are joined only if the tabs changed while it was down.
ControlConnect ==
    /\ ~online
    /\ online' = TRUE
    /\ waiting' = FALSE
    /\ \/ waiting /\ JoinNew(tabs, joined)
       \/ ~waiting /\ UNCHANGED <<joined, room>>
    /\ UNCHANGED <<storeVars, callVars, drops, astray>>

Next ==
    \/ AddTab
    \/ \E t \in TabId : CloseTab(t) \/ SetActiveTab(t)
    \/ Connect \/ ConnectInvalid
    \/ \E post \in posts : ConnectAnswered(post) \/ ConnectFails(post)
    \/ \E origin \in Origin : Disconnect(origin)
    \/ \E call \in closing : DisconnectAnswered(call)
    \/ \E c \in Conn, status \in Status \ {"connecting"} : Receive(c, status)
    \/ ControlDrop \/ ControlConnect

Spec == Init /\ [][Next]_vars

-----------------------------------------------------------------------------
(* Safety *)

\* connectionStore.ts:34: activeConnection "always equals" the connection of the
\* active tab, and the active tab exists, whatever answers and events come in
\* while the user opens, closes and switches tabs.
ActiveIsDerived ==
    /\ HasTab(tabs, activeTabId)
    /\ activeConnection = ConnectionOf(tabs, activeTabId)

\* No connection is shown by two tabs, so an event by connection id changes one
\* tab.
OneTabPerConnection ==
    \A i, j \in DOMAIN tabs :
        tabs[i].conn.id = tabs[j].conn.id /\ tabs[i].conn.id # 0 => i = j

\* joinedRooms never claims a room the server does not have the socket in:
\* otherwise the room would not be joined again when the tabs next change.
JoinedIsInRoom == joined \subseteq room

\* Until the control socket first drops, it is in the room of every tab, also of
\* the connections asked for before it was connected.
RoomsJoinedUntilDrop == online /\ drops = 0 => Shown(tabs) \subseteq room

\* The rooms agree with the tabs, whatever drops, reconnections and late answers
\* come between two changes of the tabs: none is claimed that the socket is not
\* in, and none is missing before the first drop.
RoomsAgree == JoinedIsInRoom /\ RoomsJoinedUntilDrop

-----------------------------------------------------------------------------
(* What comments and the guide say, and the code does not do *)

\* useControlSocket.ts:49: on reconnect the joined rooms are cleared "so rooms
\* are re-joined"; but the join effect runs when the tabs change, not when the
\* socket reconnects.
RoomsRejoined == online => Shown(tabs) \subseteq room

\* USER_GUIDE.md:142: several connections are open "each in its own tab"; but the
\* answer of a POST is stored in the tab that is active when it arrives, also when
\* the tab that asked is still there, and goes on showing "connecting".
EachInItsOwnTab == astray = {}

==============================================================================
