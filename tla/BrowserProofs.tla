---------------------------- MODULE BrowserProofs ----------------------------
(****************************************************************************)
(* Theorems about the browser, for every set of connections, windows, names *)
(* and files, every value of the form and every bound.                      *)
(*                                                                          *)
(* A behaviour of the browser is one of its storage and one of its feed, so *)
(* it has what is proved of each: of the storage below, of the feed in      *)
(* FeedProofs.  The theorems about the panels, which know which tab is      *)
(* shown, come last.                                                        *)
(*                                                                          *)
(* Asked follows the network panel's calls: there is one at most unless one *)
(* was crossed, it is about the connection that is shown, and what it was   *)
(* answered still holds.  Caused follows the performance panel: a start     *)
(* that was carried out is no reason to show a running test any more, its   *)
(* test or the news of its end is.                                          *)
(****************************************************************************)
EXTENDS Browser, FeedProofs

------------------------------------------------------------------------------
(* The storage.                                                             *)

\* list is what a window or the storage holds once m workspaces were created:
\* its ids are distinct and were all given out, and chosen is one of them.
Listing(list, chosen, m) ==
    /\ chosen \in Ids(list)
    /\ \A i, j \in DOMAIN list : list[i].id = list[j].id => i = j
    /\ \A i \in DOMAIN list : list[i].id <= m

\* The inductive invariant.  That no id is given out twice keeps a list's ids
\* distinct when a workspace is added to a copy of any age; that they are
\* distinct keeps a workspace when the active one is deleted.
Listings ==
    /\ workspaces = <<>> => active = 0
    /\ workspaces # <<>> => Listing(workspaces, active, minted)
    /\ \A w \in Windows : window[w].open =>
          Listing(window[w].workspaces, window[w].active, minted)

\* A page that shows a configuration has one.
Pages == \A w \in Windows : window[w].page.at = "shown" => window[w].page.config \in Names

Consistent == StorageTypeOK /\ Pages /\ Listings

\* A step changes what windows hold beside the workspaces.
WorkspacesKept ==
    /\ UNCHANGED workspaceVars
    /\ \A v \in Windows :
          /\ window'[v].open = window[v].open
          /\ window'[v].workspaces = window[v].workspaces
          /\ window'[v].active = window[v].active

------------------------------------------------------------------------------
(* Lists.                                                                   *)

\* Removing an element (workspaceStore.ts:108, useSavedConfigs.ts:55).
LEMMA WithoutType ==
    ASSUME NEW S, NEW list \in Seq(S), NEW id
    PROVE  Without(list, id) \in Seq(S)
    <1>1. CASE id \notin Ids(list)
        BY <1>1 DEF Without
    <1>2. CASE id \in Ids(list)
        <2> DEFINE at == CHOOSE i \in DOMAIN list : list[i].id = id
                   left == [i \in 1..Len(list)-1 |-> IF i < at THEN list[i] ELSE list[i+1]]
        <2>1. at \in 1..Len(list) /\ Len(list) - 1 \in Nat
            BY <1>2 DEF Ids
        <2>2. \A i \in 1..Len(list)-1 : left[i] \in S
            BY <2>1
        <2>3. left \in Seq(S)
            BY <2>1, <2>2
        <2> QED
            BY <1>2, <2>3 DEF Without
    <1> QED
        BY <1>1, <1>2

\* What is left when one of several workspaces goes.
LEMMA WithoutListing ==
    ASSUME NEW list \in Seq(Workspace), NEW chosen, NEW m \in Nat,
           Listing(list, chosen, m), Len(list) > 1
    PROVE  LET left == Without(list, chosen)
           IN  left \in Seq(Workspace) /\ Len(left) >= 1 /\ Listing(left, left[1].id, m)
    <1> DEFINE at == CHOOSE i \in DOMAIN list : list[i].id = chosen
               left == [i \in 1..Len(list)-1 |-> IF i < at THEN list[i] ELSE list[i+1]]
    <1>1. chosen \in Ids(list) /\ Without(list, chosen) = left
        BY DEF Listing, Without
    <1>2. left \in Seq(Workspace)
        BY <1>1, WithoutType
    <1>3. at \in 1..Len(list) /\ Len(list) - 1 \in Nat /\ DOMAIN list = 1..Len(list)
        BY <1>1 DEF Ids
    <1>4. Len(left) = Len(list) - 1 /\ DOMAIN left = 1..Len(list)-1
        BY <1>2, <1>3
    <1> HIDE DEF at
    <1>5. \A i \in DOMAIN left :
              /\ i < at => left[i] = list[i] /\ i \in DOMAIN list
              /\ ~(i < at) => left[i] = list[i+1] /\ i + 1 \in DOMAIN list
        BY <1>3, <1>4
    <1> HIDE DEF left
    <1>6. \A i, j \in DOMAIN left : left[i].id = left[j].id => i = j
        <2> SUFFICES ASSUME NEW i \in 1..Len(list)-1, NEW j \in 1..Len(list)-1,
                            left[i].id = left[j].id
                     PROVE  i = j
            BY <1>4
        <2> DEFINE k == IF i < at THEN i ELSE i + 1
                   l == IF j < at THEN j ELSE j + 1
        <2>1. k \in DOMAIN list /\ left[i] = list[k] /\ l \in DOMAIN list /\ left[j] = list[l]
            BY <1>4, <1>5
        <2>2. k = l
            <3> HIDE DEF k, l
            <3> QED
                BY <2>1 DEF Listing
        <2> QED
            BY <1>3, <2>2
    <1>7. \A i \in DOMAIN left : left[i].id <= m
        BY <1>5 DEF Listing
    <1>8. left[1].id \in Ids(left)
        BY <1>3, <1>4 DEF Ids
    <1> QED
        BY <1>1, <1>2, <1>4, <1>6, <1>7, <1>8 DEF Listing

\* A new workspace at the end becomes the active one (workspaceStore.ts:91).
LEMMA AppendListing ==
    ASSUME NEW list \in Seq(Workspace), NEW m \in Nat, NEW new \in Workspace,
           new.id = m + 1, \A i \in DOMAIN list : list[i].id <= m,
           \A i, j \in DOMAIN list : list[i].id = list[j].id => i = j
    PROVE  /\ Append(list, new) \in Seq(Workspace) /\ Append(list, new) # <<>>
           /\ Listing(Append(list, new), m + 1, m + 1)
    <1> DEFINE longer == Append(list, new)
    <1>1. longer \in Seq(Workspace) /\ Len(longer) = Len(list) + 1
              /\ DOMAIN longer = 1..Len(list)+1 /\ Len(list) \in Nat
              /\ DOMAIN list = 1..Len(list)
        OBVIOUS
    <1>2. longer[Len(list)+1] = new /\ \A i \in 1..Len(list) : longer[i] = list[i]
        OBVIOUS
    <1> HIDE DEF longer
    <1>3. \A i \in 1..Len(list) : list[i].id \in Nat /\ list[i].id <= m
        <2> SUFFICES ASSUME NEW i \in 1..Len(list)
                     PROVE  list[i].id \in Nat /\ list[i].id <= m
            OBVIOUS
        <2>1. list[i] \in Workspace
            BY ElementOfSeq
        <2>2. list[i].id \in Nat
            BY <2>1, StorageAssumption DEF Workspace, Id
        <2>3. i \in DOMAIN list
            BY <1>1
        <2> QED
            BY <2>2, <2>3
    <1>4. \A i, j \in DOMAIN longer : longer[i].id = longer[j].id => i = j
        <2> SUFFICES ASSUME NEW i \in 1..Len(list)+1, NEW j \in 1..Len(list)+1,
                            longer[i].id = longer[j].id
                     PROVE  i = j
            BY <1>1
        <2>1. CASE i <= Len(list) /\ j <= Len(list)
            BY <1>1, <1>2, <2>1
        <2>2. CASE i = Len(list) + 1 /\ j <= Len(list)
            BY <1>1, <1>2, <1>3, <2>2
        <2>3. CASE j = Len(list) + 1 /\ i <= Len(list)
            BY <1>1, <1>2, <1>3, <2>3
        <2> QED
            BY <1>1, <2>1, <2>2, <2>3
    <1>5. \A i \in DOMAIN longer : longer[i].id <= m + 1
        BY <1>1, <1>2, <1>3
    <1>6. m + 1 \in Ids(longer)
        BY <1>1, <1>2 DEF Ids
    <1>7. longer # <<>>
        BY <1>1
    <1> QED
        BY <1>1, <1>4, <1>5, <1>6, <1>7 DEF Listing, longer

\* Rewriting elements under their ids (workspaceStore.ts:137-178).
LEMMA EditListing ==
    ASSUME NEW list \in Seq(Workspace), NEW chosen, NEW m, Listing(list, chosen, m),
           NEW changed \in [DOMAIN list -> Workspace],
           \A i \in DOMAIN list : changed[i].id = list[i].id
    PROVE  changed \in Seq(Workspace) /\ changed # <<>> /\ Listing(changed, chosen, m)
    <1>1. changed \in Seq(Workspace) /\ DOMAIN changed = DOMAIN list
        OBVIOUS
    <1>2. \E i \in DOMAIN list : list[i].id = chosen
        BY DEF Listing, Ids
    <1>3. changed # <<>>
        BY <1>1, <1>2
    <1>4. chosen \in Ids(changed)
        BY <1>1, <1>2 DEF Ids
    <1> QED
        BY <1>1, <1>3, <1>4 DEF Listing

------------------------------------------------------------------------------
(* Windows.                                                                 *)

\* At first nothing is stored and no window is open.
LEMMA ConsistentInit == StorageInit => Consistent
    <1> SUFFICES ASSUME StorageInit PROVE Consistent
        OBVIOUS
    <1>1. Tester \in Page /\ Tester.at = "tester"
        BY DEF Tester, Page
    <1>2. Closed \in Window /\ ~Closed.open /\ Closed.page = Tester
        BY <1>1, EmptySeq DEF Closed, Window
    <1>3. StorageTypeOK
        BY <1>2, StorageAssumption, EmptySeq
        DEF StorageInit, StorageTypeOK, EnvVars, EnvVar, NoVar
    <1> QED
        BY <1>1, <1>2, <1>3, StorageAssumption
        DEF StorageInit, Consistent, Pages, Listings

\* Whatever a step does to the configurations, the workspaces stay in order.
LEMMA WorkspacesInOrder ==
    ASSUME Consistent, WorkspacesKept
    PROVE  Listings'
    BY DEF Consistent, WorkspacesKept, Listings, Listing, Ids, workspaceVars

\* A window's page changes, and nothing else.
LEMMA PageTurns ==
    ASSUME Consistent, NEW w \in Windows, NEW page \in Page,
           page.at = "shown" => page.config \in Names,
           window' = [window EXCEPT ![w].page = page],
           UNCHANGED <<configVars, workspaceVars, shares>>
    PROVE  Consistent'
    <1> USE DEF configVars, workspaceVars
    <1>1. window' \in [Windows -> Window]
        BY DEF Consistent, StorageTypeOK, Window
    <1>2. \A v \in Windows :
              /\ window'[v].open = window[v].open
              /\ window'[v].configs = window[v].configs
              /\ window'[v].workspaces = window[v].workspaces
              /\ window'[v].active = window[v].active
              /\ window'[v].page = IF v = w THEN page ELSE window[v].page
        BY DEF Consistent, StorageTypeOK, Window
    <1>3. StorageTypeOK'
        BY <1>1 DEF Consistent, StorageTypeOK
    <1>4. Pages'
        BY <1>2 DEF Consistent, Pages
    <1>5. WorkspacesKept
        BY <1>2 DEF WorkspacesKept
    <1> QED
        BY <1>3, <1>4, <1>5, WorkspacesInOrder DEF Consistent

\* A window stores its configurations, and its page changes with them.
LEMMA ConfigsStored ==
    ASSUME Consistent, NEW w \in Windows, NEW list \in Seq(Config), NEW page \in Page,
           page.at = "shown" => page.config \in Names,
           StoreConfigs(w, list, page), saved' \in 0..MaxSaved,
           removed' \subseteq 1..MaxSaved, contested' \subseteq 1..MaxSaved,
           UNCHANGED <<workspaceVars, shares>>
    PROVE  Consistent'
    <1> USE DEF workspaceVars, StoreConfigs
    <1>0. window \in [Windows -> Window]
        BY DEF Consistent, StorageTypeOK
    <1>1. window' \in [Windows -> Window]
        BY <1>0 DEF Window
    <1>2. \A v \in Windows :
              /\ window'[v].open = window[v].open
              /\ window'[v].configs = IF v = w THEN list ELSE window[v].configs
              /\ window'[v].workspaces = window[v].workspaces
              /\ window'[v].active = window[v].active
              /\ window'[v].page = IF v = w THEN page ELSE window[v].page
        BY <1>0 DEF Window
    <1>3. StorageTypeOK'
        BY <1>1 DEF Consistent, StorageTypeOK
    <1>4. Pages'
        BY <1>2 DEF Consistent, Pages
    <1>5. WorkspacesKept
        BY <1>2 DEF WorkspacesKept
    <1> QED
        BY <1>3, <1>4, <1>5, WorkspacesInOrder DEF Consistent

\* Saving a configuration, or being at the limit.
LEMMA ConfigSaved ==
    ASSUME Consistent, NEW w \in Windows, NEW name \in Names, NEW page \in Page,
           page.at = "shown" => page.config \in Names,
           SaveConfig(w, name, page), UNCHANGED <<workspaceVars, shares>>
    PROVE  Consistent'
    <1>1. CASE window' = [window EXCEPT ![w].page = page] /\ UNCHANGED configVars
        BY <1>1, PageTurns
    <1>2. CASE /\ saved < MaxSaved /\ saved' = saved + 1
               /\ StoreConfigs(w, Append(window[w].configs, [id |-> saved', name |-> name]), page)
               /\ Changed(w, saved') /\ UNCHANGED removed
        <2>1. saved' \in 1..MaxSaved /\ saved' \in 0..MaxSaved
            BY <1>2, StorageAssumption DEF Consistent, StorageTypeOK
        <2>5. removed' \subseteq 1..MaxSaved /\ contested' \subseteq 1..MaxSaved
            BY <1>2, <2>1 DEF Consistent, StorageTypeOK, Changed
        <2>2. [id |-> saved', name |-> name] \in Config
            BY <2>1 DEF Config
        <2>3. window[w].configs \in Seq(Config)
            BY DEF Consistent, StorageTypeOK, Window
        <2>4. Append(window[w].configs, [id |-> saved', name |-> name]) \in Seq(Config)
            BY <2>2, <2>3, AppendProperties
        <2> QED
            BY <1>2, <2>1, <2>4, <2>5, ConfigsStored
    <1> QED
        BY <1>1, <1>2 DEF SaveConfig

\* The steps on configurations and shares.
LEMMA ConfigsConsistent ==
    ASSUME Consistent, ShareStep \/ \E w \in Windows : ConfigStep(w)
    PROVE  Consistent'
    <1>t. Tester \in Page /\ Tester.at = "tester"
        BY DEF Tester, Page
    <1>w. \A w \in Windows : window[w] \in Window /\ window[w].page \in Page
        BY DEF Consistent, StorageTypeOK, Window
    <1>1. ASSUME NEW w \in Windows, NEW name \in Names, SaveForm(w, name) PROVE Consistent'
        BY <1>t, <1>1, ConfigSaved DEF SaveForm
    <1>2. ASSUME NEW w \in Windows, NEW id, DeleteConfig(w, id) PROVE Consistent'
        <2>1. Without(window[w].configs, id) \in Seq(Config)
            BY <1>w, WithoutType DEF Window
        <2>2. saved' \in 0..MaxSaved
            BY <1>2 DEF DeleteConfig, Consistent, StorageTypeOK
        <2>3. id \in 1..MaxSaved
            <3>1. \A i \in DOMAIN window[w].configs : window[w].configs[i] \in Config
                BY <1>w DEF Window
            <3> QED
                BY <1>2, <3>1 DEF DeleteConfig, Ids, Config
        <2>4. removed' \subseteq 1..MaxSaved /\ contested' \subseteq 1..MaxSaved
            BY <1>2, <2>3 DEF DeleteConfig, Changed, Consistent, StorageTypeOK
        <2> QED
            BY <1>t, <1>2, <2>1, <2>2, <2>4, ConfigsStored DEF DeleteConfig
    <1>3. ASSUME NEW t \in Tokens, NEW name \in Names \cup {"expired"},
                 shares' = [shares EXCEPT ![t] = name],
                 UNCHANGED <<configVars, workspaceVars, window>>
          PROVE  Consistent'
        <2> USE DEF configVars, workspaceVars
        <2>1. StorageTypeOK'
            BY <1>3 DEF Consistent, StorageTypeOK
        <2>2. Pages' /\ WorkspacesKept
            BY <1>3 DEF Consistent, Pages, WorkspacesKept
        <2> QED
            BY <2>1, <2>2, WorkspacesInOrder DEF Consistent
    <1>4. ASSUME NEW w \in Windows, SharedAnswered(w) PROVE Consistent'
        <2> DEFINE page == SharedPage(window[w].page)
        <2>1. page \in Page /\ (page.at = "shown" => page.config \in Names)
            BY <1>w DEF SharedPage, Page
        <2>2. window' = [window EXCEPT ![w].page = page]
            BY <1>4 DEF SharedAnswered
        <2> HIDE DEF page
        <2> QED
            BY <1>4, <2>1, <2>2, PageTurns DEF SharedAnswered
    <1>5. ASSUME NEW w \in Windows, ImportShared(w) PROVE Consistent'
        <2> DEFINE page == [window[w].page EXCEPT !.at = "imported"]
        <2>1. page \in Page /\ page.at = "imported"
            BY <1>w DEF Page
        <2>2. window[w].page.config \in Names
            BY <1>5 DEF ImportShared, Consistent, Pages
        <2>3. SaveConfig(w, window[w].page.config, page)
            BY <1>5 DEF ImportShared
        <2> HIDE DEF page
        <2> QED
            BY <1>5, <2>1, <2>2, <2>3, ConfigSaved DEF ImportShared
    <1>6. ASSUME NEW w \in Windows, BackToTester(w) PROVE Consistent'
        BY <1>t, <1>6, PageTurns DEF BackToTester
    <1> QED
        BY <1>1, <1>2, <1>3, <1>4, <1>5, <1>6
        DEF ShareStep, ConfigStep, CreateShare, ExpireShare

------------------------------------------------------------------------------
(* Windows are loaded and closed.                                           *)

\* A window is loaded with the stored workspaces, or with one of its own.
LEMMA Loading ==
    ASSUME Consistent, NEW w \in Windows, NEW page \in Page, page.at # "shown",
           Load(w, page)
    PROVE  Consistent'
    <1> USE DEF configVars
    <1>0. /\ configs \in Seq(Config) /\ workspaces \in Seq(Workspace)
          /\ active \in Id \cup {0} /\ minted \in 0..MaxMinted
          /\ window \in [Windows -> Window]
        BY DEF Consistent, StorageTypeOK
    <1>1. \E list \in Seq(Workspace), chosen \in Id :
              /\ window' = [window EXCEPT ![w] = Loaded(page, list, chosen)]
              /\ Listing(list, chosen, minted')
              /\ minted' \in 0..MaxMinted /\ minted' >= minted
              /\ workspaces # <<>> => list = workspaces /\ chosen = active
        <2>1. CASE LoadStored(w, page)
            <3>1. Listing(workspaces, active, minted)
                BY <2>1 DEF LoadStored, Consistent, Listings
            <3>2. active \in Id
                <4>1. \A i \in DOMAIN workspaces : workspaces[i] \in Workspace
                    BY <1>0
                <4> QED
                    BY <3>1, <4>1 DEF Listing, Ids, Workspace
            <3>3. active # 0
                BY <3>2, StorageAssumption DEF Id
            <3>4. /\ window' = [window EXCEPT ![w] = Loaded(page, workspaces, active)]
                  /\ minted' = minted
                BY <2>1, <3>3 DEF LoadStored
            <3> USE <1>0, <3>2
            <3> WITNESS workspaces \in Seq(Workspace), active \in Id
            <3> QED
                BY <1>0, <3>1, <3>4, StorageAssumption
        <2>2. CASE LoadDefault(w, page)
            <3> DEFINE fresh == [id |-> minted', envVars |-> NoVars]
            <3>1. minted' = minted + 1 /\ minted' \in Id
                BY <1>0, <2>2, StorageAssumption DEF LoadDefault, Mint, Id
            <3>2. NoVars \in EnvVars
                BY DEF NoVars, EnvVars, EnvVar
            <3>3. fresh \in Workspace /\ fresh.id = minted'
                BY <3>1, <3>2 DEF Workspace
            <3> HIDE DEF fresh
            <3>4. <<fresh>> \in Seq(Workspace) /\ <<fresh>>[1] = fresh
                      /\ DOMAIN <<fresh>> = {1}
                BY <3>3
            <3>5. Listing(<<fresh>>, minted', minted')
                BY <1>0, <3>1, <3>3, <3>4, StorageAssumption DEF Listing, Ids, Id
            <3>6. window' = [window EXCEPT ![w] = Loaded(page, <<fresh>>, minted')]
                BY <2>2, <3>3 DEF LoadDefault, fresh
            <3>7. workspaces = <<>> /\ minted' \in 0..MaxMinted /\ minted' >= minted
                BY <1>0, <2>2, <3>1, StorageAssumption DEF LoadDefault, Id
            <3> USE <3>1, <3>4
            <3> WITNESS <<fresh>> \in Seq(Workspace), minted' \in Id
            <3> QED
                BY <3>5, <3>6, <3>7
        <2> QED
            BY <2>1, <2>2 DEF Load
    <1>2. PICK list \in Seq(Workspace), chosen \in Id :
              /\ window' = [window EXCEPT ![w] = Loaded(page, list, chosen)]
              /\ Listing(list, chosen, minted')
              /\ minted' \in 0..MaxMinted /\ minted' >= minted
              /\ workspaces # <<>> => list = workspaces /\ chosen = active
        BY <1>1
    <1>3. Loaded(page, list, chosen) \in Window
        BY <1>0 DEF Loaded, Window
    <1>4. /\ window' \in [Windows -> Window] /\ window'[w] = Loaded(page, list, chosen)
          /\ \A v \in Windows \ {w} : window'[v] = window[v]
        BY <1>0, <1>2, <1>3
    <1>5. UNCHANGED <<configVars, workspaces, active, files, shares>>
        BY DEF Load
    <1>6. StorageTypeOK'
        BY <1>2, <1>4, <1>5 DEF Consistent, StorageTypeOK
    <1>7. Pages'
        BY <1>4 DEF Consistent, Pages, Loaded
    <1>8. Listings'
        <2>1. ASSUME NEW l, NEW c, Listing(l, c, minted), l \in Seq(Workspace)
              PROVE  Listing(l, c, minted')
            <3>1. \A i \in DOMAIN l : l[i].id \in Nat
                <4>1. \A i \in DOMAIN l : l[i] \in Workspace
                    BY <2>1
                <4> QED
                    BY <4>1, StorageAssumption DEF Workspace, Id
            <3> QED
                BY <1>0, <1>2, <2>1, <3>1, StorageAssumption DEF Listing
        <2>2. \A v \in Windows : window[v].workspaces \in Seq(Workspace)
            BY <1>0 DEF Window
        <2> QED
            BY <1>0, <1>2, <1>4, <1>5, <2>1, <2>2 DEF Consistent, Listings, Loaded
    <1> QED
        BY <1>6, <1>7, <1>8 DEF Consistent

\* A window is closed.
LEMMA Closing ==
    ASSUME Consistent, NEW w \in Windows, CloseWindow(w)
    PROVE  Consistent'
    <1>1. Tester \in Page /\ Tester.at = "tester"
        BY DEF Tester, Page
    <1>2. Closed \in Window /\ ~Closed.open /\ Closed.page = Tester
        BY <1>1, EmptySeq DEF Closed, Window
    <1>3. /\ window' \in [Windows -> Window] /\ window'[w] = Closed
          /\ \A v \in Windows \ {w} : window'[v] = window[v]
        BY <1>2 DEF CloseWindow, Consistent, StorageTypeOK
    <1>4. StorageTypeOK' /\ Pages'
        BY <1>1, <1>2, <1>3
        DEF CloseWindow, configVars, workspaceVars, Consistent, StorageTypeOK, Pages
    <1>5. Listings'
        BY <1>2, <1>3
        DEF CloseWindow, configVars, workspaceVars, Consistent, Listings, Listing, Ids
    <1> QED
        BY <1>4, <1>5 DEF Consistent

------------------------------------------------------------------------------
(* Workspaces.                                                              *)

\* A window persists a list that is in order.
LEMMA Persisting ==
    ASSUME Consistent, NEW w \in Windows, NEW list \in Seq(Workspace), NEW chosen \in Id,
           list # <<>>, Listing(list, chosen, minted'),
           minted' \in 0..MaxMinted, minted' >= minted,
           Persist(w, list, chosen), UNCHANGED <<configVars, files, shares>>
    PROVE  Consistent'
    <1> USE DEF Persist, configVars
    <1>0. window \in [Windows -> Window] /\ minted \in 0..MaxMinted
        BY DEF Consistent, StorageTypeOK
    <1>1. window' \in [Windows -> Window]
        BY <1>0 DEF Window
    <1>2. \A v \in Windows :
              /\ window'[v].open = window[v].open
              /\ window'[v].configs = window[v].configs
              /\ window'[v].workspaces = IF v = w THEN list ELSE window[v].workspaces
              /\ window'[v].active = IF v = w THEN chosen ELSE window[v].active
              /\ window'[v].page = window[v].page
        BY <1>0 DEF Window
    <1>3. StorageTypeOK'
        BY <1>1 DEF Consistent, StorageTypeOK
    <1>4. Pages'
        BY <1>2 DEF Consistent, Pages
    <1>5. Listings'
        <2>1. ASSUME NEW v \in Windows \ {w}, window[v].open
              PROVE  Listing(window[v].workspaces, window[v].active, minted')
            <3>1. Listing(window[v].workspaces, window[v].active, minted)
                BY <2>1 DEF Consistent, Listings
            <3>2. \A i \in DOMAIN window[v].workspaces : window[v].workspaces[i] \in Workspace
                BY <1>0 DEF Window
            <3>3. \A i \in DOMAIN window[v].workspaces : window[v].workspaces[i].id \in Nat
                BY <3>2, StorageAssumption DEF Workspace, Id
            <3> QED
                BY <1>0, <3>1, <3>3, StorageAssumption DEF Listing
        <2>2. ASSUME NEW v \in Windows, window'[v].open
              PROVE  Listing(window'[v].workspaces, window'[v].active, minted')
            <3>1. CASE v = w
                BY <1>2, <3>1
            <3>2. CASE v # w
                BY <1>2, <2>1, <2>2, <3>2
            <3> QED
                BY <3>1, <3>2
        <2>3. /\ workspaces' # <<>>
              /\ Listing(workspaces', active', minted')
            OBVIOUS
        <2> HIDE DEF Persist
        <2> QED
            BY <2>2, <2>3 DEF Listings
    <1> QED
        BY <1>3, <1>4, <1>5 DEF Consistent

\* The workspaces of the window that takes a step are in order.
LEMMA TheWindow ==
    ASSUME Consistent, NEW w \in Windows, AtTester(w)
    PROVE  /\ window[w].workspaces \in Seq(Workspace)
           /\ Listing(window[w].workspaces, window[w].active, minted)
           /\ window[w].active \in Id /\ minted \in 0..MaxMinted
           /\ ActiveWorkspace(w) \in Workspace
    <1> DEFINE list == window[w].workspaces
    <1>1. list \in Seq(Workspace) /\ minted \in 0..MaxMinted
        BY DEF Consistent, StorageTypeOK, Window
    <1>2. Listing(list, window[w].active, minted)
        BY DEF AtTester, Consistent, Listings
    <1>3. \A i \in DOMAIN list : list[i] \in Workspace
        BY <1>1
    <1>4. window[w].active \in Id
        BY <1>2, <1>3 DEF Listing, Ids, Workspace
    <1>5. \E i \in DOMAIN list : list[i].id = window[w].active
        BY <1>2 DEF Listing, Ids
    <1>6. ActiveWorkspace(w) \in Workspace
        BY <1>3, <1>5 DEF ActiveWorkspace
    <1> QED
        BY <1>1, <1>2, <1>4, <1>6

\* A workspace is created or imported.
LEMMA Adding ==
    ASSUME Consistent, NEW w \in Windows, NEW envVars \in EnvVars, AddWorkspace(w, envVars)
    PROVE  Consistent'
    <1> DEFINE list == window[w].workspaces
               new == [id |-> minted', envVars |-> envVars]
    <1>1. list \in Seq(Workspace) /\ Listing(list, window[w].active, minted)
              /\ minted \in 0..MaxMinted
        BY TheWindow DEF AddWorkspace
    <1>2. minted' = minted + 1 /\ minted' \in Id /\ minted' \in 0..MaxMinted
              /\ minted' >= minted /\ minted \in Nat
        BY <1>1, StorageAssumption DEF AddWorkspace, Mint, Id
    <1>3. new \in Workspace /\ new.id = minted + 1
        BY <1>2 DEF Workspace
    <1>4. Persist(w, Append(list, new), minted')
        BY DEF AddWorkspace
    <1> HIDE DEF list, new
    <1>5. /\ Append(list, new) \in Seq(Workspace) /\ Append(list, new) # <<>>
          /\ Listing(Append(list, new), minted', minted')
        BY <1>1, <1>2, <1>3, AppendListing DEF Listing
    <1> QED
        BY <1>2, <1>4, <1>5, Persisting DEF AddWorkspace

\* A variable of the active workspace is added, changed or removed.
LEMMA Editing ==
    ASSUME Consistent, NEW w \in Windows, NEW key \in Keys, NEW var \in EnvVar,
           Edit(w, key, var)
    PROVE  Consistent'
    <1> DEFINE list == window[w].workspaces
               changed == [i \in DOMAIN list |->
                             IF list[i].id = window[w].active
                             THEN [list[i] EXCEPT !.envVars[key] = var]
                             ELSE list[i]]
    <1>1. list \in Seq(Workspace) /\ Listing(list, window[w].active, minted)
              /\ minted \in 0..MaxMinted /\ window[w].active \in Id
        BY TheWindow DEF Edit
    <1>2. \A i \in DOMAIN list : list[i] \in Workspace
        BY <1>1
    <1>3. \A i \in DOMAIN list : changed[i] \in Workspace /\ changed[i].id = list[i].id
        BY <1>2 DEF Workspace, EnvVars
    <1>4. changed \in [DOMAIN list -> Workspace]
        BY <1>3
    <1>5. Persist(w, changed, window[w].active) /\ UNCHANGED <<configVars, files, shares, minted>>
        BY DEF Edit
    <1> HIDE DEF list, changed
    <1>6. /\ changed \in Seq(Workspace) /\ changed # <<>>
          /\ Listing(changed, window[w].active, minted)
        BY <1>1, <1>3, <1>4, EditListing
    <1> QED
        BY <1>1, <1>5, <1>6, StorageAssumption, Persisting

\* The steps on workspaces.
LEMMA WorkspacesConsistent ==
    ASSUME Consistent, NEW w \in Windows, WorkspaceStep(w)
    PROVE  Consistent'
    <1>n. NoVar \in EnvVar /\ NoVars \in EnvVars
        BY DEF NoVar, NoVars, EnvVar, EnvVars
    <1>f. files \subseteq EnvVars
        BY DEF Consistent, StorageTypeOK
    <1>1. CASE CreateWorkspace(w)
        BY <1>n, <1>1, Adding DEF CreateWorkspace
    <1>2. CASE \E f \in files : ImportWorkspace(w, f)
        BY <1>f, <1>2, Adding DEF ImportWorkspace
    <1>3. CASE DeleteWorkspace(w)
        <2> DEFINE list == window[w].workspaces
                   left == Without(list, window[w].active)
        <2>1. list \in Seq(Workspace) /\ Listing(list, window[w].active, minted)
                  /\ minted \in 0..MaxMinted /\ minted \in Nat
            BY <1>3, StorageAssumption, TheWindow DEF DeleteWorkspace
        <2>2. left \in Seq(Workspace) /\ Len(left) >= 1 /\ Listing(left, left[1].id, minted)
            BY <1>3, <2>1, WithoutListing DEF DeleteWorkspace
        <2>3. Persist(w, left, left[1].id) /\ UNCHANGED <<configVars, files, shares, minted>>
            BY <1>3 DEF DeleteWorkspace
        <2> HIDE DEF left
        <2>4. left[1] \in Workspace /\ left # <<>>
            BY <2>2
        <2>5. left[1].id \in Id
            BY <2>4 DEF Workspace
        <2> QED
            BY <2>1, <2>2, <2>3, <2>4, <2>5, Persisting
    <1>4. CASE \E id \in Ids(window[w].workspaces) : SetActiveWorkspace(w, id)
        <2> DEFINE list == window[w].workspaces
        <2>1. PICK id \in Ids(list) : SetActiveWorkspace(w, id)
            BY <1>4
        <2>2. list \in Seq(Workspace) /\ Listing(list, window[w].active, minted)
                  /\ minted \in 0..MaxMinted /\ minted \in Nat
            BY <2>1, StorageAssumption, TheWindow DEF SetActiveWorkspace
        <2>3. Listing(list, id, minted)
            BY <2>1, <2>2 DEF Listing
        <2>4. PICK i \in DOMAIN list : list[i].id = id
            BY <2>1 DEF Ids
        <2>5. list[i] \in Workspace /\ list # <<>>
            BY <2>2
        <2>6. id \in Id
            BY <2>4, <2>5 DEF Workspace
        <2> QED
            BY <2>1, <2>2, <2>3, <2>5, <2>6, Persisting DEF SetActiveWorkspace
    <1>5. CASE \E k \in Keys, v \in Values : AddEnvVar(w, k, v)
        <2>1. \A v \in Values : [value |-> v, isSecret |-> FALSE] \in EnvVar
            BY DEF EnvVar
        <2> QED
            BY <1>5, <2>1, Editing DEF AddEnvVar
    <1>6. CASE \E k \in Keys, v \in Values : UpdateEnvVar(w, k, v)
        <2>1. PICK k \in Keys, v \in Values : UpdateEnvVar(w, k, v)
            BY <1>6
        <2>2. ActiveWorkspace(w).envVars[k] \in EnvVar /\ ActiveWorkspace(w).envVars[k] # NoVar
            BY <2>1, TheWindow DEF UpdateEnvVar, Shows, Workspace, EnvVars
        <2>3. [ActiveWorkspace(w).envVars[k] EXCEPT !.value = v] \in EnvVar
            BY <2>2 DEF EnvVar
        <2> QED
            BY <2>1, <2>3, Editing DEF UpdateEnvVar
    <1>7. CASE \E k \in Keys : RemoveEnvVar(w, k)
        BY <1>n, <1>7, Editing DEF RemoveEnvVar
    <1>8. CASE ExportWorkspace(w)
        <2>1. \A k \in Keys : ActiveWorkspace(w).envVars[k] \in EnvVar
            BY <1>8, TheWindow DEF ExportWorkspace, Workspace, EnvVars
        <2>2. files' \subseteq EnvVars
            BY <1>n, <1>f, <1>8, <2>1 DEF ExportWorkspace, EnvVars
        <2>3. UNCHANGED <<configVars, workspaces, active, minted, window, shares>>
            BY <1>8 DEF ExportWorkspace
        <2> QED
            BY <2>2, <2>3
            DEF configVars, Consistent, StorageTypeOK, Pages, Listings, Listing, Ids
    <1> QED
        BY <1>1, <1>2, <1>3, <1>4, <1>5, <1>6, <1>7, <1>8 DEF WorkspaceStep

------------------------------------------------------------------------------
(* Theorems.                                                                *)

\* Every step of every window and of the shares keeps the invariant.
LEMMA ConsistentStep == Consistent /\ [StorageNext]_storageVars => Consistent'
    <1> SUFFICES ASSUME Consistent, [StorageNext]_storageVars PROVE Consistent'
        OBVIOUS
    <1>1. CASE \E w \in Windows : OpenTester(w)
        <2>1. Tester \in Page /\ Tester.at # "shown"
            BY DEF Tester, Page
        <2> QED
            BY <1>1, <2>1, Loading DEF OpenTester
    <1>2. CASE \E w \in Windows, t \in Tokens : OpenShared(w, t)
        <2>1. \A t \in Tokens :
                  LET page == [at |-> "loading", token |-> t, config |-> NoValue]
                  IN  page \in Page /\ page.at # "shown"
            BY DEF Page
        <2> QED
            BY <1>2, <2>1, Loading DEF OpenShared
    <1>3. CASE \E w \in Windows : CloseWindow(w)
        BY <1>3, Closing
    <1>4. CASE ShareStep \/ \E w \in Windows : ConfigStep(w)
        BY <1>4, ConfigsConsistent
    <1>5. CASE \E w \in Windows : WorkspaceStep(w)
        BY <1>5, WorkspacesConsistent
    <1>6. CASE UNCHANGED storageVars
        BY <1>6
        DEF storageVars, configVars, workspaceVars, Consistent, StorageTypeOK, Pages,
            Listings, Listing, Ids
    <1> QED
        BY <1>1, <1>2, <1>3, <1>4, <1>5, <1>6 DEF StorageNext

\* The invariant holds at all times.
LEMMA ConsistentAlways == StorageSpec => []Consistent
    BY ConsistentInit, ConsistentStep, PTL DEF StorageSpec

\* The active workspace exists in every window and in the storage, however many
\* windows write it from copies of whatever age (workspaceStore.ts:55-119).
THEOREM ActiveWorkspaceExists == StorageSpec => []ActiveExists
    <1>1. Consistent => ActiveExists
        <2> SUFFICES ASSUME Consistent PROVE ActiveExists
            OBVIOUS
        <2>1. ASSUME workspaces # <<>> PROVE active # 0 /\ active \in Ids(workspaces)
            <3>1. active \in Ids(workspaces)
                BY <2>1 DEF Consistent, Listings, Listing
            <3>2. \A i \in DOMAIN workspaces : workspaces[i] \in Workspace
                BY DEF Consistent, StorageTypeOK
            <3>3. active \in Id
                BY <3>1, <3>2 DEF Ids, Workspace
            <3> QED
                BY <3>1, <3>3, StorageAssumption DEF Id
        <2> QED
            BY <2>1 DEF Consistent, Listings, Listing, ActiveExists
    <1> QED
        BY <1>1, ConsistentAlways, PTL


------------------------------------------------------------------------------
(* Saved configurations.                                                    *)

\* list has what was saved and not deleted, of the configurations that are not
\* disputed, and no id twice.
Agrees(list, last, gone, disputed) ==
    /\ \A i, j \in DOMAIN list : list[i].id = list[j].id => i = j
    /\ Ids(list) \subseteq 1..last
    /\ \A id \in (1..last) \ disputed : id \in Ids(list) <=> id \notin gone

\* The inductive invariant: not only the storage agrees, but every copy of it
\* that may be written back.
Remembered ==
    /\ removed \subseteq 1..saved
    /\ Agrees(configs, saved, removed, contested)
    /\ \A w \in Windows :
          window[w].open => Agrees(window[w].configs, saved, removed, contested)

\* What a new element at the end adds, its id being a new one.
LEMMA AppendIds ==
    ASSUME NEW S, NEW list \in Seq(S), NEW new \in S, new.id \notin Ids(list),
           \A i, j \in DOMAIN list : list[i].id = list[j].id => i = j
    PROVE  LET longer == Append(list, new)
           IN  /\ Ids(longer) = Ids(list) \cup {new.id}
               /\ \A i, j \in DOMAIN longer : longer[i].id = longer[j].id => i = j
    <1> DEFINE longer == Append(list, new)
    <1>1. /\ DOMAIN longer = 1..Len(list)+1 /\ DOMAIN list = 1..Len(list) /\ Len(list) \in Nat
          /\ longer[Len(list)+1] = new /\ \A i \in 1..Len(list) : longer[i] = list[i]
        OBVIOUS
    <1> HIDE DEF longer
    <1>2. DOMAIN longer = DOMAIN list \cup {Len(list) + 1}
        BY <1>1
    <1>3. Ids(longer) = Ids(list) \cup {new.id}
        <2>1. ASSUME NEW id PROVE id \in Ids(longer) <=> id \in Ids(list) \cup {new.id}
            BY <1>1, <1>2 DEF Ids
        <2> QED
            BY <2>1
    <1>4. \A i \in DOMAIN list : longer[i].id \in Ids(list)
        BY <1>1 DEF Ids
    <1>5. \A i, j \in DOMAIN longer : longer[i].id = longer[j].id => i = j
        BY <1>1, <1>2, <1>4
    <1> QED
        BY <1>3, <1>5 DEF longer

\* What is left of the ids when an element goes.
LEMMA WithoutIds ==
    ASSUME NEW S, NEW list \in Seq(S), NEW id \in Ids(list),
           \A i, j \in DOMAIN list : list[i].id = list[j].id => i = j
    PROVE  LET left == Without(list, id)
           IN  /\ Ids(left) = Ids(list) \ {id}
               /\ \A i, j \in DOMAIN left : left[i].id = left[j].id => i = j
    <1> DEFINE at == CHOOSE i \in DOMAIN list : list[i].id = id
               left == [i \in 1..Len(list)-1 |-> IF i < at THEN list[i] ELSE list[i+1]]
    <1>1. Without(list, id) = left
        BY DEF Without
    <1>2. at \in 1..Len(list) /\ Len(list) \in Nat /\ DOMAIN list = 1..Len(list)
              /\ list[at].id = id
        BY DEF Ids
    <1> HIDE DEF at
    <1>3. DOMAIN left = 1..Len(list)-1
              /\ \A i \in 1..Len(list)-1 :
                    left[i] = list[IF i < at THEN i ELSE i + 1]
        OBVIOUS
    <1> HIDE DEF left
    <1>4. \A i, j \in DOMAIN left : left[i].id = left[j].id => i = j
        <2> SUFFICES ASSUME NEW i \in 1..Len(list)-1, NEW j \in 1..Len(list)-1,
                            left[i].id = left[j].id
                     PROVE  i = j
            BY <1>3
        <2> DEFINE k == IF i < at THEN i ELSE i + 1
                   l == IF j < at THEN j ELSE j + 1
        <2>1. k \in DOMAIN list /\ l \in DOMAIN list
            BY <1>2
        <2>2. list[k].id = list[l].id
            BY <1>3
        <2>3. k = l
            <3> HIDE DEF k, l
            <3> QED
                BY <2>1, <2>2
        <2> QED
            BY <1>2, <2>3
    <1>5. ASSUME NEW x \in Ids(left) PROVE x \in Ids(list) \ {id}
        <2>1. PICK i \in 1..Len(list)-1 : left[i].id = x
            BY <1>3 DEF Ids
        <2> DEFINE k == IF i < at THEN i ELSE i + 1
        <2>2. k \in DOMAIN list /\ k # at
            BY <1>2
        <2>3. list[k].id = x
            BY <1>3, <2>1
        <2> HIDE DEF k
        <2> QED
            BY <1>2, <2>2, <2>3 DEF Ids
    <1>6. ASSUME NEW x \in Ids(list) \ {id} PROVE x \in Ids(left)
        <2>1. PICK k \in 1..Len(list) : list[k].id = x
            BY <1>2 DEF Ids
        <2>2. k # at
            BY <1>2, <2>1
        <2> DEFINE i == IF k < at THEN k ELSE k - 1
        <2>3. i \in 1..Len(list)-1 /\ (IF i < at THEN i ELSE i + 1) = k
            BY <1>2, <2>2
        <2>4. left[i].id = x
            <3> HIDE DEF i
            <3> QED
                BY <1>3, <2>1, <2>3
        <2> HIDE DEF i
        <2> QED
            BY <1>3, <2>3, <2>4 DEF Ids
    <1> QED
        BY <1>1, <1>4, <1>5, <1>6

\* A change is made in a copy, and is disputed or not.
LEMMA SavedAgrees ==
    ASSUME NEW list \in Seq(Config), NEW last \in Nat, NEW gone \in SUBSET (1..last),
           NEW disputed, Agrees(list, last, gone, disputed),
           NEW new \in Config, new.id = last + 1,
           NEW after, disputed \subseteq after
    PROVE  Agrees(Append(list, new), last + 1, gone, after)
    <1>1. last + 1 \notin Ids(list)
        BY DEF Agrees
    <1>2. /\ Ids(Append(list, new)) = Ids(list) \cup {last + 1}
          /\ \A i, j \in DOMAIN Append(list, new) :
                Append(list, new)[i].id = Append(list, new)[j].id => i = j
        BY <1>1, AppendIds DEF Agrees
    <1>3. 1..(last + 1) = (1..last) \cup {last + 1}
        OBVIOUS
    <1>4. last + 1 \notin gone
        OBVIOUS
    <1> QED
        BY <1>2, <1>3, <1>4 DEF Agrees

LEMMA DeletedAgrees ==
    ASSUME NEW list \in Seq(Config), NEW last, NEW gone, NEW disputed,
           Agrees(list, last, gone, disputed), NEW id \in Ids(list),
           NEW after, disputed \subseteq after
    PROVE  Agrees(Without(list, id), last, gone \cup {id}, after)
    <1>1. /\ Ids(Without(list, id)) = Ids(list) \ {id}
          /\ \A i, j \in DOMAIN Without(list, id) :
                Without(list, id)[i].id = Without(list, id)[j].id => i = j
        BY WithoutIds DEF Agrees
    <1> QED
        BY <1>1 DEF Agrees

\* A change another window made, in a copy that does not have it.
LEMMA UnseenSaveAgrees ==
    ASSUME NEW list, NEW last \in Nat, NEW gone, NEW disputed,
           Agrees(list, last, gone, disputed)
    PROVE  Agrees(list, last + 1, gone, disputed \cup {last + 1})
    <1>1. 1..(last + 1) = (1..last) \cup {last + 1}
        OBVIOUS
    <1> QED
        BY <1>1 DEF Agrees

LEMMA UnseenDeleteAgrees ==
    ASSUME NEW list, NEW last, NEW gone, NEW disputed, NEW id,
           Agrees(list, last, gone, disputed)
    PROVE  Agrees(list, last, gone \cup {id}, disputed \cup {id})
    BY DEF Agrees

\* A step that changes no configuration: a window's copy stays, or is read.
LEMMA RememberedKept ==
    ASSUME Remembered, UNCHANGED configVars,
           \A v \in Windows : window'[v].open =>
               \/ window[v].open /\ window'[v].configs = window[v].configs
               \/ window'[v].configs = configs
    PROVE  Remembered'
    <1>1. removed' = removed /\ configs' = configs /\ saved' = saved /\ contested' = contested
        BY DEF configVars
    <1>2. ASSUME NEW v \in Windows, window'[v].open
          PROVE  Agrees(window'[v].configs, saved, removed, contested)
        <2>1. CASE window[v].open /\ window'[v].configs = window[v].configs
            BY <2>1 DEF Remembered
        <2>2. CASE window'[v].configs = configs
            BY <2>2 DEF Remembered
        <2> QED
            BY <1>2, <2>1, <2>2
    <1> QED
        BY <1>1, <1>2 DEF Remembered

\* A window's page changes, beside the workspaces.
LEMMA RememberedTurn ==
    ASSUME Consistent, Remembered, NEW w \in Windows, NEW page,
           window' = [window EXCEPT ![w].page = page], UNCHANGED configVars
    PROVE  Remembered'
    <1>1. \A v \in Windows : /\ window'[v].open = window[v].open
                             /\ window'[v].configs = window[v].configs
        BY DEF Consistent, StorageTypeOK, Window
    <1> QED
        BY <1>1, RememberedKept

\* The window that stores a list, and the others.
LEMMA RememberedStore ==
    ASSUME Consistent, Remembered, NEW w \in Windows, NEW list, NEW page,
           StoreConfigs(w, list, page), removed' \subseteq 1..saved',
           Agrees(list, saved', removed', contested'),
           \A v \in Windows \ {w} : window[v].open =>
               Agrees(window[v].configs, saved', removed', contested')
    PROVE  Remembered'
    <1>1. /\ configs' = list
          /\ \A v \in Windows :
                /\ window'[v].open = window[v].open
                /\ window'[v].configs = IF v = w THEN list ELSE window[v].configs
        BY DEF StoreConfigs, Consistent, StorageTypeOK, Window
    <1>2. ASSUME NEW v \in Windows, window'[v].open
          PROVE  Agrees(window'[v].configs, saved', removed', contested')
        BY <1>1, <1>2
    <1> QED
        BY <1>1, <1>2 DEF Remembered

\* Saving, or being at the limit.
LEMMA RememberedSave ==
    ASSUME Consistent, Remembered, NEW w \in Windows, window[w].open,
           NEW name \in Names, NEW page, SaveConfig(w, name, page)
    PROVE  Remembered'
    <1> DEFINE list == window[w].configs
               new == [id |-> saved + 1, name |-> name]
    <1>1. CASE window' = [window EXCEPT ![w].page = page] /\ UNCHANGED configVars
        BY <1>1, RememberedTurn
    <1>2. CASE /\ saved < MaxSaved /\ saved' = saved + 1
               /\ StoreConfigs(w, Append(list, [id |-> saved', name |-> name]), page)
               /\ Changed(w, saved') /\ UNCHANGED removed
        <2>1. list \in Seq(Config) /\ saved \in Nat /\ removed \in SUBSET (1..saved)
            BY StorageAssumption DEF Consistent, StorageTypeOK, Window, Remembered
        <2>2. new \in Config /\ new.id = saved + 1
            BY <1>2, <2>1, StorageAssumption DEF Config
        <2>3. Agrees(list, saved, removed, contested)
            BY DEF Remembered
        <2>4. StoreConfigs(w, Append(list, new), page)
            BY <1>2
        <2>5. contested' = contested \cup {saved + 1} \/ (contested' = contested /\ Alone(w))
            BY <1>2 DEF Changed
        <2> HIDE DEF list, new
        <2>6. Agrees(Append(list, new), saved', removed', contested')
            BY <1>2, <2>1, <2>2, <2>3, <2>5, SavedAgrees
        <2>7. ASSUME NEW v \in Windows \ {w}, window[v].open
              PROVE  Agrees(window[v].configs, saved', removed', contested')
            <3>1. contested' = contested \cup {saved + 1}
                BY <2>5, <2>7 DEF Alone
            <3>2. Agrees(window[v].configs, saved, removed, contested)
                BY <2>7 DEF Remembered
            <3> QED
                BY <1>2, <2>1, <3>1, <3>2, UnseenSaveAgrees
        <2>8. removed' \subseteq 1..saved'
            BY <1>2, <2>1
        <2> QED
            BY <2>4, <2>6, <2>7, <2>8, RememberedStore
    <1> QED
        BY <1>1, <1>2 DEF SaveConfig

\* Deleting.
LEMMA RememberedDelete ==
    ASSUME Consistent, Remembered, NEW w \in Windows, NEW id, DeleteConfig(w, id)
    PROVE  Remembered'
    <1> DEFINE list == window[w].configs
    <1>1. /\ list \in Seq(Config) /\ id \in Ids(list) /\ window[w].open
          /\ saved' = saved /\ removed' = removed \cup {id}
          /\ StoreConfigs(w, Without(list, id), Tester)
        BY DEF DeleteConfig, AtTester, Consistent, StorageTypeOK, Window
    <1>2. Agrees(list, saved, removed, contested)
        BY <1>1 DEF Remembered
    <1>3. contested' = contested \cup {id} \/ (contested' = contested /\ Alone(w))
        BY DEF DeleteConfig, Changed
    <1> HIDE DEF list
    <1>4. Agrees(Without(list, id), saved', removed', contested')
        BY <1>1, <1>2, <1>3, DeletedAgrees
    <1>5. ASSUME NEW v \in Windows \ {w}, window[v].open
          PROVE  Agrees(window[v].configs, saved', removed', contested')
        <2>1. contested' = contested \cup {id}
            BY <1>3, <1>5 DEF Alone
        <2>2. Agrees(window[v].configs, saved, removed, contested)
            BY <1>5 DEF Remembered
        <2> QED
            BY <1>1, <2>1, <2>2, UnseenDeleteAgrees
    <1>6. removed' \subseteq 1..saved'
        BY <1>1, <1>2 DEF Agrees, Remembered
    <1> QED
        BY <1>1, <1>4, <1>5, <1>6, RememberedStore

\* Every step keeps what was saved.
LEMMA RememberedStep ==
    Consistent /\ Remembered /\ [StorageNext]_storageVars => Remembered'
    <1> SUFFICES ASSUME Consistent, Remembered, [StorageNext]_storageVars
                 PROVE  Remembered'
        OBVIOUS
    <1>0. window \in [Windows -> Window]
        BY DEF Consistent, StorageTypeOK
    <1>1. ASSUME NEW w \in Windows, NEW page, Load(w, page)
          PROVE  Remembered'
        <2>1. /\ UNCHANGED configVars /\ window'[w].configs = configs
              /\ \A v \in Windows \ {w} : window'[v] = window[v]
            BY <1>0, <1>1 DEF Load, LoadStored, LoadDefault, Loaded
        <2> QED
            BY <2>1, RememberedKept
    <1>2. ASSUME NEW w \in Windows, CloseWindow(w)
          PROVE  Remembered'
        <2>1. /\ UNCHANGED configVars /\ ~window'[w].open
              /\ \A v \in Windows \ {w} : window'[v] = window[v]
            BY <1>0, <1>2 DEF CloseWindow, Closed
        <2> QED
            BY <2>1, RememberedKept
    <1>3. ASSUME NEW w \in Windows, ConfigStep(w)
          PROVE  Remembered'
        BY <1>3, RememberedSave, RememberedDelete DEF ConfigStep, SaveForm, AtTester
    <1>4. CASE ShareStep
        <2>1. ASSUME UNCHANGED <<configVars, window>> PROVE Remembered'
            BY <2>1, RememberedKept
        <2>2. ASSUME NEW w \in Windows, ImportShared(w) PROVE Remembered'
            <3>1. window[w].page.config \in Names
                BY <2>2 DEF ImportShared, Consistent, Pages
            <3>2. SaveConfig(w, window[w].page.config, [window[w].page EXCEPT !.at = "imported"])
                BY <2>2 DEF ImportShared
            <3>3. window[w].open
                BY <2>2 DEF ImportShared
            <3> QED
                BY <3>1, <3>2, <3>3, RememberedSave
        <2>3. ASSUME NEW w \in Windows, SharedAnswered(w) \/ BackToTester(w)
              PROVE  Remembered'
            BY <2>3, RememberedTurn DEF SharedAnswered, BackToTester
        <2> QED
            BY <1>4, <2>1, <2>2, <2>3 DEF ShareStep, CreateShare, ExpireShare
    <1>5. ASSUME NEW w \in Windows, WorkspaceStep(w)
          PROVE  Remembered'
        <2>1. ASSUME UNCHANGED configVars, NEW list, NEW chosen, Persist(w, list, chosen)
              PROVE  Remembered'
            <3>1. \A v \in Windows : /\ window'[v].open = window[v].open
                                     /\ window'[v].configs = window[v].configs
                BY <1>0, <2>1 DEF Persist, Window
            <3> QED
                BY <2>1, <3>1, RememberedKept
        <2>2. ASSUME NEW envVars, AddWorkspace(w, envVars) PROVE Remembered'
            BY <2>1, <2>2 DEF AddWorkspace
        <2>3. ASSUME NEW key, NEW var, Edit(w, key, var) PROVE Remembered'
            BY <2>1, <2>3 DEF Edit
        <2>4. CASE DeleteWorkspace(w)
            BY <2>1, <2>4 DEF DeleteWorkspace
        <2>5. CASE \E id \in Ids(window[w].workspaces) : SetActiveWorkspace(w, id)
            BY <2>1, <2>5 DEF SetActiveWorkspace
        <2>6. CASE ExportWorkspace(w)
            BY <2>6, RememberedKept DEF ExportWorkspace
        <2> QED
            BY <1>5, <2>2, <2>3, <2>4, <2>5, <2>6
            DEF WorkspaceStep, CreateWorkspace, ImportWorkspace, AddEnvVar, UpdateEnvVar,
                RemoveEnvVar
    <1>6. CASE UNCHANGED storageVars
        BY <1>6, RememberedKept DEF storageVars
    <1> QED
        BY <1>1, <1>2, <1>3, <1>4, <1>5, <1>6 DEF StorageNext, OpenTester, OpenShared

\* A saved configuration is stored until somebody deletes it, and not after, if
\* each of the two was done in the only window (useSavedConfigs.ts:6-66).
THEOREM ConfigurationsAreKept == StorageSpec => []KeptUntilDeleted
    <1>1. StorageInit => Remembered
        BY DEF StorageInit, Remembered, Agrees, Ids, Closed
    <1>2. Remembered => KeptUntilDeleted
        BY DEF Remembered, Agrees, KeptUntilDeleted
    <1> QED
        BY <1>1, <1>2, ConsistentAlways, RememberedStep, PTL DEF StorageSpec

------------------------------------------------------------------------------
(* The parts of the browser.                                                *)

\* Every step of the browser is one that the storage may take, or leaves what is
\* stored alone.
LEMMA StepIsStorages == [Next]_browserVars => [StorageNext]_storageVars
    <1>1. CASE StoragePart
        BY <1>1 DEF StoragePart, ConfigurationPart, WorkspacePart, StorageNext
    <1>2. CASE UNCHANGED storageVars
        BY <1>2
    <1>3. CASE UNCHANGED browserVars
        BY <1>2, <1>3 DEF browserVars
    <1> QED
        BY <1>1, <1>2, <1>3 DEF Next

\* The panels change nothing of the feed but the tab that is shown.
LEMMA PanelsKeepFeed ==
    ASSUME PanelPart
    PROVE  UNCHANGED allFeedVars \/ \E c \in Conns \cup {NoConn} : SwitchTab(c)
    <1>1. CASE NetworkPart
        BY <1>1 DEF NetworkPart, FollowTab, CloseSidebar, OpenSidebar, EditForm, Apply,
               Clear, Request, ServeNetwork,
               NetworkAnswered, NetworkFails, ConditionEnds
    <1>2. CASE PerformancePart
        <2>1. UNCHANGED panelOnly => UNCHANGED allFeedVars
            BY DEF panelOnly
        <2>2. UNCHANGED serverOnly => UNCHANGED allFeedVars
            BY DEF serverOnly
        <2> QED
            BY <1>2, <2>1, <2>2
            DEF PerformancePart, ServeStart, ServeAbort, PerfAnswered, TestProgresses, TestEnds,
                PerfReceive, OpenPanel, LeavePanel, StartTest, AbortTest, PerfAsk,
                serverOnly, panelOnly
    <1> QED
        BY <1>1, <1>2 DEF PanelPart

\* Every step of the browser is one that the feed may take, or leaves what is
\* shown alone.
LEMMA StepIsFeeds == [Next]_browserVars => [FeedNext]_allFeedVars
    <1>1. CASE ShownPart
        <2>1. CASE FeedPart
            BY <2>1 DEF FeedPart, SendStep, FeedNext, ServerStep, BrowserStep
        <2>2. CASE ChartPart
            BY <2>2 DEF ChartPart, SendStep, FeedNext, ServerStep, BrowserStep
        <2>3. CASE StatisticsPart
            BY <2>3 DEF StatisticsPart, SendStep, FeedNext, ServerStep, BrowserStep
        <2> QED
            BY <1>1, <2>1, <2>2, <2>3 DEF ShownPart
    <1>2. CASE PanelPart
        BY <1>2, PanelsKeepFeed DEF FeedNext, BrowserStep
    <1>3. CASE UNCHANGED allFeedVars
        BY <1>3
    <1>4. CASE UNCHANGED browserVars
        BY <1>3, <1>4 DEF browserVars
    <1> QED
        BY <1>1, <1>2, <1>3, <1>4 DEF Next

\* A behaviour of the browser is one of its storage and one of its feed: no part
\* does to another what that could not have done itself.
THEOREM PartsKeepApart == Spec => StorageSpec /\ FeedSpec
    <1>1. Init => StorageInit /\ FeedInit
        BY DEF Init
    <1> QED
        BY <1>1, StepIsStorages, StepIsFeeds, PTL DEF Spec, StorageSpec, FeedSpec

\* What is proved of the storage and of the feed holds in the browser.
THEOREM BrowserIsCorrect ==
    Spec => /\ []ActiveExists /\ []KeptUntilDeleted
            /\ []SentWhereItWasSent /\ []ReceivedOnceInOrder
            /\ []PolledAreRanks /\ []ChartsCountTheWindow
    BY PartsKeepApart, ActiveWorkspaceExists, ConfigurationsAreKept, SentIsShownWhereItWasSent,
       ReceivedIsShownOnceInOrder, PolledStatisticsAreRanks, ChartsCountTheirWindow, PTL

------------------------------------------------------------------------------
(* The panels.                                                              *)

AskedCall ==
    [op : {"get", "put", "delete"}, conn : Conns, values : Settings, number : Nat,
     served : BOOLEAN, heard : BOOLEAN, answer : [values : Settings, active : BOOLEAN]]

NetworkType ==
    /\ conditions \in [Conns -> Settings \cup {NoSettings}]
    /\ sidebar \in BOOLEAN
    /\ form \in [values : Settings, active : BOOLEAN]
    /\ netCalls \in SUBSET AskedCall
    /\ edited \in BOOLEAN /\ crossed \in BOOLEAN
    /\ asked \in Nat

\* The calls of the network panel while none was crossed or failed.  One that is
\* left from an earlier panel is crossed by the question of the next.
Asked ==
    ~crossed =>
        /\ \A call, other \in netCalls : call = other
        /\ \A call \in netCalls :
              /\ sidebar /\ shownConn # NoConn => call.heard /\ call.conn = shownConn
              /\ call.served /\ conditions[call.conn] # NoSettings
                    => call.answer = Answer(conditions[call.conn])

\* While another part of the browser is exercised the panel's first question
\* stays unanswered.
NetworkInv ==
    /\ NetworkType
    /\ part = "network" => Asked /\ InForceIsShown
    /\ part # "network" => netCalls # {}

PanelCall ==
    [op : {"start", "abort"}, conn : Conns, number : Nat \ {0},
     state : {"asked", "done", "failed"}, heard : BOOLEAN]

PanelState ==
    [running : BOOLEAN, testId : Nat, progress : Nat, result : Nat, error : BOOLEAN]

PerfEvents == [type : {"progress", "complete"}, test : Nat]

PerfType ==
    /\ activeTests \in [Conns -> Nat]
    /\ perfWire \in Seq(PerfEvents)
    /\ mounted \in BOOLEAN
    /\ perfPanel \in PanelState
    /\ perfCalls \in SUBSET PanelCall
    /\ asked \in Nat

\* A panel that is not there shows nothing; one that shows a running test has a
\* start that is not carried out yet, a test, or the news of the end of one.
Caused ==
    /\ ~mounted => ~perfPanel.running
    /\ perfPanel.running =>
          \/ \E call \in perfCalls : call.heard /\ call.op = "start" /\ call.state # "done"
          \/ \E c \in Conns : activeTests[c] # 0
          \/ \E i \in DOMAIN perfWire : perfWire[i].type = "complete"

\* Where the tabs are, in the parts of the browser that the panels are in.
TabIsThere == part \in {"network", "performance"} => shownConn \in Conns \cup {NoConn}

PanelInv == TabIsThere /\ NetworkInv /\ PerfType /\ Caused

------------------------------------------------------------------------------
(* The network panel.                                                       *)

\* What the server answers of a condition fits the form.
LEMMA AnswerType ==
    ASSUME NEW condition \in Settings \cup {NoSettings}
    PROVE  Answer(condition) \in [values : Settings, active : BOOLEAN]
    BY PanelsAssumption DEF Answer, Default

\* A call carries the form, as it is when the call is made.
LEMMA NetCallType ==
    ASSUME NetworkType, NEW op \in {"get", "put", "delete"}, NEW c \in Conns,
           NEW number \in Nat
    PROVE  /\ NetCall(op, c, number) \in AskedCall
           /\ NetCall(op, c, number).conn = c
           /\ NetCall(op, c, number).served = FALSE
           /\ NetCall(op, c, number).heard = TRUE
    BY PanelsAssumption DEF NetCall, NetworkType, AskedCall, Default

\* A call about the connection that is shown by then: it is the only one, or it
\* is crossed (NetworkConditionsPanel.tsx:59-92).
LEMMA Asking ==
    ASSUME NetworkType, NEW op \in {"get", "put", "delete"}, NEW c \in Conns,
           AskServer(op, c), sidebar' = TRUE, shownConn' = c
    PROVE  NetworkType' /\ Asked' /\ InForceIsShown' /\ netCalls' # {}
    <1> DEFINE call == NetCall(op, c, asked')
    <1>1. asked' \in Nat
        BY DEF AskServer, Ask, NetworkType
    <1>2. call \in AskedCall /\ call.conn = c /\ call.served = FALSE /\ call.heard = TRUE
        BY <1>1, NetCallType
    <1> HIDE DEF call
    <1>3. /\ netCalls' = netCalls \cup {call}
          /\ crossed' = (netCalls # {})
          /\ UNCHANGED <<conditions, form, edited>>
        BY DEF AskServer, call
    <1>4. NetworkType'
        BY <1>1, <1>2, <1>3 DEF NetworkType
    <1>5. Asked'
        BY <1>2, <1>3 DEF Asked
    <1> QED
        BY <1>3, <1>4, <1>5 DEF InForceIsShown

\* The answer is of the condition the server has when it carries the call out,
\* and no other call is under way that could change it
\* (network-condition.controller.ts).
LEMMA Serving ==
    ASSUME NetworkType, Asked, NEW call \in netCalls, ServeNetwork(call),
           UNCHANGED shownConn
    PROVE  NetworkType' /\ Asked' /\ InForceIsShown'
    <1>1. call \in AskedCall
        BY DEF NetworkType
    <1>2. /\ call.conn \in Conns /\ call.op \in {"get", "put", "delete"}
          /\ call.values \in Settings
        BY <1>1 DEF AskedCall
    <1>3. conditions' \in [Conns -> Settings \cup {NoSettings}]
        BY <1>2 DEF ServeNetwork, NetworkType
    <1> DEFINE answer == Answer(conditions'[call.conn])
               done == [call EXCEPT !.served = TRUE, !.answer = answer]
    <1>4. answer \in [values : Settings, active : BOOLEAN]
        BY <1>2, <1>3, AnswerType
    <1>5. /\ done \in AskedCall
          /\ done.conn = call.conn /\ done.heard = call.heard /\ done.answer = answer
        BY <1>1, <1>4 DEF AskedCall
    <1>6. /\ netCalls' = (netCalls \ {call}) \cup {d \in {done} : d.heard}
          /\ UNCHANGED <<sidebar, form, edited, crossed, asked>>
        BY DEF ServeNetwork
    <1> HIDE DEF answer, done
    <1>7. NetworkType'
        BY <1>3, <1>5, <1>6 DEF NetworkType
    <1>8. ASSUME ~crossed
          PROVE  /\ netCalls' \subseteq {done}
                 /\ sidebar /\ shownConn # NoConn =>
                       done.heard /\ done.conn = shownConn /\ netCalls' = {done}
        BY <1>5, <1>6, <1>8 DEF Asked
    <1>9. Asked'
        BY <1>5, <1>6, <1>8 DEF Asked, answer
    <1>10. InForceIsShown'
        BY <1>6, <1>8 DEF InForceIsShown
    <1> QED
        BY <1>7, <1>9, <1>10

\* The only call is answered: what it says holds for the connection shown.
LEMMA Answering ==
    ASSUME NetworkType, Asked, NEW call \in netCalls, NetworkAnswered(call),
           UNCHANGED shownConn
    PROVE  NetworkType' /\ Asked' /\ InForceIsShown'
    <1>1. /\ call.served /\ netCalls' = netCalls \ {call}
          /\ form' = call.answer /\ edited' = FALSE
          /\ UNCHANGED <<conditions, sidebar, crossed, asked>>
        BY DEF NetworkAnswered
    <1>2. NetworkType'
        BY <1>1 DEF NetworkType, AskedCall
    <1>3. Asked'
        BY <1>1 DEF Asked
    <1>4. ASSUME ~crossed, sidebar, shownConn # NoConn, conditions[shownConn] # NoSettings
          PROVE  form' = [values |-> conditions[shownConn], active |-> TRUE]
        BY <1>1, <1>4 DEF Asked, Answer
    <1> QED
        BY <1>1, <1>2, <1>3, <1>4 DEF InForceIsShown

\* Every step of the network panel keeps its part of the invariant.
LEMMA NetworkStep ==
    ASSUME TabIsThere, NetworkInv, part = "network", NetworkPart, UNCHANGED part
    PROVE  NetworkInv' /\ TabIsThere'
    <1>t. NetworkType /\ Asked /\ InForceIsShown /\ shownConn \in Conns \cup {NoConn}
        BY DEF NetworkInv, TabIsThere
    <1>1. ASSUME NEW c \in Conns \cup {NoConn}, FollowTab(c)
          PROVE  NetworkType' /\ Asked' /\ InForceIsShown' /\ shownConn' \in Conns \cup {NoConn}
        <2>1. shownConn' = c
            BY <1>1 DEF FollowTab, SwitchTab
        <2>2. CASE c # NoConn /\ AskServer("get", c) /\ Here
            <3>1. sidebar' = TRUE
                BY <1>t, <2>2 DEF Here, NetworkType
            <3> QED
                BY <1>t, <2>1, <2>2, <3>1, Asking
        <2>3. CASE (c = NoConn \/ ~sidebar) /\ UNCHANGED <<networkVars, asked>>
            <3>1. UNCHANGED <<conditions, sidebar, form, netCalls, edited, crossed, asked>>
                BY <2>3 DEF networkVars
            <3> QED
                BY <1>t, <2>1, <2>3, <3>1 DEF NetworkType, Asked, InForceIsShown
        <2> QED
            BY <1>1, <2>2, <2>3 DEF FollowTab
    <1>2. ASSUME NEW v \in Settings, EditForm(v)
          PROVE  NetworkType' /\ Asked' /\ InForceIsShown' /\ UNCHANGED shownConn
        <2>1. /\ form' = [form EXCEPT !.values = v] /\ edited' = TRUE
              /\ UNCHANGED <<conditions, sidebar, netCalls, crossed, asked, shownConn>>
            BY <1>2 DEF EditForm, Here, allFeedVars
        <2>2. form' \in [values : Settings, active : BOOLEAN] /\ form'.active = form.active
            BY <1>t, <2>1 DEF NetworkType
        <2> QED
            BY <1>t, <2>1, <2>2 DEF NetworkType, Asked, InForceIsShown
    <1>3. ASSUME Apply \/ Clear
          PROVE  NetworkType' /\ Asked' /\ InForceIsShown' /\ UNCHANGED shownConn
        <2>1. /\ shownConn \in Conns /\ shownConn' = shownConn /\ sidebar' = TRUE
              /\ AskServer("put", shownConn) \/ AskServer("delete", shownConn)
            BY <1>3, <1>t DEF Apply, Clear, Request, Here, NetworkType, allFeedVars
        <2> QED
            BY <1>t, <2>1, Asking
    <1>4. ASSUME NEW call \in netCalls, ServeNetwork(call)
          PROVE  NetworkType' /\ Asked' /\ InForceIsShown' /\ UNCHANGED shownConn
        <2>1. UNCHANGED shownConn
            BY <1>4 DEF ServeNetwork, allFeedVars
        <2> QED
            BY <1>4, <1>t, <2>1, Serving
    <1>5. ASSUME NEW call \in netCalls, NetworkAnswered(call)
          PROVE  NetworkType' /\ Asked' /\ InForceIsShown' /\ UNCHANGED shownConn
        <2>1. UNCHANGED shownConn
            BY <1>5 DEF NetworkAnswered, allFeedVars
        <2> QED
            BY <1>5, <1>t, <2>1, Answering
    <1>6. ASSUME NEW call \in netCalls, NetworkFails(call)
          PROVE  NetworkType' /\ Asked' /\ InForceIsShown' /\ UNCHANGED shownConn
        <2>1. /\ netCalls' = netCalls \ {call} /\ crossed' = TRUE
              /\ form' \in {Default, form}
              /\ UNCHANGED <<conditions, sidebar, edited, asked, shownConn>>
            BY <1>6 DEF NetworkFails, allFeedVars
        <2>2. Default \in [values : Settings, active : BOOLEAN]
            BY PanelsAssumption DEF Default
        <2> QED
            BY <1>t, <2>1, <2>2 DEF NetworkType, Asked, InForceIsShown
    <1>7. ASSUME NEW c \in Conns, ConditionEnds(c)
          PROVE  NetworkType' /\ Asked' /\ InForceIsShown' /\ UNCHANGED shownConn
        <2>1. /\ conditions' = [conditions EXCEPT ![c] = NoSettings]
              /\ UNCHANGED <<sidebar, form, netCalls, edited, crossed, asked, shownConn>>
            BY <1>7 DEF ConditionEnds, allFeedVars
        <2>2. /\ conditions' \in [Conns -> Settings \cup {NoSettings}]
              /\ \A d \in Conns : conditions'[d] \in {NoSettings, conditions[d]}
            BY <1>t, <2>1 DEF NetworkType
        <2>3. \A call \in netCalls : call.conn \in Conns
            BY <1>t DEF NetworkType, AskedCall
        <2>4. NetworkType' /\ Asked'
            BY <1>t, <2>1, <2>2, <2>3 DEF NetworkType, Asked
        <2>5. InForceIsShown'
            BY <1>t, <2>1, <2>2 DEF InForceIsShown
        <2> QED
            BY <2>1, <2>4, <2>5
    <1>8. ASSUME CloseSidebar
          PROVE  NetworkType' /\ Asked' /\ InForceIsShown' /\ UNCHANGED shownConn
        <2> DEFINE kept == {sent \in netCalls : ~sent.served /\ sent.op # "get"}
                   Left(call) == [call EXCEPT !.heard = FALSE]
        <2>1. /\ sidebar' = FALSE /\ form' = Default /\ edited' = FALSE
              /\ netCalls' = {Left(call) : call \in kept}
              /\ UNCHANGED <<conditions, crossed, asked, shownConn>>
            BY <1>8 DEF CloseSidebar, allFeedVars
        <2>2. \A call \in kept : Left(call) \in AskedCall /\ ~Left(call).served
            BY <1>t DEF NetworkType, AskedCall
        <2>3. Default \in [values : Settings, active : BOOLEAN]
            BY PanelsAssumption DEF Default
        <2>4. NetworkType'
            BY <1>t, <2>1, <2>2, <2>3 DEF NetworkType
        <2>5. ~crossed => \A call, other \in kept : call = other
            BY <1>t DEF Asked
        <2> HIDE DEF kept, Left
        <2>6. Asked'
            BY <2>1, <2>2, <2>5 DEF Asked
        <2> QED
            BY <2>1, <2>4, <2>6 DEF InForceIsShown
    <1>9. ASSUME OpenSidebar
          PROVE  NetworkType' /\ Asked' /\ InForceIsShown' /\ UNCHANGED shownConn
        <2>1. sidebar' = TRUE /\ UNCHANGED shownConn
            BY <1>9 DEF OpenSidebar, allFeedVars
        <2>2. CASE shownConn # NoConn /\ AskServer("get", shownConn)
            BY <1>t, <2>1, <2>2, Asking
        <2>3. CASE /\ shownConn = NoConn
                   /\ UNCHANGED <<conditions, form, netCalls, edited, crossed, asked>>
            BY <1>t, <2>1, <2>3 DEF NetworkType, Asked, InForceIsShown
        <2> QED
            BY <1>9, <2>1, <2>2, <2>3 DEF OpenSidebar
    <1>10. NetworkType' /\ Asked' /\ InForceIsShown' /\ shownConn' \in Conns \cup {NoConn}
        BY <1>t, <1>1, <1>2, <1>3, <1>4, <1>5, <1>6, <1>7, <1>8, <1>9 DEF NetworkPart
    <1> QED
        BY <1>10 DEF NetworkInv, TabIsThere

------------------------------------------------------------------------------
(* The performance panel.                                                   *)

\* What the panel may become of p, and whether it shows a running test then.
LEMMA PanelStates ==
    ASSUME NEW p \in PanelState, NEW n \in Nat
    PROVE  /\ Idle \in PanelState /\ ~Idle.running
           /\ [Idle EXCEPT !.running = TRUE] \in PanelState
           /\ [Idle EXCEPT !.error = TRUE] \in PanelState
           /\ ~[Idle EXCEPT !.error = TRUE].running
           /\ [p EXCEPT !.testId = n] \in PanelState
           /\ [p EXCEPT !.testId = n].running = p.running
           /\ [p EXCEPT !.progress = n] \in PanelState
           /\ [p EXCEPT !.progress = n].running = p.running
           /\ [p EXCEPT !.running = FALSE, !.progress = 0] \in PanelState
           /\ ~[p EXCEPT !.running = FALSE, !.progress = 0].running
           /\ [p EXCEPT !.running = FALSE, !.progress = 0, !.result = n] \in PanelState
           /\ ~[p EXCEPT !.running = FALSE, !.progress = 0, !.result = n].running
    BY DEF PanelState, Idle

\* An event that is emitted comes last (events.gateway.ts:103).
LEMMA Emitted ==
    ASSUME PerfType, NEW type \in {"progress", "complete"}, NEW t \in Nat,
           PerfEvent(type, t)
    PROVE  /\ perfWire' \in Seq(PerfEvents)
           /\ \A i \in DOMAIN perfWire : i \in DOMAIN perfWire' /\ perfWire'[i] = perfWire[i]
           /\ \E i \in DOMAIN perfWire' : perfWire'[i].type = type
    <1> DEFINE e == [type |-> type, test |-> t]
    <1>1. e \in PerfEvents /\ e.type = type
        BY DEF PerfEvents
    <1>2. perfWire \in Seq(PerfEvents) /\ perfWire' = Append(perfWire, e)
        BY DEF PerfType, PerfEvent
    <1> HIDE DEF e
    <1>3. /\ perfWire' \in Seq(PerfEvents) /\ DOMAIN perfWire = 1..Len(perfWire)
          /\ DOMAIN perfWire' = 1..(Len(perfWire) + 1) /\ Len(perfWire) \in Nat
          /\ \A i \in 1..Len(perfWire) : perfWire'[i] = perfWire[i]
          /\ perfWire'[Len(perfWire) + 1] = e
        BY <1>1, <1>2
    <1> QED
        BY <1>1, <1>3

\* The server carries out or refuses a start: a test runs, or the start is still
\* to be answered (performance.controller.ts:35).
LEMMA Starting ==
    ASSUME PerfType, Caused, NEW call \in perfCalls, ServeStart(call)
    PROVE  PerfType' /\ Caused'
    <1>1. /\ call \in PanelCall /\ call.op = "start"
          /\ UNCHANGED <<perfPanel, mounted, asked, perfWire>>
        BY DEF ServeStart, serverOnly, PerfType
    <1>2. CASE /\ activeTests' = [activeTests EXCEPT ![call.conn] = call.number]
               /\ perfCalls' = (perfCalls \ {call}) \cup {[call EXCEPT !.state = "done"]}
        <2>1. [call EXCEPT !.state = "done"] \in PanelCall
            BY <1>1 DEF PanelCall
        <2>2. /\ call.conn \in Conns /\ call.number \in Nat \ {0}
              /\ activeTests \in [Conns -> Nat]
            BY <1>1 DEF PanelCall, PerfType
        <2>3. /\ activeTests' \in [Conns -> Nat]
              /\ activeTests'[call.conn] # 0
              /\ \A c \in Conns : activeTests[c] # 0 => activeTests'[c] # 0
            BY <1>2, <2>2
        <2>4. PerfType'
            BY <1>1, <1>2, <2>1, <2>3 DEF PerfType
        <2>5. Caused'
            BY <1>1, <2>2, <2>3 DEF Caused
        <2> QED
            BY <2>4, <2>5
    <1>3. CASE /\ perfCalls' = (perfCalls \ {call}) \cup {[call EXCEPT !.state = "failed"]}
               /\ UNCHANGED activeTests
        <2> DEFINE failed == [call EXCEPT !.state = "failed"]
        <2>1. /\ failed \in PanelCall /\ failed.heard = call.heard
              /\ failed.op = "start" /\ failed.state # "done"
            BY <1>1 DEF PanelCall
        <2> HIDE DEF failed
        <2>2. perfCalls' = (perfCalls \ {call}) \cup {failed}
            BY <1>3 DEF failed
        <2>3. PerfType'
            BY <1>1, <1>3, <2>1, <2>2 DEF PerfType
        <2>4. \A other \in perfCalls :
                 other.heard /\ other.op = "start" /\ other.state # "done" =>
                    \E after \in perfCalls' :
                       after.heard /\ after.op = "start" /\ after.state # "done"
            BY <2>1, <2>2
        <2>5. Caused'
            BY <1>1, <1>3, <2>4 DEF Caused
        <2> QED
            BY <2>3, <2>5
    <1> QED
        BY <1>2, <1>3 DEF ServeStart

\* The request to abort is no reason to show a test
\* (performance.controller.ts:53).
LEMMA Aborting ==
    ASSUME PerfType, Caused, NEW call \in perfCalls, ServeAbort(call)
    PROVE  PerfType' /\ Caused'
    <1>1. /\ call \in PanelCall /\ call.op = "abort"
          /\ perfCalls' = (perfCalls \ {call}) \cup {[call EXCEPT !.state = "done"]}
          /\ UNCHANGED <<perfPanel, mounted, asked, perfWire, activeTests>>
        BY DEF ServeAbort, serverOnly, PerfType
    <1>2. [call EXCEPT !.state = "done"] \in PanelCall
        BY <1>1 DEF PanelCall
    <1>3. PerfType'
        BY <1>1, <1>2 DEF PerfType
    <1>4. \A other \in perfCalls : other.op = "start" => other \in perfCalls'
        BY <1>1
    <1>5. Caused'
        BY <1>1, <1>4 DEF Caused
    <1> QED
        BY <1>3, <1>5

\* A test's progress and its end are told, and the end is told before anybody
\* can see that it ended (performance.service.ts:113-145).
LEMMA Testing ==
    ASSUME PerfType, Caused, NEW c \in Conns, TestProgresses(c) \/ TestEnds(c)
    PROVE  PerfType' /\ Caused'
    <1>1. /\ activeTests[c] \in Nat
          /\ UNCHANGED <<perfPanel, mounted, asked, perfCalls>>
        BY DEF TestProgresses, TestEnds, serverOnly, PerfType
    <1>2. PICK type \in {"progress", "complete"} :
             /\ PerfEvent(type, activeTests[c])
             /\ type = "progress" => UNCHANGED activeTests
             /\ type = "complete" => activeTests' = [activeTests EXCEPT ![c] = 0]
        BY DEF TestProgresses, TestEnds
    <1>3. /\ perfWire' \in Seq(PerfEvents)
          /\ \A i \in DOMAIN perfWire : i \in DOMAIN perfWire' /\ perfWire'[i] = perfWire[i]
          /\ \E i \in DOMAIN perfWire' : perfWire'[i].type = type
        BY <1>1, <1>2, Emitted
    <1>4. activeTests' \in [Conns -> Nat]
        BY <1>2 DEF PerfType
    <1>5. PerfType'
        BY <1>1, <1>3, <1>4 DEF PerfType
    <1>6. CASE type = "progress"
        <2>1. UNCHANGED activeTests
            BY <1>2, <1>6
        <2>2. (\E i \in DOMAIN perfWire : perfWire[i].type = "complete") =>
                 \E i \in DOMAIN perfWire' : perfWire'[i].type = "complete"
            BY <1>3
        <2> QED
            BY <1>1, <1>5, <2>1, <2>2 DEF Caused
    <1>7. CASE type = "complete"
        BY <1>1, <1>3, <1>5, <1>7 DEF Caused
    <1> QED
        BY <1>2, <1>6, <1>7

\* The panel hears of an end if it is there; if it is not, it shows no test
\* (PerformancePanel.tsx:108-124).
LEMMA Hearing ==
    ASSUME PerfType, Caused, PerfReceive
    PROVE  PerfType' /\ Caused'
    <1>1. perfWire \in Seq(PerfEvents) /\ perfWire # <<>> /\ perfWire' = Tail(perfWire)
        BY DEF PerfReceive, PerfType
    <1>2. Head(perfWire) \in PerfEvents
        BY <1>1
    <1>3. /\ Head(perfWire).test \in Nat
          /\ Head(perfWire).type \in {"progress", "complete"}
        BY <1>2 DEF PerfEvents
    <1>4. /\ perfWire' \in Seq(PerfEvents) /\ Len(perfWire) \in Nat \ {0}
          /\ DOMAIN perfWire = 1..Len(perfWire) /\ Head(perfWire) = perfWire[1]
          /\ DOMAIN perfWire' = 1..(Len(perfWire) - 1)
          /\ \A i \in 1..(Len(perfWire) - 1) : perfWire'[i] = perfWire[i + 1]
        BY <1>1
    <1>5. UNCHANGED <<activeTests, mounted, perfCalls, asked>>
        BY DEF PerfReceive, panelOnly
    <1>6. /\ ~mounted => UNCHANGED perfPanel
          /\ mounted => \/ /\ Head(perfWire).type = "progress"
                           /\ perfPanel' = [perfPanel EXCEPT !.progress = Head(perfWire).test]
                        \/ perfPanel' = [perfPanel EXCEPT !.running = FALSE, !.progress = 0,
                                                          !.result = Head(perfWire).test]
        BY DEF PerfReceive
    <1>7. /\ perfPanel' \in PanelState
          /\ perfPanel'.running =>
                mounted /\ perfPanel.running /\ Head(perfWire).type = "progress"
        <2>0. perfPanel \in PanelState
            BY DEF PerfType
        <2>1. CASE ~mounted
            BY <1>6, <2>0, <2>1 DEF Caused
        <2>2. CASE mounted /\ Head(perfWire).type = "progress"
                     /\ perfPanel' = [perfPanel EXCEPT !.progress = Head(perfWire).test]
            BY <1>3, <2>0, <2>2, PanelStates
        <2>3. CASE perfPanel' = [perfPanel EXCEPT !.running = FALSE, !.progress = 0,
                                                  !.result = Head(perfWire).test]
            BY <1>3, <2>0, <2>3, PanelStates
        <2> QED
            BY <1>6, <2>1, <2>2, <2>3
    <1>8. PerfType'
        BY <1>4, <1>5, <1>7 DEF PerfType
    <1>9. ASSUME NEW i \in DOMAIN perfWire, perfWire[i].type = "complete",
                 Head(perfWire).type = "progress"
          PROVE  \E j \in DOMAIN perfWire' : perfWire'[j].type = "complete"
        <2>1. i \in 1..Len(perfWire) /\ i # 1
            BY <1>4, <1>9
        <2>2. i - 1 \in 1..(Len(perfWire) - 1) /\ (i - 1) + 1 = i
            BY <1>4, <2>1
        <2>3. perfWire'[i - 1] = perfWire[i]
            BY <1>4, <2>2
        <2> QED
            BY <1>4, <1>9, <2>2, <2>3
    <1>10. Caused'
        BY <1>5, <1>7, <1>9 DEF Caused
    <1> QED
        BY <1>8, <1>10

\* Leaving the panel forgets the test; the calls it made are heard by nobody.
LEMMA Leaving ==
    ASSUME PerfType, Caused, OpenPanel \/ LeavePanel
    PROVE  PerfType' /\ Caused'
    <1>1. UNCHANGED <<activeTests, perfWire, asked>> /\ mounted' \in BOOLEAN
        BY DEF OpenPanel, LeavePanel, panelOnly
    <1>2. CASE LeavePanel
        <2>1. /\ perfPanel' = Idle
              /\ perfCalls' = {[call EXCEPT !.heard = FALSE] : call \in perfCalls}
            BY <1>2 DEF LeavePanel
        <2>2. \A call \in PanelCall : [call EXCEPT !.heard = FALSE] \in PanelCall
            BY DEF PanelCall
        <2>3. perfCalls' \subseteq PanelCall
            BY <2>1, <2>2 DEF PerfType
        <2> QED
            BY <1>1, <2>1, <2>3, PanelStates DEF PerfType, Caused
    <1>3. CASE OpenPanel
        <2>1. UNCHANGED <<perfPanel, perfCalls>> /\ mounted' = TRUE
            BY <1>3 DEF OpenPanel
        <2> QED
            BY <1>1, <2>1 DEF PerfType, Caused
    <1> QED
        BY <1>2, <1>3

\* Run and Abort (PerformancePanel.tsx:126-152).
LEMMA PerfAsking ==
    ASSUME TabIsThere, part = "performance", PerfType, Caused, StartTest \/ AbortTest
    PROVE  PerfType' /\ Caused'
    <1>1. PICK op \in {"start", "abort"} :
             /\ PerfAsk(op)
             /\ op = "start" => perfPanel' = [Idle EXCEPT !.running = TRUE]
             /\ op = "abort" => UNCHANGED perfPanel
        BY DEF StartTest, AbortTest
    <1>2. /\ shownConn \in Conns /\ mounted = TRUE
          /\ asked' \in Nat \ {0}
        BY <1>1 DEF PerfAsk, Ask, TabIsThere, PerfType
    <1> DEFINE call == [op |-> op, conn |-> shownConn, number |-> asked', state |-> "asked",
                        heard |-> TRUE]
    <1>3. call \in PanelCall /\ call.heard /\ call.op = op /\ call.state # "done"
        BY <1>2 DEF PanelCall
    <1>4. /\ perfCalls' = perfCalls \cup {call}
          /\ UNCHANGED <<activeTests, mounted, perfWire>>
        BY <1>1 DEF PerfAsk, panelOnly
    <1> HIDE DEF call
    <1>5. perfPanel' \in PanelState
        BY <1>1, PanelStates DEF PerfType
    <1>6. PerfType'
        BY <1>2, <1>3, <1>4, <1>5 DEF PerfType
    <1>7. CASE op = "start"
        BY <1>2, <1>3, <1>4, <1>6, <1>7 DEF Caused
    <1>8. CASE op = "abort"
        BY <1>1, <1>2, <1>4, <1>6, <1>8 DEF Caused
    <1> QED
        BY <1>7, <1>8

\* An answer: that of a start that was carried out is no reason any more, that
\* of a start that was refused or lost shows that nothing runs.
LEMMA PerfAnswering ==
    ASSUME PerfType, Caused, NEW call \in perfCalls, PerfAnswered(call)
    PROVE  PerfType' /\ Caused'
    <1>1. /\ call \in PanelCall /\ perfCalls' = perfCalls \ {call}
          /\ UNCHANGED <<activeTests, mounted, perfWire, asked>>
        BY DEF PerfAnswered, panelOnly, PerfType
    <1>2. \/ UNCHANGED perfPanel /\ (~call.heard \/ call.op = "abort")
          \/ perfPanel' = [perfPanel EXCEPT !.testId = call.number] /\ call.state = "done"
          \/ perfPanel' = [Idle EXCEPT !.error = TRUE]
          \/ perfPanel' = [perfPanel EXCEPT !.running = FALSE, !.progress = 0]
        BY DEF PerfAnswered, ShowStarted
    <1>3. call.number \in Nat
        BY <1>1 DEF PanelCall
    <1>4. /\ perfPanel' \in PanelState
          /\ perfPanel'.running => /\ perfPanel.running
                                   /\ ~(call.heard /\ call.op = "start" /\ call.state # "done")
        <2>0. perfPanel \in PanelState
            BY DEF PerfType
        <2>1. CASE UNCHANGED perfPanel /\ (~call.heard \/ call.op = "abort")
            BY <2>0, <2>1
        <2>2. CASE /\ perfPanel' = [perfPanel EXCEPT !.testId = call.number]
                   /\ call.state = "done"
            BY <1>3, <2>0, <2>2, PanelStates
        <2>3. CASE perfPanel' = [Idle EXCEPT !.error = TRUE]
            BY <1>3, <2>0, <2>3, PanelStates
        <2>4. CASE perfPanel' = [perfPanel EXCEPT !.running = FALSE, !.progress = 0]
            BY <1>3, <2>0, <2>4, PanelStates
        <2> QED
            BY <1>2, <2>1, <2>2, <2>3, <2>4
    <1>5. PerfType'
        BY <1>1, <1>4 DEF PerfType
    <1>6. Caused'
        BY <1>1, <1>4 DEF Caused
    <1> QED
        BY <1>5, <1>6

\* Every step of the performance panel keeps its part of the invariant.
LEMMA PerformanceStep ==
    ASSUME TabIsThere, part = "performance", PerfType, Caused, PerformancePart
    PROVE  PerfType' /\ Caused'
    <1>1. ASSUME NEW c \in Conns \cup {NoConn}, UNCHANGED panelVars
          PROVE  PerfType' /\ Caused'
        BY <1>1 DEF panelVars, perfVars, PerfType, Caused
    <1> QED
        BY <1>1, Starting, Aborting, PerfAnswering, Testing, Hearing, Leaving, PerfAsking
        DEF PerformancePart

------------------------------------------------------------------------------
(* The panels as parts of the browser.                                      *)

\* The panels start with the network panel's first question under way.
LEMMA PanelInit == Init => PanelInv
    <1> SUFFICES ASSUME Init PROVE PanelInv
        OBVIOUS
    <1>1. /\ FeedInit /\ NetworkInit /\ PerfInit /\ asked = 0
        BY DEF Init, PanelsInit
    <1>2. shownConn \in Conns
        BY <1>1 DEF FeedInit
    <1>3. /\ conditions \in [Conns -> Settings \cup {NoSettings}]
          /\ form \in [values : Settings, active : BOOLEAN]
          /\ form.values = Unset /\ sidebar = TRUE
        BY <1>1, PanelsAssumption DEF NetworkInit, Default
    <1> DEFINE call == NetCall("get", shownConn, 0)
    <1>4. /\ call \in AskedCall
          /\ call.conn = shownConn /\ call.served = FALSE /\ call.heard = TRUE
        BY <1>2, <1>3, PanelsAssumption DEF NetCall, AskedCall, Default
    <1> HIDE DEF call
    <1>5. netCalls = {call} /\ edited = FALSE /\ crossed = FALSE
        BY <1>1 DEF NetworkInit, call
    <1>6. NetworkType /\ Asked /\ InForceIsShown /\ netCalls # {}
        BY <1>1, <1>3, <1>4, <1>5 DEF NetworkType, Asked, InForceIsShown
    <1>7. PerfType /\ Caused
        <2>1. perfPanel \in PanelState /\ ~perfPanel.running
            BY <1>1 DEF PerfInit, Idle, PanelState
        <2> QED
            BY <1>1, <2>1 DEF PerfInit, PerfType, Caused
    <1> QED
        BY <1>2, <1>6, <1>7 DEF PanelInv, TabIsThere, NetworkInv

\* Every step of the browser keeps the invariant.
LEMMA PanelStep == PanelInv /\ [Next]_browserVars => PanelInv'
    <1> SUFFICES ASSUME PanelInv, [Next]_browserVars PROVE PanelInv'
        OBVIOUS
    <1>t. TabIsThere /\ NetworkInv /\ PerfType /\ Caused
        BY DEF PanelInv
    <1>1. CASE NetworkPart /\ part = "network" /\ UNCHANGED part
        <2>1. NetworkInv' /\ TabIsThere'
            BY <1>1, <1>t, NetworkStep
        <2>2. UNCHANGED perfVars
            BY <1>1 DEF NetworkPart, FollowTab, CloseSidebar, OpenSidebar, EditForm, Apply,
                   Clear, Request, ServeNetwork, NetworkAnswered, NetworkFails, ConditionEnds
        <2>3. asked' \in Nat
            BY <2>1 DEF NetworkInv, NetworkType
        <2>4. PerfType' /\ Caused'
            BY <1>t, <2>2, <2>3 DEF perfVars, PerfType, Caused
        <2> QED
            BY <2>1, <2>4 DEF PanelInv
    <1>2. CASE PerformancePart /\ part = "performance" /\ UNCHANGED part
        <2>1. PerfType' /\ Caused'
            BY <1>2, <1>t, PerformanceStep
        <2>2. /\ UNCHANGED networkVars
              /\ shownConn' \in Conns \cup {NoConn}
            BY <1>2, <1>t DEF PerformancePart, panelVars, serverOnly, panelOnly, SwitchTab,
                   ServeStart, ServeAbort, PerfAnswered, TestProgresses, TestEnds, PerfReceive,
                   OpenPanel, LeavePanel, StartTest, AbortTest, PerfAsk, TabIsThere, allFeedVars
        <2>3. asked' \in Nat
            BY <2>1 DEF PerfType
        <2>4. NetworkInv'
            BY <1>2, <1>t, <2>2, <2>3 DEF NetworkInv, NetworkType, networkVars
        <2>5. TabIsThere'
            BY <2>2 DEF TabIsThere
        <2> QED
            BY <2>1, <2>4, <2>5 DEF PanelInv
    <1>3. CASE UNCHANGED panelVars /\ UNCHANGED part /\ part \notin {"network", "performance"}
        <2>1. UNCHANGED <<networkVars, perfVars, asked>>
            BY <1>3 DEF panelVars
        <2>2. PerfType' /\ Caused'
            BY <1>t, <2>1 DEF perfVars, PerfType, Caused
        <2>3. NetworkInv'
            BY <1>3, <1>t, <2>1 DEF NetworkInv, NetworkType, networkVars
        <2>4. TabIsThere'
            BY <1>3 DEF TabIsThere
        <2> QED
            BY <2>2, <2>3, <2>4 DEF PanelInv
    <1>4. CASE UNCHANGED <<panelVars, shownConn, part>>
        <2>1. UNCHANGED <<networkVars, perfVars, asked>>
            BY <1>4 DEF panelVars
        <2>2. PerfType' /\ Caused'
            BY <1>t, <2>1 DEF perfVars, PerfType, Caused
        <2>3. NetworkInv'
            BY <1>4, <1>t, <2>1 DEF NetworkInv, NetworkType, networkVars, Asked, InForceIsShown
        <2>4. TabIsThere'
            BY <1>4, <1>t DEF TabIsThere
        <2> QED
            BY <2>2, <2>3, <2>4 DEF PanelInv
    <1>5. CASE UNCHANGED browserVars
        BY <1>4, <1>5 DEF browserVars, allFeedVars
    <1>6. CASE StoragePart /\ UNCHANGED <<allFeedVars, panelVars>> /\ UNCHANGED part
        BY <1>4, <1>6 DEF allFeedVars
    <1>7. CASE ShownPart /\ UNCHANGED <<storageVars, panelVars>> /\ UNCHANGED part
        <2>1. part \in {"feed", "charts", "statistics"}
            BY <1>7 DEF ShownPart
        <2> QED
            BY <1>3, <1>7, <2>1
    <1>8. CASE PanelPart /\ UNCHANGED part
        BY <1>1, <1>2, <1>8 DEF PanelPart
    <1> QED
        BY <1>5, <1>6, <1>7, <1>8 DEF Next

\* The invariant holds always.
LEMMA PanelInvAlways == Spec => []PanelInv
    BY PanelInit, PanelStep, PTL DEF Spec

\* The performance panel never says that a test runs with nothing left that
\* could end the waiting, in whatever order calls, answers and events come and
\* whenever the panel is left (PerformancePanel.tsx:108-152).
THEOREM RunningTestsHaveACause == Spec => []RunningHasCause
    <1>1. PanelInv => RunningHasCause
        BY DEF PanelInv, Caused, RunningHasCause
    <1> QED
        BY <1>1, PanelInvAlways, PTL

\* A condition that is in force on the connection that is shown is marked as
\* active with its values, unless they are being edited or a call overtook
\* another or failed (NetworkConditionsPanel.tsx:58-92).
THEOREM ConditionsInForceAreShown == Spec => []InForceIsShown
    <1>1. PanelInv => InForceIsShown
        BY DEF PanelInv, NetworkInv, InForceIsShown
    <1> QED
        BY <1>1, PanelInvAlways, PTL

==============================================================================
