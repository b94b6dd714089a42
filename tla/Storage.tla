------------------------------- MODULE Storage -------------------------------
(****************************************************************************)
(* What the browser keeps in localStorage, and the windows that share it:   *)
(* the saved configurations of useSavedConfigs and the workspaces of        *)
(* useWorkspaceStore.  A window reads the storage once, when its modules    *)
(* load; from then on it works on its own copy and every change writes the  *)
(* whole copy back.  Nothing listens to the 'storage' event, so windows     *)
(* learn of each other's writes only when they are loaded again.            *)
(*                                                                          *)
(* Beside them the server's shared configurations, the third source of a    *)
(* saved configuration.  A job of a window runs to its end: the two items   *)
(* persist() writes change together.                                        *)
(****************************************************************************)
EXTENDS Integers, Sequences

CONSTANTS
    Windows,             \* windows and tabs of one browser
    Names,               \* what a saved configuration holds beside its id
    Keys,                \* names of environment variables
    Values, NoValue,     \* and their values
    HandWritten,         \* workspace files that were not exported here
    Tokens,              \* bound: shares ever created
    MaxConfigs,          \* saved configurations (50)
    MaxSaved,            \* bound: configurations ever saved
    MaxMinted            \* bound: workspaces ever created

ASSUME StorageAssumption ==
    /\ MaxConfigs \in Nat \ {0} /\ MaxSaved \in Nat /\ MaxMinted \in Nat
    /\ NoValue \notin Values
    /\ NoValue \notin Names /\ Names \cap {"unused", "expired"} = {}
    /\ HandWritten \subseteq [Keys -> [value : Values, isSecret : BOOLEAN]
                                         \cup {[value |-> NoValue, isSecret |-> FALSE]}]

VARIABLES
    configs,       \* localStorage 'socket-tester:configs'
    workspaces,    \* localStorage 'socket-tester:workspaces', <<>> for none
    active,        \* localStorage 'socket-tester:activeWorkspace', 0 for none
    window,        \* what each window has in memory
    files,         \* workspaces that were exported to a file
    shares,        \* ShareService.shares
    saved,         \* configurations saved so far, the source of their ids
    minted,        \* workspaces created so far, the source of theirs
    removed,       \* history: configurations somebody deleted
    contested      \* history: those saved or deleted while another window was open

configVars    == <<configs, saved, removed, contested>>
workspaceVars == <<workspaces, active, files, minted>>
storageVars   == <<configVars, workspaceVars, window, shares>>

Id == 1..MaxMinted
Config == [id : 1..MaxSaved, name : Names]

\* The environment variables of a workspace: absent, or a value that may be
\* marked secret.
NoVar == [value |-> NoValue, isSecret |-> FALSE]
EnvVar == [value : Values, isSecret : BOOLEAN] \cup {NoVar}
EnvVars == [Keys -> EnvVar]
NoVars == [k \in Keys |-> NoVar]
Workspace == [id : Id, envVars : EnvVars]

\* The page of a window: the tester, or the page of a shared configuration with
\* the configuration it was answered.
Page == [at : {"tester", "loading", "shown", "gone", "imported"},
         token : Tokens \cup {NoValue}, config : Names \cup {NoValue}]
Tester == [at |-> "tester", token |-> NoValue, config |-> NoValue]

Closed == [open |-> FALSE, configs |-> <<>>, workspaces |-> <<>>, active |-> 0,
           page |-> Tester]

Ids(list) == {list[i].id : i \in DOMAIN list}

\* filter: one element goes, ids being unique.
Without(list, id) ==
    IF id \notin Ids(list) THEN list
    ELSE LET at == CHOOSE i \in DOMAIN list : list[i].id = id
         IN  [i \in 1..Len(list)-1 |-> IF i < at THEN list[i] ELSE list[i+1]]

Mint == minted < MaxMinted /\ minted' = minted + 1

Window == [open : BOOLEAN, configs : Seq(Config), workspaces : Seq(Workspace),
           active : Id \cup {0}, page : Page]

StorageTypeOK ==
    /\ configs \in Seq(Config) /\ workspaces \in Seq(Workspace)
    /\ active \in Id \cup {0}
    /\ window \in [Windows -> Window]
    /\ files \subseteq EnvVars
    /\ shares \in [Tokens -> Names \cup {"unused", "expired"}]
    /\ saved \in 0..MaxSaved /\ minted \in 0..MaxMinted
    /\ removed \subseteq 1..MaxSaved /\ contested \subseteq 1..MaxSaved

StorageInit ==
    /\ configs = <<>> /\ workspaces = <<>> /\ active = 0
    /\ window = [w \in Windows |-> Closed]
    /\ files = HandWritten
    /\ shares = [t \in Tokens |-> "unused"]
    /\ saved = 0 /\ minted = 0
    /\ removed = {} /\ contested = {}

------------------------------------------------------------------------------
(* A window is loaded or closed.                                            *)

\* loadConfigs and loadFromStorage.  Without stored workspaces a window starts
\* with a default one of its own, which is not written until it changes.
Loaded(page, list, chosen) ==
    [open |-> TRUE, configs |-> configs, workspaces |-> list, active |-> chosen,
     page |-> page]

LoadStored(w, page) ==
    /\ workspaces # <<>>
    /\ window' = [window EXCEPT ![w] =
           Loaded(page, workspaces, IF active # 0 THEN active ELSE workspaces[1].id)]
    /\ UNCHANGED minted

LoadDefault(w, page) ==
    /\ workspaces = <<>> /\ Mint
    /\ LET fresh == [id |-> minted', envVars |-> NoVars] IN
       window' = [window EXCEPT ![w] = Loaded(page, <<fresh>>, fresh.id)]

Load(w, page) ==
    /\ ~window[w].open
    /\ LoadStored(w, page) \/ LoadDefault(w, page)
    /\ UNCHANGED <<configVars, workspaces, active, files, shares>>

\* A window is opened on the tester, or on the link of a share.
OpenTester(w) == Load(w, Tester)
OpenShared(w, t) == Load(w, [at |-> "loading", token |-> t, config |-> NoValue])

CloseWindow(w) ==
    /\ window[w].open
    /\ window' = [window EXCEPT ![w] = Closed]
    /\ UNCHANGED <<configVars, workspaceVars, shares>>

AtTester(w) == window[w].open /\ window[w].page.at = "tester"

------------------------------------------------------------------------------
(* Saved configurations.                                                    *)

\* Mutant: the store is changed and the storage is not.
KeepConfigs(w, list, page) ==
    /\ window' = [window EXCEPT ![w].configs = list, ![w].page = page]
    /\ UNCHANGED configs

\* persistConfigs(next); set({ configs: next }).
StoreConfigs(w, list, page) ==
    /\ configs' = list
    /\ window' = [window EXCEPT ![w].configs = list, ![w].page = page]

\* The history of a change to a configuration: other windows do not see it.
Alone(w) == \A v \in Windows \ {w} : ~window[v].open

Changed(w, id) == contested' = IF Alone(w) THEN contested ELSE contested \cup {id}

\* At the limit saveConfig alerts, and saves nothing.
SaveConfig(w, name, page) ==
    \/ /\ Len(window[w].configs) >= MaxConfigs
       /\ window' = [window EXCEPT ![w].page = page]
       /\ UNCHANGED configVars
    \/ /\ Len(window[w].configs) < MaxConfigs
       /\ saved < MaxSaved /\ saved' = saved + 1
       /\ StoreConfigs(w, Append(window[w].configs, [id |-> saved', name |-> name]), page)
       /\ Changed(w, saved') /\ UNCHANGED removed

\* The connection form saves what its fields hold.
SaveForm(w, name) ==
    /\ AtTester(w)
    /\ SaveConfig(w, name, Tester)
    /\ UNCHANGED <<workspaceVars, shares>>

\* The card of a saved configuration, once the deletion is confirmed.
DeleteConfig(w, id) ==
    /\ AtTester(w) /\ id \in Ids(window[w].configs)
    /\ StoreConfigs(w, Without(window[w].configs, id), Tester)
    /\ removed' = removed \cup {id} /\ Changed(w, id)
    /\ UNCHANGED <<workspaceVars, shares, saved>>

------------------------------------------------------------------------------
(* Shared configurations.                                                   *)

\* The configuration is stored without its credentials, which its name does not
\* stand for: sanitize() leaves the rest as it is.
CreateShare(t, name) ==
    /\ shares[t] = "unused"
    /\ shares' = [shares EXCEPT ![t] = name]
    /\ UNCHANGED <<configVars, workspaceVars, window>>

\* The share's timer.
ExpireShare(t) ==
    /\ shares[t] \in Names
    /\ shares' = [shares EXCEPT ![t] = "expired"]
    /\ UNCHANGED <<configVars, workspaceVars, window>>

\* getShare, and the page once its GET is answered.
SharedPage(page) ==
    IF shares[page.token] \in Names
    THEN [page EXCEPT !.at = "shown", !.config = shares[page.token]]
    ELSE [page EXCEPT !.at = "gone"]

SharedAnswered(w) ==
    /\ window[w].page.at = "loading"
    /\ window' = [window EXCEPT ![w].page = SharedPage(@)]
    /\ UNCHANGED <<configVars, workspaceVars, shares>>

\* The page says that it imported the configuration whether or not saveConfig
\* took it.
ImportShared(w) ==
    LET page == window[w].page IN
    /\ window[w].open /\ page.at = "shown"
    /\ SaveConfig(w, page.config, [page EXCEPT !.at = "imported"])
    /\ UNCHANGED <<workspaceVars, shares>>

\* The buttons that lead to the tester, within the same window.
BackToTester(w) ==
    /\ window[w].open /\ window[w].page.at # "tester"
    /\ window' = [window EXCEPT ![w].page = Tester]
    /\ UNCHANGED <<configVars, workspaceVars, shares>>

------------------------------------------------------------------------------
(* Workspaces, in the panel of the tester.                                  *)

\* persist(workspaces, activeId), and the state the store returns.
Persist(w, list, chosen) ==
    /\ workspaces' = list /\ active' = chosen
    /\ window' = [window EXCEPT ![w].workspaces = list, ![w].active = chosen]

\* A new workspace is appended and becomes the active one.
AddWorkspace(w, envVars) ==
    /\ AtTester(w) /\ Mint
    /\ Persist(w, Append(window[w].workspaces, [id |-> minted', envVars |-> envVars]),
               minted')
    /\ UNCHANGED <<configVars, files, shares>>

CreateWorkspace(w) == AddWorkspace(w, NoVars)

\* The file is read when its reader ends; one that is no workspace is ignored.
ImportWorkspace(w, file) == file \in files /\ AddWorkspace(w, file)

\* Mutant: the deleted workspace stays the active one.
DeleteWorkspaceKeepsActive(w) ==
    /\ AtTester(w) /\ Len(window[w].workspaces) > 1
    /\ Persist(w, Without(window[w].workspaces, window[w].active), window[w].active)
    /\ UNCHANGED <<configVars, files, shares, minted>>

\* The panel deletes the active workspace, and offers it while there are two.
DeleteWorkspace(w) ==
    LET left == Without(window[w].workspaces, window[w].active) IN
    /\ AtTester(w) /\ Len(window[w].workspaces) > 1
    /\ Persist(w, left, left[1].id)
    /\ UNCHANGED <<configVars, files, shares, minted>>

SetActiveWorkspace(w, id) ==
    /\ AtTester(w) /\ id \in Ids(window[w].workspaces)
    /\ Persist(w, window[w].workspaces, id)
    /\ UNCHANGED <<configVars, files, shares, minted>>

\* getActiveWorkspace: the panel falls back to the first workspace.
ActiveWorkspace(w) ==
    LET list == window[w].workspaces
        found == {i \in DOMAIN list : list[i].id = window[w].active}
    IN  IF found = {} THEN list[1] ELSE list[CHOOSE i \in found : TRUE]

\* The three edits rewrite the workspace that has the active id.
Edit(w, key, var) ==
    LET list == window[w].workspaces IN
    /\ AtTester(w)
    /\ Persist(w, [i \in DOMAIN list |->
                      IF list[i].id = window[w].active
                      THEN [list[i] EXCEPT !.envVars[key] = var]
                      ELSE list[i]],
               window[w].active)
    /\ UNCHANGED <<configVars, files, shares, minted>>

\* The panel adds a variable, or replaces the one with that name; what it adds
\* is never secret.
AddEnvVar(w, key, value) ==
    Edit(w, key, [value |-> value, isSecret |-> FALSE])

\* The rows of the panel: a value is edited or a variable removed.
Shows(w, key) == ActiveWorkspace(w).envVars[key] # NoVar

UpdateEnvVar(w, key, value) ==
    /\ AtTester(w) /\ Shows(w, key)
    /\ Edit(w, key, [ActiveWorkspace(w).envVars[key] EXCEPT !.value = value])

RemoveEnvVar(w, key) == AtTester(w) /\ Shows(w, key) /\ Edit(w, key, NoVar)

\* An exported file has every variable that is not secret.
ExportWorkspace(w) ==
    /\ AtTester(w)
    /\ files' = files \cup
          {[k \in Keys |-> IF ActiveWorkspace(w).envVars[k].isSecret THEN NoVar
                           ELSE ActiveWorkspace(w).envVars[k]]}
    /\ UNCHANGED <<configVars, workspaces, active, minted, window, shares>>

------------------------------------------------------------------------------
ConfigStep(w) ==
    \/ \E n \in Names : SaveForm(w, n)
    \/ \E id \in Ids(window[w].configs) : DeleteConfig(w, id)

ShareStep ==
    \/ \E t \in Tokens, n \in Names : CreateShare(t, n)
    \/ \E t \in Tokens : ExpireShare(t)
    \/ \E w \in Windows : SharedAnswered(w) \/ ImportShared(w) \/ BackToTester(w)

WorkspaceStep(w) ==
    \/ CreateWorkspace(w)
    \/ \E f \in files : ImportWorkspace(w, f)
    \/ DeleteWorkspace(w)
    \/ \E id \in Ids(window[w].workspaces) : SetActiveWorkspace(w, id)
    \/ \E k \in Keys, v \in Values : AddEnvVar(w, k, v) \/ UpdateEnvVar(w, k, v)
    \/ \E k \in Keys : RemoveEnvVar(w, k)
    \/ ExportWorkspace(w)

StorageNext ==
    \/ \E w \in Windows :
          \/ OpenTester(w) \/ CloseWindow(w) \/ ConfigStep(w) \/ WorkspaceStep(w)
          \/ \E t \in Tokens : OpenShared(w, t)
    \/ ShareStep

StorageSpec == StorageInit /\ [][StorageNext]_storageVars

------------------------------------------------------------------------------
(* Properties.                                                              *)

\* The active workspace exists, in every window and in what the next window
\* will load, whichever windows created, deleted, imported and chose
\* workspaces, in any order, from copies of different ages.  Otherwise the
\* panel would show the first workspace and drop every edit, for the edits go
\* to the workspace with the active id (workspaceStore.ts:137-178).
ActiveExists ==
    /\ (workspaces = <<>>) = (active = 0)
    /\ workspaces # <<>> => active \in Ids(workspaces)
    /\ \A w \in Windows :
          window[w].open => window[w].active \in Ids(window[w].workspaces)

\* A saved configuration stays stored until somebody deletes it, and does not
\* come back then, however many windows with copies of different ages write the
\* whole list over each other's; but for one that was saved or deleted while
\* another window was open, whose copy goes on without that change
\* (useSavedConfigs.ts:6-66).
KeptUntilDeleted ==
    \A id \in (1..saved) \ contested : id \in Ids(configs) <=> id \notin removed
==============================================================================
