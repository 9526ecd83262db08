---------------------------- MODULE ExitNodeStore ----------------------------
(***************************************************************************)
(* The exit node choice and the two network settings (backend.go): each is  *)
(* kept in the live preferences of the backend, which a start resets, and   *)
(* in a file of the state directory, which the UI's process and the         *)
(* extension's share.  setExitNode and setNetworkSetting write both,        *)
(* restoreBackendPreferences copies the files into the preferences at each  *)
(* start, snapshot and exitNodes write the choice file when it is empty,    *)
(* logout removes it, and vpnConfig reads both.                             *)
(*                                                                          *)
(* The calls run on threads of their own; the UI keeps one of each kind     *)
(* under way.  A file is written as <path>.tmp, shared by all writers, and  *)
(* renamed.  An empty and a missing choice file read the same.              *)
(***************************************************************************)
EXTENDS Naturals

CONSTANTS
    Nodes,             \* exit nodes
    Workloads,         \* sets of calls that run side by side
    MaxStart, MaxLogin \* bounds on starts and logins

ASSUME BoundsAssumption == MaxStart \in Nat /\ MaxLogin \in Nat \ {0}

None == "none"         \* no exit node
Keys == {"routeAll", "lan"}
Choices == Nodes \cup {None}
Settings == [Keys -> BOOLEAN]
Default == [k \in Keys |-> k = "routeAll"]

VARIABLES
    up, starting,      \* b.client # nil; b.starting
    starts, logins, account,   \* account: the tailnet logged in to, 0 if none
    exit, live,        \* the live preferences: ExitNodeID; the settings
    shown,             \* the peer whose PeerStatus.ExitNode is set; lags behind exit
    offered,           \* external: nodes of the netmap that offer an exit
    choice, choiceTmp, \* exit-node-choice; what its .tmp holds, {} if there is none
    saved, savedTmp,   \* network-preferences.json and its .tmp likewise
    call,              \* what each call of the workload is doing
    restore,           \* what the start goroutine is doing
    late,              \* the restores that their start's stop did not end
    owner,             \* account the stored choice was made in
    asked, answered,   \* the user's last exit node request; it was answered OK
    open,              \* the last one that was, and those made since
    wanted,            \* the settings whose update was answered OK
    beside,            \* those whose update ran beside a late restore
    config             \* the last VPN configuration handed out

backend == <<up, starting, starts, logins, account>>
prefs == <<exit, live>>
files == <<choice, choiceTmp, saved, savedTmp>>
user == <<asked, answered, open, wanted, beside>>
vars == <<backend, prefs, shown, offered, files, call, restore, late, owner, user, config>>

Idle == [at |-> "idle", id |-> None, value |-> FALSE, read |-> Default, account |-> 0]
NoConfig == [exitRoute |-> TRUE, choices |-> {}]

Init ==
    /\ up = FALSE /\ starting = FALSE /\ starts = 0 /\ logins = 1 /\ account = 1
    /\ exit = None /\ live = Default /\ shown = None /\ offered = Nodes
    /\ choice = None /\ choiceTmp = {} /\ saved = Default /\ savedTmp = {}
    /\ \E callers \in Workloads : call = [k \in callers |-> Idle]
    /\ restore = Idle /\ late = {}
    /\ owner = 0 /\ asked = None /\ answered = FALSE /\ open = {None}
    /\ wanted = Default /\ beside = {}
    /\ config = NoConfig

Callers == DOMAIN call
Running == up /\ account # 0
Goto(k, at) == call' = [call EXCEPT ![k].at = at]
Return(k) == call' = [call EXCEPT ![k] = Idle]
At(k, at) == k \in Callers /\ call[k].at = at
-----------------------------------------------------------------------------
(* Backend *)

\* The process starts a backend; its preferences are those of a new node.
Start ==
    /\ ~up /\ starts < MaxStart
    /\ up' = TRUE /\ starting' = TRUE /\ starts' = starts + 1
    /\ exit' = None /\ live' = Default /\ shown' = None
    /\ restore' = [Idle EXCEPT !.at = "wait", !.id = choice, !.read = saved]
    /\ UNCHANGED <<logins, account, offered, files, call, late, owner, user, config>>

\* stop: the start goroutine's context is cancelled, which a restore past its EditPrefs
\* does not look at; calls under way go on.  The UI hands its backend over when the
\* settings' updates are answered.
Stop ==
    /\ up /\ \A k \in Callers \cap Keys : At(k, "idle")
    /\ up' = FALSE /\ starting' = FALSE /\ restore' = Idle
    /\ late' = late \cup (IF restore.at \in {"tmp", "rename"}
                         THEN {[start |-> starts, at |-> restore.at, read |-> restore.read]}
                         ELSE {})
    /\ UNCHANGED <<starts, logins, account, prefs, shown, offered, files, call, owner,
                   user, config>>

\* The process is killed; the files stay, and the late restores of the other process.
Crash ==
    /\ up
    /\ up' = FALSE /\ starting' = FALSE /\ restore' = Idle
    /\ late' \in SUBSET late
    /\ call' = [k \in Callers |-> Idle]
    /\ UNCHANGED <<starts, logins, account, prefs, shown, offered, files, owner, user,
                   config>>

\* restoreBackendPreferences: one EditPrefs once the chosen node is in the netmap.
RestoreApply ==
    /\ restore.at = "wait"
    /\ restore.id = None \/ (Running /\ restore.id \in offered)
    /\ live' = restore.read
    /\ exit' = IF restore.id = None THEN exit ELSE restore.id
    /\ restore' = [restore EXCEPT !.at = "tmp"]
    /\ UNCHANGED <<backend, shown, offered, files, call, late, owner, user, config>>

\* The settings are written back.  An error is ignored, and the backend is ready; it is
\* so too after 15 s without the node.
RestoreTmpDefault ==
    /\ restore.at = "tmp"
    /\ savedTmp' = {Default}
    /\ restore' = [restore EXCEPT !.at = "rename"]
    /\ UNCHANGED <<backend, prefs, shown, offered, choice, choiceTmp, saved, call, late,
                   owner, user, config>>
RestoreTmp ==
    /\ restore.at = "tmp"
    /\ \/ /\ savedTmp' = {restore.read}
          /\ restore' = [restore EXCEPT !.at = "rename"] /\ UNCHANGED starting
       \/ UNCHANGED savedTmp /\ restore' = Idle /\ starting' = FALSE
    /\ UNCHANGED <<up, starts, logins, account, prefs, shown, offered, choice, choiceTmp,
                   saved, call, late, owner, user, config>>

\* It fails when another writer has taken the file.
RenameSaved ==
    /\ saved' \in (IF savedTmp = {} THEN {saved} ELSE savedTmp)
    /\ savedTmp' = {}

RestoreRename ==
    /\ restore.at = "rename"
    /\ RenameSaved
    /\ restore' = Idle /\ starting' = FALSE
    /\ UNCHANGED <<up, starts, logins, account, prefs, shown, offered, choice, choiceTmp,
                   call, late, owner, user, config>>

RestoreDeadline ==
    /\ restore.at = "wait"
    /\ restore' = Idle /\ starting' = FALSE
    /\ UNCHANGED <<up, starts, logins, account, prefs, shown, offered, files, call, late,
                   owner, user, config>>

\* A restore whose start was stopped writes the settings it has read, and leaves the
\* controller alone.
LateTmp(l) ==
    /\ l.at = "tmp"
    /\ \/ /\ savedTmp' = {l.read}
          /\ late' = (late \ {l}) \cup {[l EXCEPT !.at = "rename"]}
       \/ UNCHANGED savedTmp /\ late' = late \ {l}
    /\ UNCHANGED <<backend, prefs, shown, offered, choice, choiceTmp, saved, call, restore,
                   owner, user, config>>

LateRename(l) ==
    /\ l.at = "rename"
    /\ RenameSaved
    /\ late' = late \ {l}
    /\ UNCHANGED <<backend, prefs, shown, offered, choice, choiceTmp, call, restore, owner,
                   user, config>>

RestoreStep == RestoreApply \/ RestoreTmp \/ RestoreRename \/ RestoreDeadline
LateStep == \E l \in late : LateTmp(l) \/ LateRename(l)
-----------------------------------------------------------------------------
(* The choice file *)

\* The rename publishes whatever the shared temporary file holds.
RenameChoice(by) ==
    /\ choice' \in choiceTmp
    /\ choiceTmp' = {}
    /\ owner' = IF choice' = None THEN 0 ELSE by

\* It fails when another writer has taken the file.
RenameFails == choiceTmp = {} /\ UNCHANGED <<choice, choiceTmp, owner>>

\* snapshot and exitNodes: Status, then the file, then the write if it is empty.
QueryStatus ==
    /\ At("query", "idle") /\ Running /\ shown # None
    /\ call' = [call EXCEPT !["query"] = [Idle EXCEPT !.at = "read", !.id = shown,
                                                      !.account = account]]
    /\ UNCHANGED <<backend, prefs, shown, offered, files, restore, late, owner, user,
                   config>>

QueryRead ==
    /\ At("query", "read")
    /\ IF choice = None THEN Goto("query", "tmp") ELSE Return("query")
    /\ UNCHANGED <<backend, prefs, shown, offered, files, restore, late, owner, user,
                   config>>

QueryTmp ==
    /\ At("query", "tmp")
    /\ \/ choiceTmp' = {call["query"].id} /\ Goto("query", "rename")
       \/ UNCHANGED choiceTmp /\ Return("query")
    /\ UNCHANGED <<backend, prefs, shown, offered, choice, saved, savedTmp, restore, late,
                   owner, user, config>>

QueryRename ==
    /\ At("query", "rename")
    /\ RenameChoice(call["query"].account) \/ RenameFails
    /\ Return("query")
    /\ UNCHANGED <<backend, prefs, shown, offered, saved, savedTmp, restore, late, user,
                   config>>

\* setExitNode: the node must be in the netmap; EditPrefs, then the file.  The UI
\* makes no request while it connects, and connects when its requests are answered.
SetBegin(id) ==
    /\ At("set", "idle") /\ Running /\ id \in offered \cup {None} /\ ~At("config", "file")
    /\ asked' = id /\ answered' = FALSE /\ open' = open \cup {id}
    /\ call' = [call EXCEPT !["set"] = [Idle EXCEPT !.at = "edit", !.id = id,
                                                    !.account = account]]
    /\ UNCHANGED <<backend, prefs, shown, offered, files, restore, late, owner, wanted,
                   beside, config>>

SetEdit ==
    /\ At("set", "edit")
    /\ \/ up /\ exit' = call["set"].id /\ Goto("set", "tmp")
       \/ UNCHANGED exit /\ Return("set")
    /\ UNCHANGED <<backend, live, shown, offered, files, restore, late, owner, user,
                   config>>

SetTmp ==
    /\ At("set", "tmp")
    /\ \/ choiceTmp' = {call["set"].id} /\ Goto("set", "rename")
       \/ UNCHANGED choiceTmp /\ Return("set")
    /\ UNCHANGED <<backend, prefs, shown, offered, choice, saved, savedTmp, restore, late,
                   owner, user, config>>

SetRename ==
    /\ At("set", "rename")
    /\ \/ RenameChoice(call["set"].account) /\ open' = {asked} /\ answered' = TRUE
       \/ RenameFails /\ UNCHANGED <<open, answered>>
    /\ Return("set")
    /\ UNCHANGED <<backend, prefs, shown, offered, saved, savedTmp, restore, late, asked,
                   wanted, beside, config>>
-----------------------------------------------------------------------------
(* The settings file *)

\* History: an update that begins while a late restore is under way, and one that is
\* answered when none is.
BeginsBeside(k) == beside' = IF late = {} THEN beside ELSE beside \cup {k}
EndsBeside(k) == beside' = IF late = {} THEN beside \ {k} ELSE beside

\* setNetworkSetting: the file is read, one key changed, EditPrefs, the file written.
NetBegin(k, value) ==
    /\ At(k, "idle") /\ up /\ ~starting
    /\ BeginsBeside(k)
    /\ call' = [call EXCEPT ![k] = [Idle EXCEPT !.at = "edit", !.value = value,
                                               !.read = [saved EXCEPT ![k] = value]]]
    /\ UNCHANGED <<backend, prefs, shown, offered, files, restore, late, owner, asked,
                   answered, open, wanted, config>>

NetEdit(k) ==
    /\ At(k, "edit")
    /\ \/ up /\ live' = [live EXCEPT ![k] = call[k].value] /\ Goto(k, "tmp")
       \/ UNCHANGED live /\ Return(k)
    /\ UNCHANGED <<backend, exit, shown, offered, files, restore, late, owner, user,
                   config>>

NetTmp(k) ==
    /\ At(k, "tmp")
    /\ \/ savedTmp' = {call[k].read} /\ Goto(k, "rename")
       \/ UNCHANGED savedTmp /\ Return(k)
    /\ UNCHANGED <<backend, prefs, shown, offered, choice, choiceTmp, saved, restore, late,
                   owner, user, config>>

NetRename(k) ==
    /\ At(k, "rename")
    /\ \/ savedTmp = {} /\ UNCHANGED <<saved, wanted, beside>>
       \/ /\ saved' \in savedTmp
          /\ wanted' = [wanted EXCEPT ![k] = call[k].value]
          /\ EndsBeside(k)
    /\ savedTmp' = {}
    /\ Return(k)
    /\ UNCHANGED <<backend, prefs, shown, offered, choice, choiceTmp, restore, late, owner,
                   asked, answered, open, config>>
-----------------------------------------------------------------------------
(* logout, vpnConfig *)

\* client.Logout forgets the node's preferences; the file goes afterwards.
LogoutRequest ==
    /\ At("logout", "idle") /\ Running /\ ~starting
    /\ account' = 0 /\ exit' = None /\ live' = Default /\ shown' = None
    /\ Goto("logout", "remove")
    /\ UNCHANGED <<up, starting, starts, logins, offered, files, restore, late, owner,
                   user, config>>

LogoutRemove ==
    /\ At("logout", "remove")
    /\ choice' = None /\ owner' = 0
    /\ asked' = None /\ answered' = FALSE /\ open' = {None}
    /\ Return("logout")
    /\ UNCHANGED <<backend, prefs, shown, offered, choiceTmp, saved, savedTmp, restore,
                   late, wanted, beside, config>>

\* The user logs in to another tailnet once logout has answered.
Login ==
    /\ up /\ account = 0 /\ logins < MaxLogin /\ ~At("logout", "remove")
    /\ logins' = logins + 1 /\ account' = logins'
    /\ UNCHANGED <<up, starting, starts, prefs, shown, offered, files, call, restore, late,
                   owner, user, config>>

\* vpnroute.Build: a peer is the exit node by its status or by the preferences.
HasExitRoute == \E n \in offered : n = shown \/ n = exit

ConfigPrefs ==
    /\ At("config", "idle") /\ Running /\ ~starting
    /\ \A k \in Callers \ {"query", "config"} : call[k].at = "idle"
    /\ call' = [call EXCEPT !["config"] = [Idle EXCEPT !.at = "file", !.id = exit,
                                                       !.value = HasExitRoute]]
    /\ UNCHANGED <<backend, prefs, shown, offered, files, restore, late, owner, user,
                   config>>

\* The stored choice must be in force and have its route.
ConfigAllowedUnrestored == TRUE
ConfigAllowed ==
    choice # None => choice = call["config"].id /\ call["config"].value

ConfigFile ==
    /\ At("config", "file")
    /\ config' = IF ConfigAllowed
                 THEN [exitRoute |-> call["config"].value, choices |-> open]
                 ELSE NoConfig
    /\ Return("config")
    /\ UNCHANGED <<backend, prefs, shown, offered, files, restore, late, owner, user>>
-----------------------------------------------------------------------------
\* The status catches up with the preferences; a node leaves or joins the netmap.
Netmap ==
    /\ \/ up /\ shown # exit /\ shown' = exit /\ UNCHANGED offered
       \/ \E n \in Nodes : offered' \in {offered \ {n}, offered \cup {n}} \ {offered}
                          /\ UNCHANGED shown
    /\ UNCHANGED <<backend, prefs, files, call, restore, late, owner, user, config>>

Query == QueryStatus \/ QueryRead \/ QueryTmp \/ QueryRename
Set == \/ \E id \in Choices : SetBegin(id)
       \/ SetEdit \/ SetTmp \/ SetRename
Net(k) == \/ \E value \in BOOLEAN : NetBegin(k, value)
          \/ NetEdit(k) \/ NetTmp(k) \/ NetRename(k)

Next ==
    \/ Start \/ Stop \/ Crash \/ RestoreStep \/ LateStep
    \/ Query \/ Set \/ \E k \in Keys : Net(k)
    \/ LogoutRequest \/ LogoutRemove \/ Login \/ ConfigPrefs \/ ConfigFile
    \/ Netmap

Spec == Init /\ [][Next]_vars
-----------------------------------------------------------------------------
(* Properties *)

Quiet == restore.at = "idle" /\ late = {} /\ \A k \in Callers : call[k].at = "idle"

\* Every variable keeps its type, and a temporary file is one file.
TypeOK ==
    /\ exit \in Choices /\ choice \in Choices /\ live \in Settings /\ saved \in Settings
    /\ choiceTmp \in {{}} \cup {{c} : c \in Choices}
    /\ savedTmp \in {{}} \cup {{c} : c \in Settings}
    /\ shown \in Choices /\ offered \subseteq Nodes /\ account \in 0 .. MaxLogin
    /\ owner \in 0 .. MaxLogin /\ (starting => restore.at # "idle")
    /\ \A l \in late : l.at \in {"tmp", "rename"} /\ l.read \in Settings

\* A user whose last answered request chose an exit node, and who has not asked for
\* none since, never gets a VPN configuration without a default route, whatever
\* restores, crashes and netmaps do.
ExitFailsClosed == config.exitRoute \/ None \in config.choices

\* The answered choice is the stored one ("stores the choice in the same persistent
\* preferences", "An empty ID disables exit-node use").
ChoiceKept == Quiet /\ answered => choice = asked

\* A stored choice is of the account that is logged in ("must not leak into a later
\* login").
ChoiceOfThisAccount == account # 0 => owner \in {0, account}

\* A setting that was answered OK is in the file for the extension's process
\* ("persists the app-level choice for the VPN Extension process").
SettingsPersisted == Quiet => saved = wanted

\* The same for every setting whose last update had no restore of a stopped start beside
\* it (restoreBackendPreferences writes without another look at its context).
SettingsStored == \A k \in Keys \ beside : saved[k] = wanted[k]

\* The settings file holds what was answered, through crashes, stops, current and late
\* restores, and a backend that says it is starting has its restore under way.
StoreInv == TypeOK /\ SettingsStored
=============================================================================
