------------------------- MODULE ExitNodeStoreProofs -------------------------
(***************************************************************************)
(* Proofs about ExitNodeStore, for any set of exit nodes, any workloads and *)
(* any bounds.  The arguments.  An empty choice file means that the user    *)
(* asked for no exit node and no other request was answered since: only a   *)
(* request for none writes an empty .tmp, and a .tmp that was left behind   *)
(* is written over before it is renamed.  And a restore, also one that its  *)
(* stop did not end, writes back what the file holds, unless a setting was  *)
(* updated beside it.  At the end, when an answered choice is the stored    *)
(* one.                                                                     *)
(***************************************************************************)
EXTENDS ExitNodeStore, TLAPS

Steps == {"idle", "wait", "tmp", "rename", "read", "edit", "remove", "file"}
Calls == [at : Steps, id : Choices, value : BOOLEAN, read : Settings, account : 0 .. MaxLogin]

\* The types of all variables but starts.
FullType ==
    /\ up \in BOOLEAN /\ starting \in BOOLEAN /\ logins \in 1 .. MaxLogin
    /\ account \in 0 .. MaxLogin /\ owner \in 0 .. MaxLogin
    /\ exit \in Choices /\ choice \in Choices /\ live \in Settings /\ saved \in Settings
    /\ choiceTmp \in {{}} \cup {{c} : c \in Choices}
    /\ savedTmp \in {{}} \cup {{c} : c \in Settings}
    /\ shown \in Choices /\ offered \subseteq Nodes
    /\ call \in [Callers -> Calls] /\ Callers \in Workloads /\ restore \in Calls
    /\ asked \in Choices /\ open \subseteq Choices /\ wanted \in Settings

\* A backend is starting while its restore is under way.
StartInv ==
    /\ starting => restore.at # "idle"
    /\ restore.at # "idle" => starting

\* None is stored, or about to be, only if it is among the requests since the last
\* answer; what a request for none writes is that request's, and a query writes a node.
ChoiceInv ==
    /\ choice = None => None \in open
    /\ None \in choiceTmp => None \in open
    /\ "set" \in Callers =>
         /\ call["set"].at # "idle" /\ call["set"].id = None => asked = None /\ None \in open
         /\ call["set"].at = "rename" /\ None \in choiceTmp => asked = None
    /\ "query" \in Callers => (call["query"].at # "idle" => call["query"].id # None)

\* The late restores are past their EditPrefs.
Lates == [start : Nat, at : {"tmp", "rename"}, read : Settings]
LateInv == starts \in Nat /\ late \subseteq Lates

\* The inductive invariant of the choice.
IInv == FullType /\ StartInv /\ ChoiceInv /\ ExitFailsClosed

\* Of the two settings' updates a workload has at most one.
OneSetting == \A callers \in Workloads : \A k, l \in callers \cap Keys : k = l

\* A restore has written its .tmp and is about to rename it.
Renaming == restore.at = "rename" \/ \E l \in late : l.at = "rename"

\* Of a setting that had no late restore beside its update: the file, the restores and
\* the .tmp that one of them renames agree.
KeyInv(k) ==
    /\ saved[k] = wanted[k]
    /\ restore.at # "idle" => restore.read[k] = saved[k]
    /\ \A l \in late : l.read[k] = saved[k]
    /\ Renaming => \A c \in savedTmp : c[k] = saved[k]

\* An update that does not run beside a late restore has the file to itself, and any
\* update renames a .tmp of its own when no restore is about to rename one.
UpdateInv(k) ==
    call[k].at # "idle" =>
      /\ up /\ restore.at = "idle" /\ (k \notin beside => late = {})
      /\ call[k].read[k] = call[k].value
      /\ \A j \in Keys \ Callers : call[k].read[j] = saved[j]
      /\ call[k].at = "rename" /\ ~Renaming => savedTmp \subseteq {call[k].read}

\* The inductive invariant of the settings.
SettingInv ==
    /\ beside \subseteq Callers \cap Keys
    /\ \A k \in Keys \ beside : KeyInv(k)
    /\ \A k \in Callers \cap Keys : UpdateInv(k)
-----------------------------------------------------------------------------
USE BoundsAssumption

\* The defaults.
LEMMA IdleType ==
  Default \in Settings /\ None \in Choices /\ Idle \in Calls /\ Idle.at = "idle"
<1>1. Default \in Settings /\ None \in Choices
  BY DEF Default, Settings, Choices
<1>2. QED
  BY <1>1 DEF Idle, Calls, Steps

\* The initial states satisfy the inductive invariant.
LEMMA InitIInv == Init => IInv /\ LateInv /\ SettingInv
<1> SUFFICES ASSUME Init PROVE IInv /\ LateInv /\ SettingInv
  OBVIOUS
<1>1. PICK callers \in Workloads : call = [k \in callers |-> Idle]
  BY DEF Init
<1>2. Callers = callers /\ \A k \in Callers : call[k].at = "idle"
  BY <1>1, IdleType DEF Callers
<1>3. FullType
  <2>1. call \in [Callers -> Calls] /\ Callers \in Workloads /\ restore \in Calls
    BY <1>1, <1>2, IdleType DEF Init
  <2>2. /\ up \in BOOLEAN /\ starting \in BOOLEAN /\ logins \in 1 .. MaxLogin
        /\ account \in 0 .. MaxLogin /\ owner \in 0 .. MaxLogin
    <3>1. up = FALSE /\ starting = FALSE /\ logins = 1 /\ account = 1 /\ owner = 0
      BY DEF Init
    <3>2. logins \in 1 .. MaxLogin /\ account \in 0 .. MaxLogin /\ owner \in 0 .. MaxLogin
      BY <3>1
    <3>3. up \in BOOLEAN /\ starting \in BOOLEAN
      BY <3>1
    <3>4. QED
      BY <3>2, <3>3
  <2>3. /\ choiceTmp \in {{}} \cup {{c} : c \in Choices}
        /\ savedTmp \in {{}} \cup {{c} : c \in Settings}
    BY DEF Init
  <2>4. /\ exit \in Choices /\ choice \in Choices /\ shown \in Choices /\ asked \in Choices
        /\ open \subseteq Choices /\ offered \subseteq Nodes
        /\ live \in Settings /\ saved \in Settings /\ wanted \in Settings
    BY IdleType DEF Init
  <2>5. QED
    BY <2>1, <2>2, <2>3, <2>4 DEF FullType
<1>4. StartInv
  BY IdleType DEF Init, StartInv
<1>5. ChoiceInv
  BY <1>2 DEF Init, ChoiceInv
<1>6. ExitFailsClosed
  BY DEF Init, ExitFailsClosed, NoConfig
<1>7. SettingInv
  BY <1>2, IdleType DEF Init, SettingInv, KeyInv, UpdateInv, Renaming
<1>8. LateInv
  BY DEF Init, LateInv
<1>9. QED
  BY <1>3, <1>4, <1>5, <1>6, <1>7, <1>8 DEF IInv

\* A step of one call leaves the others alone.
LEMMA CallKept ==
  ASSUME IInv, NEW k \in Callers, NEW c \in Calls, call' = [call EXCEPT ![k] = c]
  PROVE  /\ Callers' = Callers /\ call' \in [Callers -> Calls] /\ call'[k] = c
         /\ \A l \in Callers : l # k => call'[l] = call[l]
  BY DEF IInv, FullType, Callers

\* A call that returns, or goes on with what it has.
LEMMA GotoType ==
  ASSUME IInv, NEW k \in Callers, NEW at \in Steps
  PROVE  /\ [call[k] EXCEPT !.at = at] \in Calls
         /\ [call[k] EXCEPT !.at = at].at = at
         /\ [call[k] EXCEPT !.at = at].id = call[k].id
         /\ [call[k] EXCEPT !.at = at].value = call[k].value
         /\ [call[k] EXCEPT !.at = at].read = call[k].read
  BY DEF IInv, FullType, Calls

\* A step of a call that changes neither the choice file nor the user's requests.
LEMMA CallChoice ==
  ASSUME IInv, NEW k \in Callers, NEW c \in Calls, call' = [call EXCEPT ![k] = c],
         k = "query" => c.at = "idle" \/ c.id # None,
         k = "set" => \/ c.at = "idle"
                      \/ c.at # "rename" /\ (c.id = None => asked = None /\ None \in open),
         UNCHANGED <<choice, choiceTmp, asked, open>>
  PROVE  ChoiceInv'
<1>1. /\ Callers' = Callers /\ call'[k] = c
      /\ \A l \in Callers : l # k => call'[l] = call[l]
  BY CallKept
<1>2. QED
  BY <1>1 DEF IInv, ChoiceInv

\* The same for the whole invariant, when nothing but the call, the settings and the
\* configuration changes.
LEMMA CallIInv ==
  ASSUME IInv, NEW k \in Callers, NEW c \in Calls, call' = [call EXCEPT ![k] = c],
         k = "query" => c.at = "idle" \/ c.id # None,
         k = "set" => \/ c.at = "idle"
                      \/ c.at # "rename" /\ (c.id = None => asked = None /\ None \in open),
         UNCHANGED <<up, starting, logins, offered, choice, choiceTmp, restore, owner,
                     asked, open>>,
         account' \in {account, 0}, shown' \in Choices, exit' \in Choices, live' \in Settings, saved' \in Settings,
         savedTmp' \in {{}} \cup {{d} : d \in Settings}, wanted' \in Settings,
         ExitFailsClosed'
  PROVE  IInv'
<1>1. Callers' = Callers /\ call' \in [Callers -> Calls]
  BY CallKept
<1>2. ChoiceInv'
  BY CallChoice
<1>3. FullType'
  BY <1>1 DEF IInv, FullType
<1>4. StartInv'
  BY DEF IInv, StartInv
<1>5. QED
  BY <1>2, <1>3, <1>4 DEF IInv

\* The types of single variables.
LEMMA Types ==
  ASSUME IInv
  PROVE  /\ account \in 0 .. MaxLogin /\ exit \in Choices /\ choice \in Choices /\ live \in Settings
         /\ saved \in Settings /\ savedTmp \in {{}} \cup {{c} : c \in Settings}
         /\ choiceTmp \in {{}} \cup {{c} : c \in Choices}
         /\ shown \in Choices /\ offered \subseteq Nodes /\ wanted \in Settings
         /\ restore \in Calls /\ owner \in 0 .. MaxLogin
         /\ \A k \in Callers : call[k] \in Calls
  BY DEF IInv, FullType
-----------------------------------------------------------------------------
(* The calls *)

\* snapshot and exitNodes, up to the write.
LEMMA QueryIInv ==
  ASSUME IInv, QueryStatus \/ QueryRead
  PROVE  IInv'
<1>0. /\ UNCHANGED <<up, starting, logins, account, exit, live, shown, offered, choice, choiceTmp,
                     saved, savedTmp, restore, owner, asked, open, wanted, config>>
      /\ "query" \in Callers
  BY DEF QueryStatus, QueryRead, At, backend, prefs, files, user
<1>1. \E c \in Calls : call' = [call EXCEPT !["query"] = c] /\ (c.at = "idle" \/ c.id # None)
  <2>1. CASE QueryStatus
    <3> DEFINE c == [Idle EXCEPT !.at = "read", !.id = shown, !.account = account]
    <3>1. c \in Calls /\ c.id = shown
      BY Types, IdleType DEF Calls, Steps
    <3>2. QED
      BY <2>1, <3>1 DEF QueryStatus
  <2>2. CASE QueryRead /\ Return("query")
    BY <2>2, IdleType DEF Return
  <2>3. CASE QueryRead /\ Goto("query", "tmp")
    <3>1. call["query"].id # None
      BY <1>0, <2>3 DEF QueryRead, At, IInv, ChoiceInv
    <3>2. [call["query"] EXCEPT !.at = "tmp"] \in Calls /\ [call["query"] EXCEPT !.at = "tmp"].id # None
      BY <1>0, <3>1, GotoType DEF Steps
    <3>3. QED
      BY <2>3, <3>2 DEF Goto
  <2>4. QED
    BY <2>1, <2>2, <2>3 DEF QueryRead
<1>2. ExitFailsClosed'
  BY <1>0 DEF IInv, ExitFailsClosed
<1>3. QED
  BY <1>0, <1>1, <1>2, Types, CallIInv

\* setExitNode, up to the write.
LEMMA SetIInv ==
  ASSUME IInv, SetEdit
  PROVE  IInv'
<1>0. /\ UNCHANGED <<up, starting, logins, account, live, shown, offered, choice, choiceTmp,
                     saved, savedTmp, restore, owner, asked, open, wanted, config>>
      /\ "set" \in Callers /\ call["set"].at = "edit"
  BY DEF SetEdit, At, backend, files, user
<1>1. \E c \in Calls : /\ call' = [call EXCEPT !["set"] = c]
                       /\ \/ c.at = "idle"
                          \/ c.at # "rename" /\ (c.id = None => asked = None /\ None \in open)
  <2>1. CASE Return("set")
    BY <2>1, IdleType DEF Return
  <2>2. CASE Goto("set", "tmp")
    <3> DEFINE c == [call["set"] EXCEPT !.at = "tmp"]
    <3>1. c \in Calls /\ c.id = call["set"].id /\ c.at = "tmp"
      BY <1>0, GotoType DEF Steps
    <3>2. c.id = None => asked = None /\ None \in open
      BY <1>0, <3>1 DEF IInv, ChoiceInv
    <3>3. call' = [call EXCEPT !["set"] = c]
      BY <2>2 DEF Goto
    <3> HIDE DEF c
    <3>4. QED
      BY <3>1, <3>2, <3>3
  <2>3. QED
    BY <2>1, <2>2 DEF SetEdit
<1>2. exit' \in Choices
  BY <1>0, Types DEF SetEdit, Calls
<1>3. ExitFailsClosed'
  BY <1>0 DEF IInv, ExitFailsClosed
<1>4. QED
  BY <1>0, <1>1, <1>2, <1>3, Types, CallIInv

\* A request of the user is open from its beginning on.
LEMMA SetBeginIInv ==
  ASSUME IInv, NEW id \in Choices, SetBegin(id)
  PROVE  IInv'
<1> DEFINE c == [Idle EXCEPT !.at = "edit", !.id = id, !.account = account]
<1>0. /\ UNCHANGED <<up, starting, logins, account, exit, live, shown, offered, choice, choiceTmp,
                     saved, savedTmp, restore, owner, wanted, config>>
      /\ "set" \in Callers /\ asked' = id /\ open' = open \cup {id}
      /\ call' = [call EXCEPT !["set"] = c]
  BY DEF SetBegin, At, backend, prefs, files
<1>1. c \in Calls /\ c.id = id /\ c.at = "edit"
  BY Types, IdleType DEF Calls, Steps
<1> HIDE DEF c
<1>2. /\ Callers' = Callers /\ call' \in [Callers -> Calls] /\ call'["set"] = c
      /\ \A l \in Callers : l # "set" => call'[l] = call[l]
  BY <1>0, <1>1, CallKept
<1>3. FullType'
  BY <1>0, <1>2 DEF IInv, FullType
<1>4. ChoiceInv'
  BY <1>0, <1>1, <1>2 DEF IInv, ChoiceInv
<1>5. StartInv' /\ ExitFailsClosed'
  BY <1>0 DEF IInv, StartInv, ExitFailsClosed
<1>6. QED
  BY <1>3, <1>4, <1>5 DEF IInv

\* The .tmp is written: by a query with a node, by a request with what was asked for.
LEMMA TmpIInv ==
  ASSUME IInv, QueryTmp \/ SetTmp
  PROVE  IInv'
<1>0. UNCHANGED <<up, starting, logins, account, exit, live, shown, offered, choice, saved,
                  savedTmp, restore, owner, asked, open, wanted, config>>
  BY DEF QueryTmp, SetTmp, backend, prefs, user
<1>1. PICK k \in Callers \cap {"query", "set"} :
        /\ call[k].at = "tmp"
        /\ \/ choiceTmp' = {call[k].id} /\ Goto(k, "rename")
           \/ choiceTmp' = choiceTmp /\ Return(k)
  BY DEF QueryTmp, SetTmp, At
<1>a. /\ k = "query" => call[k].id # None
      /\ k = "set" /\ call[k].id = None => asked = None /\ None \in open
  BY <1>1 DEF IInv, ChoiceInv
<1>2. StartInv' /\ ExitFailsClosed'
  BY <1>0 DEF IInv, StartInv, ExitFailsClosed
<1>3. CASE choiceTmp' = choiceTmp /\ Return(k)
  BY <1>0, <1>2, <1>3, Types, IdleType, CallIInv DEF Return
<1>4. CASE choiceTmp' = {call[k].id} /\ Goto(k, "rename")
  <2> DEFINE c == [call[k] EXCEPT !.at = "rename"]
  <2>1. c \in Calls /\ c.id = call[k].id /\ c.at = "rename" /\ call[k].id \in Choices
    BY GotoType, Types DEF Steps, Calls
  <2>2. call' = [call EXCEPT ![k] = c]
    BY <1>4 DEF Goto
  <2> HIDE DEF c
  <2>3. /\ Callers' = Callers /\ call' \in [Callers -> Calls] /\ call'[k] = c
        /\ \A l \in Callers : l # k => call'[l] = call[l]
    BY <2>1, <2>2, CallKept
  <2>4. FullType'
    <3>1. choiceTmp' \in {{}} \cup {{d} : d \in Choices}
      BY <1>4, <2>1
    <3>2. QED
      BY <1>0, <2>3, <3>1 DEF IInv, FullType
  <2>5. ChoiceInv'
    <3>1. None \in choiceTmp' => call[k].id = None /\ k = "set" /\ asked = None /\ None \in open
      BY <1>4, <1>a, <1>1
    <3>2. CASE k = "set"
      BY <1>0, <1>1, <2>1, <2>3, <3>1, <3>2 DEF IInv, ChoiceInv
    <3>3. CASE k = "query"
      BY <1>0, <1>1, <1>a, <2>1, <2>3, <3>1, <3>3 DEF IInv, ChoiceInv
    <3>4. QED
      BY <3>2, <3>3
  <2>6. QED
    BY <1>2, <2>4, <2>5 DEF IInv
<1>5. QED
  BY <1>1, <1>3, <1>4

\* A return of a call: what is left is what the call's own step changes.
LEMMA ReturnKept ==
  ASSUME IInv, NEW k \in Callers, Return(k)
  PROVE  /\ Callers' = Callers /\ call' \in [Callers -> Calls] /\ call'[k].at = "idle"
         /\ \A l \in Callers : l # k => call'[l] = call[l]
  BY CallKept, IdleType DEF Return

\* The rename publishes what the shared .tmp holds; an empty one is that of an open
\* request, and if the request that renames it is answered, that request was for none.
LEMMA RenameIInv ==
  ASSUME IInv, QueryRename \/ SetRename
  PROVE  IInv'
<1>0. UNCHANGED <<up, starting, logins, account, exit, live, shown, offered, saved,
                  savedTmp, restore, asked, wanted, config>>
  BY DEF QueryRename, SetRename, backend, prefs, user
<1>1. PICK k \in Callers \cap {"query", "set"} :
        /\ call[k].at = "rename" /\ Return(k)
        /\ \/ RenameChoice(call[k].account) /\ (open' = open \/ (k = "set" /\ open' = {asked}))
           \/ RenameFails /\ open' = open
  <2>1. CASE QueryRename
    BY <2>1 DEF QueryRename, At, user
  <2>2. CASE SetRename
    BY <2>2 DEF SetRename, At
  <2>3. QED
    BY <2>1, <2>2
<1>2. /\ Callers' = Callers /\ call' \in [Callers -> Calls] /\ call'[k].at = "idle"
      /\ \A l \in Callers : l # k => call'[l] = call[l]
  BY <1>1, ReturnKept
<1>3. StartInv' /\ ExitFailsClosed'
  BY <1>0 DEF IInv, StartInv, ExitFailsClosed
<1>4. CASE RenameFails /\ open' = open
  <2>1. UNCHANGED <<choice, choiceTmp, owner, open>>
    BY <1>4 DEF RenameFails
  <2>2. QED
    BY <1>0, <1>1, <1>3, <2>1, Types, IdleType, CallIInv DEF Return
<1>5. CASE RenameChoice(call[k].account) /\ (open' = open \/ (k = "set" /\ open' = {asked}))
  <2>1. choice' \in choiceTmp /\ choiceTmp' = {} /\ owner' \in {0, call[k].account}
    BY <1>5 DEF RenameChoice
  <2>2. choice' \in Choices /\ owner' \in 0 .. MaxLogin
    <3>1. call[k].account \in 0 .. MaxLogin /\ 0 \in 0 .. MaxLogin
      BY Types DEF Calls
    <3>2. QED
      BY <2>1, <3>1, Types
  <2>3. FullType'
    <3>1. open' \subseteq Choices
      BY <1>5 DEF IInv, FullType
    <3>2. choiceTmp' \in {{}} \cup {{c} : c \in Choices}
      BY <2>1
    <3>3. QED
      BY <1>0, <1>2, <2>2, <3>1, <3>2 DEF IInv, FullType
  <2>4. ChoiceInv'
    <3>1. choice' = None => None \in open'
      BY <1>1, <1>5, <2>1 DEF IInv, ChoiceInv
    <3>2. "set" \in Callers /\ call'["set"].at # "idle" => k # "set" /\ open' = open
      BY <1>1, <1>2, <1>5
    <3>3. QED
      BY <1>0, <1>1, <1>2, <2>1, <3>1, <3>2 DEF IInv, ChoiceInv
  <2>5. QED
    BY <1>3, <2>3, <2>4 DEF IInv
<1>6. QED
  BY <1>1, <1>4, <1>5

\* What an update changes: its call, one setting that is live, the settings file and its
\* .tmp, and what the user was answered.
LEMMA NetChanges ==
  ASSUME NEW k \in Keys, Net(k)
  PROVE  /\ UNCHANGED <<up, starting, starts, logins, account, exit, shown, offered, choice,
                        choiceTmp, restore, late, owner, asked, answered, open, config>>
         /\ k \in Callers
         /\ live' \in {live, [live EXCEPT ![k] = call[k].value]}
         /\ saved' = saved \/ saved' \in savedTmp
         /\ savedTmp' \in {savedTmp, {}, {call[k].read}}
         /\ wanted' \in {wanted, [wanted EXCEPT ![k] = call[k].value]}
<1>1. ASSUME NEW value \in BOOLEAN, NetBegin(k, value)
      PROVE  /\ UNCHANGED <<up, starting, starts, logins, account, exit, live, shown, offered,
                            choice, choiceTmp, saved, savedTmp, restore, late, owner, asked,
                            answered, open, wanted, config>>
             /\ k \in Callers
  BY <1>1, Zenon DEF NetBegin, At, backend, prefs, files
<1>2. ASSUME NetEdit(k)
      PROVE  /\ UNCHANGED <<up, starting, starts, logins, account, exit, shown, offered, choice,
                            choiceTmp, saved, savedTmp, restore, late, owner, asked, answered,
                            open, wanted, config>>
             /\ k \in Callers
             /\ live' = live \/ live' = [live EXCEPT ![k] = call[k].value]
  BY <1>2, Zenon DEF NetEdit, At, backend, files, user
<1>3. ASSUME NetTmp(k)
      PROVE  /\ UNCHANGED <<up, starting, starts, logins, account, exit, live, shown, offered,
                            choice, choiceTmp, saved, restore, late, owner, asked, answered,
                            open, wanted, config>>
             /\ k \in Callers
             /\ savedTmp' = savedTmp \/ savedTmp' = {call[k].read}
  BY <1>3, Zenon DEF NetTmp, At, backend, prefs, user
<1>4. ASSUME NetRename(k)
      PROVE  /\ UNCHANGED <<up, starting, starts, logins, account, exit, live, shown, offered,
                            choice, choiceTmp, restore, late, owner, asked, answered, open,
                            config>>
             /\ k \in Callers
             /\ saved' = saved \/ saved' \in savedTmp
             /\ savedTmp' = {}
             /\ wanted' = wanted \/ wanted' = [wanted EXCEPT ![k] = call[k].value]
  BY <1>4, Zenon DEF NetRename, At, backend, prefs
<1>5. QED
  BY <1>1, <1>2, <1>3, <1>4, Zenon DEF Net

\* setNetworkSetting leaves the choice alone.
LEMMA NetIInv ==
  ASSUME IInv, NEW k \in Keys, Net(k)
  PROVE  IInv'
<1>0. /\ UNCHANGED <<up, starting, logins, account, exit, shown, offered, choice, choiceTmp,
                     restore, owner, asked, open, config>>
      /\ k \in Callers /\ k \notin {"query", "set"}
  BY NetChanges DEF Keys
<1>1. \E c \in Calls : call' = [call EXCEPT ![k] = c]
  <2>1. ASSUME NEW value \in BOOLEAN, NetBegin(k, value)
        PROVE  \E c \in Calls : call' = [call EXCEPT ![k] = c]
    <3> DEFINE read == [saved EXCEPT ![k] = value]
               c == [Idle EXCEPT !.at = "edit", !.value = value, !.read = read]
    <3>1. read \in Settings
      BY Types DEF Settings
    <3> HIDE DEF read
    <3>2. c \in Calls
      BY <3>1, IdleType DEF Calls, Steps
    <3>3. call' = [call EXCEPT ![k] = c]
      BY <2>1 DEF NetBegin, read
    <3>4. QED
      BY <3>2, <3>3
  <2>2. CASE Return(k)
    BY <2>2, IdleType DEF Return
  <2>3. ASSUME NEW at \in Steps, Goto(k, at) PROVE \E c \in Calls : call' = [call EXCEPT ![k] = c]
    BY <1>0, <2>3, GotoType DEF Goto
  <2>4. QED
    BY <2>1, <2>2, <2>3 DEF Net, NetEdit, NetTmp, NetRename, Steps
<1>2. live' \in Settings
  BY <1>0, Types, NetChanges DEF Settings, Calls
<1>3. saved' \in Settings /\ savedTmp' \in {{}} \cup {{c} : c \in Settings}
  <2>1. saved' = saved \/ saved' \in savedTmp
    BY NetChanges
  <2>2. savedTmp' \in {savedTmp, {}, {call[k].read}}
    BY NetChanges
  <2>3. call[k].read \in Settings
    BY <1>0, Types DEF Calls
  <2>4. QED
    BY <2>1, <2>2, <2>3, Types
<1>4. wanted' \in Settings
  BY <1>0, Types, NetChanges DEF Settings, Calls
<1>5. ExitFailsClosed'
  BY <1>0 DEF IInv, ExitFailsClosed
<1>6. QED
  BY <1>0, <1>1, <1>2, <1>3, <1>4, <1>5, Types, CallIInv

\* logout resets the live preferences.
LEMMA LogoutRequestIInv ==
  ASSUME IInv, LogoutRequest
  PROVE  IInv'
<1>0. /\ UNCHANGED <<up, starting, logins, offered, choice, choiceTmp, saved, savedTmp, restore,
                     owner, asked, open, wanted, config>>
      /\ "logout" \in Callers /\ Goto("logout", "remove")
      /\ account' = 0 /\ exit' = None /\ live' = Default /\ shown' = None
  BY DEF LogoutRequest, At, files, user
<1>1. \E c \in Calls : call' = [call EXCEPT !["logout"] = c]
  BY <1>0, GotoType DEF Goto, Steps
<1>2. ExitFailsClosed'
  BY <1>0 DEF IInv, ExitFailsClosed
<1>3. QED
  BY <1>0, <1>1, <1>2, Types, IdleType, CallIInv

\* Then it removes the choice file; the user has no open request.
LEMMA LogoutRemoveIInv ==
  ASSUME IInv, LogoutRemove
  PROVE  IInv'
<1>0. /\ UNCHANGED <<up, starting, logins, account, exit, live, shown, offered, choiceTmp, saved,
                     savedTmp, restore, wanted, config>>
      /\ "logout" \in Callers /\ Return("logout")
      /\ choice' = None /\ owner' = 0 /\ asked' = None /\ open' = {None}
  BY DEF LogoutRemove, At, backend, prefs
<1>1. /\ Callers' = Callers /\ call' \in [Callers -> Calls]
      /\ \A l \in Callers : l # "logout" => call'[l] = call[l]
  BY <1>0, ReturnKept
<1>2. FullType'
  <2>1. owner' \in 0 .. MaxLogin
    BY <1>0
  <2>2. QED
    BY <1>0, <1>1, <2>1, IdleType DEF IInv, FullType
<1>3. ChoiceInv'
  BY <1>0, <1>1 DEF IInv, ChoiceInv
<1>4. StartInv' /\ ExitFailsClosed'
  BY <1>0 DEF IInv, StartInv, ExitFailsClosed
<1>5. QED
  BY <1>2, <1>3, <1>4 DEF IInv

\* vpnConfig hands out a configuration without the exit route only when the choice file
\* is empty, and then none is among the user's open requests.
LEMMA ConfigIInv ==
  ASSUME IInv, ConfigPrefs \/ ConfigFile
  PROVE  IInv'
<1>0. /\ UNCHANGED <<up, starting, logins, account, exit, live, shown, offered, choice, choiceTmp,
                     saved, savedTmp, restore, owner, asked, open, wanted>>
      /\ "config" \in Callers
  BY DEF ConfigPrefs, ConfigFile, At, backend, prefs, files, user
<1>1. CASE ConfigPrefs
  <2> DEFINE c == [Idle EXCEPT !.at = "file", !.id = exit, !.value = HasExitRoute]
  <2>1. HasExitRoute \in BOOLEAN
    BY DEF HasExitRoute
  <2>2. c \in Calls
    BY <2>1, Types, IdleType DEF Calls, Steps
  <2>3. call' = [call EXCEPT !["config"] = c] /\ config' = config
    BY <1>1 DEF ConfigPrefs
  <2> HIDE DEF c
  <2>4. ExitFailsClosed'
    BY <2>3 DEF IInv, ExitFailsClosed
  <2>5. QED
    BY <1>0, <2>2, <2>3, <2>4, Types, CallIInv
<1>2. CASE ConfigFile
  <2>1. ExitFailsClosed'
    <3>1. CASE ConfigAllowed
      <4>1. config'.exitRoute = call["config"].value /\ config'.choices = open
        BY <1>2, <3>1 DEF ConfigFile
      <4>2. call["config"].value \/ None \in open
        BY <3>1 DEF ConfigAllowed, IInv, ChoiceInv
      <4>3. QED
        BY <4>1, <4>2 DEF ExitFailsClosed
    <3>2. CASE ~ConfigAllowed
      BY <1>2, <3>2 DEF ConfigFile, NoConfig, ExitFailsClosed
    <3>3. QED
      BY <3>1, <3>2
  <2>2. call' = [call EXCEPT !["config"] = Idle]
    BY <1>2 DEF ConfigFile, Return
  <2>3. QED
    BY <1>0, <2>1, <2>2, Types, IdleType, CallIInv
<1>3. QED
  BY <1>1, <1>2
-----------------------------------------------------------------------------
(* Starts, stops and the netmap *)

\* Steps that touch neither calls, nor the choice file, nor the user's requests.
LEMMA WorldIInv ==
  ASSUME IInv, UNCHANGED <<choice, choiceTmp, call, owner, asked, open, wanted, config>>,
         up' \in BOOLEAN, starting' \in BOOLEAN, logins' \in 1 .. MaxLogin, account' \in 0 .. MaxLogin,
         exit' \in Choices, live' \in Settings, shown' \in Choices, offered' \subseteq Nodes,
         saved' \in Settings, savedTmp' \in {{}} \cup {{c} : c \in Settings},
         restore' \in Calls, StartInv'
  PROVE  IInv'
<1>1. FullType'
  BY DEF IInv, FullType, Callers
<1>2. ChoiceInv' /\ ExitFailsClosed'
  BY DEF IInv, ChoiceInv, ExitFailsClosed, Callers
<1>3. QED
  BY <1>1, <1>2 DEF IInv

\* The types of the backend's variables.
LEMMA BackendTypes ==
  ASSUME IInv
  PROVE  up \in BOOLEAN /\ starting \in BOOLEAN /\ logins \in 1 .. MaxLogin
  BY DEF IInv, FullType

\* The restore reads the files at the start.
LEMMA StartIInv ==
  ASSUME IInv, Start
  PROVE  IInv'
<1>0. /\ UNCHANGED <<choice, choiceTmp, call, owner, asked, open, wanted, config, logins, account,
                     offered, saved, savedTmp>>
      /\ up' = TRUE /\ starting' = TRUE /\ exit' = None /\ live' = Default /\ shown' = None
      /\ restore' = [Idle EXCEPT !.at = "wait", !.id = choice, !.read = saved]
  BY DEF Start, files, user
<1>1. restore' \in Calls /\ restore'.at = "wait"
  BY <1>0, Types, IdleType DEF Calls, Steps
<1>2. StartInv'
  BY <1>0, <1>1 DEF StartInv
<1>3. up' \in BOOLEAN /\ starting' \in BOOLEAN
  BY <1>0
<1>4. QED
  BY <1>0, <1>1, <1>2, <1>3, Types, BackendTypes, IdleType, WorldIInv

\* A stop ends the restore.
LEMMA StopIInv ==
  ASSUME IInv, Stop
  PROVE  IInv'
<1>0. /\ UNCHANGED <<choice, choiceTmp, call, owner, asked, open, wanted, config, logins, account,
                     exit, live, shown, offered, saved, savedTmp>>
      /\ up' = FALSE /\ starting' = FALSE /\ restore' = Idle
  BY DEF Stop, prefs, files, user
<1>1. StartInv'
  BY <1>0, IdleType DEF StartInv
<1>2. up' \in BOOLEAN /\ starting' \in BOOLEAN
  BY <1>0
<1>3. QED
  BY <1>0, <1>1, <1>2, Types, BackendTypes, IdleType, WorldIInv

\* A killed process leaves the files, and a .tmp perhaps.
LEMMA CrashIInv ==
  ASSUME IInv, Crash
  PROVE  IInv'
<1>0. /\ UNCHANGED <<choice, choiceTmp, owner, asked, open, wanted, config, logins, account,
                     exit, live, shown, offered, saved, savedTmp>>
      /\ up' = FALSE /\ starting' = FALSE /\ restore' = Idle
      /\ call' = [k \in Callers |-> Idle]
  BY DEF Crash, prefs, files, user
<1>1. /\ Callers' = Callers /\ call' \in [Callers -> Calls]
      /\ \A k \in Callers : call'[k].at = "idle"
  BY <1>0, IdleType DEF Callers
<1>2. up' \in BOOLEAN /\ starting' \in BOOLEAN
  BY <1>0
<1>3. FullType'
  BY <1>0, <1>1, <1>2, IdleType DEF IInv, FullType
<1>4. StartInv'
  BY <1>0, IdleType DEF StartInv
<1>5. ChoiceInv' /\ ExitFailsClosed'
  BY <1>0, <1>1 DEF IInv, ChoiceInv, ExitFailsClosed
<1>6. QED
  BY <1>3, <1>4, <1>5 DEF IInv

\* The restore copies the files into the preferences and writes the settings back.
LEMMA RestoreIInv ==
  ASSUME IInv, RestoreStep
  PROVE  IInv'
<1>0. /\ UNCHANGED <<choice, choiceTmp, call, owner, asked, open, wanted, config, up, logins,
                     account, shown, offered>>
      /\ restore.at \in {"wait", "tmp", "rename"}
  BY DEF RestoreStep, RestoreApply, RestoreTmp, RestoreRename, RestoreDeadline, backend, files, user
<1>1. starting = TRUE
  BY <1>0, BackendTypes DEF IInv, StartInv
<1>2. /\ restore' \in Calls
      /\ \/ starting' = starting /\ restore'.at # "idle"
         \/ starting' = FALSE /\ restore' = Idle
  <2>1. CASE RestoreApply
    BY <2>1, Types DEF RestoreApply, backend, Calls, Steps
  <2>2. CASE RestoreTmp
    BY <2>2, Types, IdleType DEF RestoreTmp, Calls, Steps
  <2>3. CASE RestoreRename \/ RestoreDeadline
    BY <2>3, IdleType DEF RestoreRename, RestoreDeadline
  <2>4. QED
    BY <2>1, <2>2, <2>3 DEF RestoreStep
<1>3. StartInv' /\ starting' \in BOOLEAN
  BY <1>1, <1>2, IdleType DEF StartInv
<1>4. restore.read \in Settings /\ restore.id \in Choices
  BY Types DEF Calls
<1>5. live' \in Settings /\ exit' \in Choices
  <2>1. live' \in {live, restore.read} /\ exit' \in {exit, restore.id}
    BY DEF RestoreStep, RestoreApply, RestoreTmp, RestoreRename, RestoreDeadline, prefs
  <2>2. QED
    BY <1>4, <2>1, Types
<1>6. saved' \in Settings /\ savedTmp' \in {{}} \cup {{c} : c \in Settings}
  <2>1. /\ saved' = saved \/ saved' \in savedTmp
        /\ savedTmp' \in {savedTmp, {}, {restore.read}}
    BY DEF RestoreStep, RestoreApply, RestoreTmp, RestoreRename, RenameSaved, RestoreDeadline,
       files
  <2>2. QED
    BY <1>4, <2>1, Types
<1>7. QED
  BY <1>0, <1>2, <1>3, <1>5, <1>6, Types, BackendTypes, WorldIInv

\* A late restore writes settings too, and nothing else.
LEMMA LateIInv ==
  ASSUME IInv, LateInv, LateStep
  PROVE  IInv'
<1>0. UNCHANGED <<choice, choiceTmp, call, owner, asked, open, wanted, config, up, starting,
                  logins, account, exit, live, shown, offered, restore>>
  BY DEF LateStep, LateTmp, LateRename, backend, prefs, user
<1>1. PICK l \in late : LateTmp(l) \/ LateRename(l)
  BY DEF LateStep
<1>2. l.read \in Settings
  BY DEF LateInv, Lates
<1>3. saved' \in Settings /\ savedTmp' \in {{}} \cup {{c} : c \in Settings}
  <2>1. /\ saved' = saved \/ saved' \in savedTmp
        /\ savedTmp' \in {savedTmp, {}, {l.read}}
    BY <1>1 DEF LateTmp, LateRename, RenameSaved
  <2>2. QED
    BY <1>2, <2>1, Types
<1>4. StartInv'
  BY <1>0 DEF IInv, StartInv
<1>5. QED
  BY <1>0, <1>3, <1>4, Types, BackendTypes, WorldIInv

\* Only a stop adds to the late restores.
LEMMA LateNext ==
  ASSUME IInv, LateInv, [Next]_vars
  PROVE  LateInv'
<1>1. CASE Start
  BY <1>1 DEF Start, LateInv
<1>2. CASE Stop
  <2>1. restore.at \in {"tmp", "rename"} =>
          [start |-> starts, at |-> restore.at, read |-> restore.read] \in Lates
    BY Types DEF LateInv, Lates, Calls
  <2>2. QED
    BY <1>2, <2>1 DEF Stop, LateInv
<1>3. CASE Crash
  BY <1>3 DEF Crash, LateInv
<1>4. CASE LateStep
  <2>1. PICK l \in late : LateTmp(l) \/ LateRename(l)
    BY <1>4 DEF LateStep
  <2>2. l \in Lates /\ [l EXCEPT !.at = "rename"] \in Lates
    BY DEF LateInv, Lates
  <2>3. starts' = starts /\ late' \subseteq late \cup {[l EXCEPT !.at = "rename"]}
    BY <2>1 DEF LateTmp, LateRename, backend
  <2>4. QED
    BY <2>2, <2>3 DEF LateInv
<1>5. ASSUME RestoreStep \/ Query \/ Set \/ LogoutRequest \/ LogoutRemove \/ Login
             \/ ConfigPrefs \/ ConfigFile \/ Netmap \/ UNCHANGED vars
      PROVE  LateInv'
  <2>1. ASSUME RestoreStep PROVE UNCHANGED <<starts, late>>
    BY <2>1 DEF RestoreStep, RestoreApply, RestoreTmp, RestoreRename, RestoreDeadline, backend
  <2>2. ASSUME Query PROVE UNCHANGED <<starts, late>>
    BY <2>2 DEF Query, QueryStatus, QueryRead, QueryTmp, QueryRename, backend
  <2>3. ASSUME Set PROVE UNCHANGED <<starts, late>>
    <3>1. ASSUME NEW id \in Choices, SetBegin(id) PROVE UNCHANGED <<starts, late>>
      BY <3>1 DEF SetBegin, backend
    <3>2. ASSUME SetEdit \/ SetTmp \/ SetRename PROVE UNCHANGED <<starts, late>>
      BY <3>2 DEF SetEdit, SetTmp, SetRename, backend
    <3>3. QED
      BY <2>3, <3>1, <3>2 DEF Set
  <2>4. ASSUME \/ LogoutRequest \/ LogoutRemove \/ Login \/ ConfigPrefs \/ ConfigFile \/ Netmap
               \/ UNCHANGED vars
        PROVE  UNCHANGED <<starts, late>>
    BY <2>4 DEF LogoutRequest, LogoutRemove, Login, ConfigPrefs, ConfigFile, Netmap, backend, vars
  <2>5. UNCHANGED <<starts, late>>
    BY <1>5, <2>1, <2>2, <2>3, <2>4
  <2>6. QED
    BY <2>5 DEF LateInv
<1>6. ASSUME NEW k \in Keys, Net(k) PROVE LateInv'
  <2>1. UNCHANGED <<starts, late>>
    BY <1>6, NetChanges
  <2>2. QED
    BY <2>1 DEF LateInv
<1>7. QED
  BY <1>1, <1>2, <1>3, <1>4, <1>5, <1>6 DEF Next

\* A login, and news from the netmap.
LEMMA NewsIInv ==
  ASSUME IInv, Login \/ Netmap
  PROVE  IInv'
<1>0. UNCHANGED <<choice, choiceTmp, call, owner, asked, open, wanted, config, up, starting, exit,
                  live, saved, savedTmp, restore>>
  BY DEF Login, Netmap, backend, prefs, files, user
<1>1. logins' \in 1 .. MaxLogin /\ account' \in 0 .. MaxLogin
  BY Types, BackendTypes DEF Login, Netmap, backend
<1>2. shown' \in Choices /\ offered' \subseteq Nodes
  BY Types DEF Login, Netmap
<1>3. StartInv'
  BY <1>0 DEF IInv, StartInv
<1>4. QED
  BY <1>0, <1>1, <1>2, <1>3, Types, BackendTypes, WorldIInv

\* Every step keeps the inductive invariant.
LEMMA NextIInv == IInv /\ LateInv /\ [Next]_vars => (IInv /\ LateInv)'
<1> SUFFICES ASSUME IInv, LateInv, [Next]_vars PROVE IInv' /\ LateInv'
  OBVIOUS
<1>1. ASSUME Query PROVE IInv'
  BY <1>1, QueryIInv, TmpIInv, RenameIInv DEF Query
<1>2. ASSUME Set PROVE IInv'
  BY <1>2, SetBeginIInv, SetIInv, TmpIInv, RenameIInv DEF Set
<1>3. ASSUME UNCHANGED vars PROVE IInv'
  <2>1. UNCHANGED <<choice, choiceTmp, call, owner, asked, open, wanted, config, up, starting,
                    logins, account, exit, live, shown, offered, saved, savedTmp, restore>>
    BY <1>3 DEF vars, backend, prefs, files, user
  <2>2. StartInv'
    BY <2>1 DEF IInv, StartInv
  <2>3. QED
    BY <2>1, <2>2, Types, BackendTypes, WorldIInv
<1>4. IInv'
  BY <1>1, <1>2, <1>3, StartIInv, StopIInv, CrashIInv, RestoreIInv, LateIInv, NetIInv,
     LogoutRequestIInv, LogoutRemoveIInv, NewsIInv, ConfigIInv DEF Next
<1>5. QED
  BY <1>4, LateNext

\* The inductive invariant holds in every reachable state.
LEMMA SpecIInv == Spec => [](IInv /\ LateInv)
<1>1. Init => IInv /\ LateInv
  BY InitIInv
<1>2. QED
  BY <1>1, NextIInv, PTL DEF Spec

\* A user whose last answered request chose an exit node, and who has not asked for none
\* since, never gets a VPN configuration without the exit route: for any exit nodes and
\* any calls side by side, through crashes, restores and writers that share a .tmp.
THEOREM FailsClosed == Spec => []ExitFailsClosed
<1>1. IInv => ExitFailsClosed
  BY DEF IInv
<1>2. QED
  BY <1>1, SpecIInv, PTL
-----------------------------------------------------------------------------
(* The settings file *)

\* Steps that leave the settings' file, restores and updates alone.
LEMMA OtherSetting ==
  ASSUME SettingInv, UNCHANGED <<up, saved, savedTmp, wanted, beside, restore, late>>,
         Callers' = Callers, \A k \in Callers \cap Keys : call'[k] = call[k]
  PROVE  SettingInv'
<1>1. Renaming' = Renaming
  BY DEF Renaming
<1>2. ASSUME NEW k \in Keys, KeyInv(k) PROVE KeyInv(k)'
  BY <1>1, <1>2 DEF KeyInv
<1>3. ASSUME NEW k \in Callers \cap Keys, UpdateInv(k) PROVE UpdateInv(k)'
  BY <1>1, <1>3 DEF UpdateInv
<1>4. QED
  BY <1>2, <1>3 DEF SettingInv

\* The calls that are no updates.
LEMMA OtherCallSetting ==
  ASSUME IInv, SettingInv,
         \/ Query \/ Set \/ LogoutRequest \/ LogoutRemove \/ ConfigPrefs \/ ConfigFile
  PROVE  SettingInv'
<1>1. UNCHANGED <<up, saved, savedTmp, wanted, beside, restore, late>>
  <2>1. ASSUME Query PROVE UNCHANGED <<up, saved, savedTmp, wanted, beside, restore, late>>
    BY <2>1 DEF Query, QueryStatus, QueryRead, QueryTmp, QueryRename, backend, files, user
  <2>2. ASSUME NEW id \in Choices, SetBegin(id)
        PROVE  UNCHANGED <<up, saved, savedTmp, wanted, beside, restore, late>>
    BY <2>2 DEF SetBegin, backend, files
  <2>3. ASSUME SetEdit \/ SetTmp \/ SetRename
        PROVE  UNCHANGED <<up, saved, savedTmp, wanted, beside, restore, late>>
    BY <2>3 DEF SetEdit, SetTmp, SetRename, backend, files, user
  <2>4. ASSUME LogoutRequest \/ LogoutRemove \/ ConfigPrefs \/ ConfigFile
        PROVE  UNCHANGED <<up, saved, savedTmp, wanted, beside, restore, late>>
    BY <2>4 DEF LogoutRequest, LogoutRemove, ConfigPrefs, ConfigFile, backend, files, user
  <2>5. QED
    BY <2>1, <2>2, <2>3, <2>4 DEF Set
<1>2. \E l \in {"query", "set", "logout", "config"} : \E c : call' = [call EXCEPT ![l] = c]
  BY DEF Query, QueryStatus, QueryRead, QueryTmp, QueryRename, Set, SetBegin, SetEdit, SetTmp,
         SetRename, LogoutRequest, LogoutRemove, ConfigPrefs, ConfigFile, Goto, Return
<1>3. Callers' = Callers /\ \A k \in Callers \cap Keys : call'[k] = call[k]
  BY <1>2 DEF Callers, Keys, IInv, FullType
<1>4. QED
  BY <1>1, <1>3, OtherSetting

\* When no update is under way only the settings themselves matter.
LEMMA IdleSetting ==
  ASSUME SettingInv, Callers' = Callers, beside' = beside,
         \A k \in Callers \cap Keys : call'[k].at = "idle",
         \A k \in Keys \ beside : KeyInv(k)'
  PROVE  SettingInv'
  BY DEF SettingInv, UpdateInv

\* A start reads the settings that the file holds; no update is under way.
LEMMA StartSetting ==
  ASSUME IInv, SettingInv, Start
  PROVE  SettingInv'
<1>1. UNCHANGED <<call, wanted, beside, saved, savedTmp, late>> /\ ~up
  BY DEF Start, files, user
<1>2. restore'.at = "wait" /\ restore'.read = saved
  BY DEF Start, Idle
<1>3. \A k \in Callers \cap Keys : call[k].at = "idle"
  BY <1>1 DEF SettingInv, UpdateInv
<1>4. Renaming' => Renaming
  BY <1>1, <1>2 DEF Renaming
<1>5. ASSUME NEW k \in Keys \ beside PROVE KeyInv(k)'
  BY <1>1, <1>2, <1>4 DEF SettingInv, KeyInv
<1>6. QED
  BY <1>1, <1>3, <1>5, IdleSetting DEF Callers

\* A stop waits for the updates and a crash ends them.  The restore that outlives its
\* start keeps what it has read and written.
LEMMA StopSetting ==
  ASSUME IInv, SettingInv, Stop \/ Crash
  PROVE  SettingInv'
<1>1. UNCHANGED <<wanted, beside, saved, savedTmp>> /\ restore' = Idle
  BY DEF Stop, Crash, files, user
<1>2. Callers' = Callers /\ \A k \in Callers \cap Keys : call'[k].at = "idle"
  <2>1. CASE Stop
    BY <2>1 DEF Stop, Callers, At
  <2>2. CASE Crash
    BY <2>2, IdleType DEF Crash, Callers
  <2>3. QED
    BY <2>1, <2>2
<1>3. ASSUME NEW l \in late'
      PROVE  l \in late \/ (restore.at # "idle" /\ l.at = restore.at /\ l.read = restore.read)
  BY DEF Stop, Crash
<1>4. Renaming' => Renaming
  BY <1>1, <1>3, IdleType DEF Renaming
<1>5. ASSUME NEW k \in Keys \ beside PROVE KeyInv(k)'
  <2>1. KeyInv(k)
    BY DEF SettingInv
  <2>2. QED
    BY <1>1, <1>3, <1>4, <2>1, IdleType DEF KeyInv
<1>6. QED
  BY <1>1, <1>2, <1>5, IdleSetting

\* The rename of a restore, current or late, changes no setting that had no late restore
\* beside its update.
LEMMA RenameKeeps ==
  ASSUME SettingInv, Renaming, RenameSaved, NEW k \in Keys \ beside
  PROVE  saved'[k] = saved[k] /\ savedTmp' = {}
<1>1. \A c \in savedTmp : c[k] = saved[k]
  BY DEF SettingInv, KeyInv
<1>2. QED
  BY <1>1 DEF RenameSaved

\* The restore writes back what it has read.
LEMMA RestoreSetting ==
  ASSUME IInv, SettingInv, RestoreStep
  PROVE  SettingInv'
<1>1. UNCHANGED <<call, wanted, beside, up, late>> /\ restore.at # "idle"
  BY DEF RestoreStep, RestoreApply, RestoreTmp, RestoreRename, RestoreDeadline, backend, user
<1>2. \A k \in Callers \cap Keys : call[k].at = "idle"
  BY <1>1 DEF SettingInv, UpdateInv
<1>3. ASSUME NEW k \in Keys \ beside PROVE KeyInv(k)'
  <2>0. KeyInv(k)
    BY DEF SettingInv
  <2>1. CASE UNCHANGED <<saved, savedTmp>> /\ (restore' = Idle \/ RestoreApply)
    <3>1. restore'.at # "rename" /\ (restore'.at # "idle" => restore'.read = restore.read)
      BY <2>1, Types, IdleType DEF RestoreApply, Calls
    <3>2. Renaming' => Renaming
      BY <1>1, <3>1 DEF Renaming
    <3>3. QED
      BY <1>1, <2>0, <2>1, <3>1, <3>2 DEF KeyInv
  <2>2. CASE saved' = saved /\ savedTmp' = {restore.read} /\ restore' = [restore EXCEPT !.at = "rename"]
    <3>1. restore'.read = restore.read
      BY <2>2, Types DEF Calls
    <3>2. QED
      BY <1>1, <2>0, <2>2, <3>1 DEF KeyInv
  <2>3. CASE RestoreRename
    <3>1. saved'[k] = saved[k] /\ savedTmp' = {} /\ restore' = Idle
      BY <2>3, RenameKeeps DEF RestoreRename, Renaming
    <3>2. QED
      BY <1>1, <2>0, <3>1, IdleType DEF KeyInv
  <2>4. QED
    BY <2>1, <2>2, <2>3 DEF RestoreStep, RestoreApply, RestoreTmp, RestoreDeadline, files
<1>4. QED
  BY <1>1, <1>2, <1>3, IdleSetting DEF Callers

\* So does a late one, beside which every update that is under way is marked.
LEMMA LateSetting ==
  ASSUME IInv, LateInv, SettingInv, LateStep
  PROVE  SettingInv'
<1>1. PICK l \in late : LateTmp(l) \/ LateRename(l)
  BY DEF LateStep
<1>2. UNCHANGED <<call, wanted, beside, up, restore>> /\ l \in Lates
  BY <1>1 DEF LateTmp, LateRename, backend, user, LateInv
<1>3. [l EXCEPT !.at = "rename"].at = "rename" /\ [l EXCEPT !.at = "rename"].read = l.read
  BY <1>2 DEF Lates
<1>4. \A m \in late' : m \in late \/ m = [l EXCEPT !.at = "rename"]
  BY <1>1 DEF LateTmp, LateRename
<1>5. \A m \in late' : \E n \in late : m.read = n.read
  BY <1>3, <1>4
<1>6. \/ savedTmp' = {l.read} /\ saved' = saved /\ Renaming'
      \/ savedTmp' = savedTmp /\ saved' = saved /\ Renaming' = Renaming
      \/ savedTmp' = {} /\ Renaming /\ RenameSaved
  <2>1. CASE LateTmp(l) /\ savedTmp' = {l.read} /\ [l EXCEPT !.at = "rename"] \in late'
    <3>1. Renaming'
      BY <1>3, <2>1 DEF Renaming
    <3>2. QED
      BY <2>1, <3>1 DEF LateTmp
  <2>2. CASE LateTmp(l) /\ savedTmp' = savedTmp /\ late' = late \ {l}
    <3>1. (\E m \in late' : m.at = "rename") <=> (\E m \in late : m.at = "rename")
      BY <2>2 DEF LateTmp
    <3>2. Renaming' = Renaming
      BY <1>2, <3>1 DEF Renaming
    <3>3. QED
      BY <2>2, <3>2 DEF LateTmp
  <2>3. CASE LateRename(l)
    BY <2>3 DEF LateRename, RenameSaved, Renaming
  <2>4. QED
    BY <1>1, <2>1, <2>2, <2>3 DEF LateTmp
<1>7. ASSUME NEW k \in Keys \ beside PROVE saved'[k] = saved[k] /\ KeyInv(k)'
  <2>1. KeyInv(k)
    BY DEF SettingInv
  <2>2. saved'[k] = saved[k]
    BY <1>6, RenameKeeps
  <2>3. \A m \in late' : m.read[k] = saved[k]
    BY <1>5, <2>1 DEF KeyInv
  <2>4. Renaming' => \A c \in savedTmp' : c[k] = saved[k]
    BY <1>6, <2>1 DEF KeyInv
  <2>5. QED
    BY <1>2, <2>1, <2>2, <2>3, <2>4 DEF KeyInv
<1>8. ASSUME NEW k \in Callers \cap Keys PROVE UpdateInv(k)'
  <2>1. SUFFICES ASSUME call[k].at # "idle" PROVE UpdateInv(k)'
    BY <1>2 DEF UpdateInv
  <2>2. UpdateInv(k) /\ k \in beside
    BY <2>1 DEF SettingInv, UpdateInv
  <2>3. \A j \in Keys \ Callers : saved'[j] = saved[j]
    BY <1>7 DEF SettingInv
  <2>4. call[k].at = "rename" /\ ~Renaming' => savedTmp' \subseteq {call[k].read}
    BY <1>6, <2>1, <2>2 DEF UpdateInv
  <2>5. Callers' = Callers
    BY <1>2 DEF Callers
  <2>6. QED
    BY <1>2, <2>1, <2>2, <2>3, <2>4, <2>5 DEF UpdateInv
<1>9. QED
  BY <1>2, <1>7, <1>8 DEF SettingInv, Callers

\* An update changes the one key of its own, in the settings that it has read; the other
\* key is nobody's.
LEMMA NetSetting ==
  ASSUME IInv, SettingInv, OneSetting, NEW k \in Keys, Net(k)
  PROVE  SettingInv'
<1>0. UNCHANGED <<up, starting, restore, late>> /\ k \in Callers
  BY NetChanges
<1>1. \A l \in Callers \cap Keys : l = k
  BY <1>0 DEF OneSetting, IInv, FullType
<1>2. /\ beside \subseteq {k} /\ UpdateInv(k) /\ call[k] \in Calls
      /\ saved \in Settings /\ wanted \in Settings
      /\ \A j \in Keys \ beside : KeyInv(j)
      /\ \A j \in Keys : j # k => j \notin Callers /\ KeyInv(j)
  BY <1>0, <1>1, Types DEF SettingInv
<1>3. Renaming' = Renaming
  BY <1>0 DEF Renaming
<1>4. ASSUME NEW c \in Calls, call' = [call EXCEPT ![k] = c], beside' \subseteq {k},
             \A j \in Keys \ beside' : KeyInv(j)',
             c.at # "idle" =>
               /\ up /\ restore.at = "idle" /\ (k \notin beside' => late = {})
               /\ c.read[k] = c.value /\ \A j \in Keys \ Callers : c.read[j] = saved'[j]
               /\ c.at = "rename" /\ ~Renaming => savedTmp' \subseteq {c.read}
      PROVE  SettingInv'
  <2>1. Callers' = Callers /\ call'[k] = c
    BY <1>0, <1>4, CallKept
  <2>2. UpdateInv(k)'
    BY <1>0, <1>3, <1>4, <2>1 DEF UpdateInv
  <2>3. QED
    BY <1>0, <1>1, <1>4, <2>1, <2>2 DEF SettingInv
\* Its key is among those that had a late restore beside them, or no restore is under way.
<1>5. call[k].at # "idle" =>
        /\ up /\ restore.at = "idle" /\ (k \notin beside => late = {} /\ ~Renaming)
        /\ call[k].read[k] = call[k].value
        /\ \A j \in Keys \ Callers : call[k].read[j] = saved[j]
        /\ call[k].at = "rename" /\ ~Renaming => savedTmp \subseteq {call[k].read}
  BY <1>2 DEF UpdateInv, Renaming
<1>6. ASSUME UNCHANGED <<saved, savedTmp, wanted>>, NEW j \in Keys, KeyInv(j) PROVE KeyInv(j)'
  BY <1>0, <1>3, <1>6 DEF KeyInv
<1>7. ASSUME NEW value \in BOOLEAN, NetBegin(k, value) PROVE SettingInv'
  <2> DEFINE read == [saved EXCEPT ![k] = value]
             c == [Idle EXCEPT !.at = "edit", !.value = value, !.read = read]
  <2>1. read \in Settings /\ read[k] = value /\ \A j \in Keys : j # k => read[j] = saved[j]
    BY <1>2 DEF Settings
  <2>2. call' = [call EXCEPT ![k] = c] /\ UNCHANGED <<saved, savedTmp, wanted>> /\ up
    BY <1>7, Zenon DEF NetBegin, files
  <2>3. restore.at = "idle"
    BY <1>7 DEF NetBegin, IInv, StartInv
  <2>4. /\ beside \subseteq beside' /\ beside' \subseteq {k}
        /\ k \notin beside' => late = {}
    <3>1. BeginsBeside(k)
      BY <1>7, Zenon DEF NetBegin
    <3>2. QED
      BY <1>2, <3>1 DEF BeginsBeside
  <2> HIDE DEF read
  <2>5. c \in Calls /\ c.at = "edit" /\ c.value = value /\ c.read = read
    BY <2>1, IdleType DEF Calls, Steps
  <2> HIDE DEF c
  <2>6. \A j \in Keys \ beside' : KeyInv(j)'
    BY <1>2, <1>6, <2>2, <2>4
  <2>7. QED
    BY <1>0, <1>2, <1>4, <2>1, <2>2, <2>3, <2>4, <2>5, <2>6
<1>8. ASSUME NEW at \in Steps, Goto(k, at), call[k].at # "idle", UNCHANGED <<saved, wanted, beside>>,
             \/ savedTmp' = savedTmp /\ at # "rename"
             \/ savedTmp' = {call[k].read}
      PROVE  SettingInv'
  <2> DEFINE c == [call[k] EXCEPT !.at = at]
  <2>1. c \in Calls /\ c.at = at /\ c.value = call[k].value /\ c.read = call[k].read
    BY <1>0, GotoType
  <2>2. call' = [call EXCEPT ![k] = c]
    BY <1>8 DEF Goto
  <2> HIDE DEF c
  <2>3. ASSUME NEW j \in Keys \ beside' PROVE KeyInv(j)'
    <3>1. KeyInv(j)
      BY <1>2, <1>8, <2>3
    <3>2. CASE savedTmp' = savedTmp
      BY <1>6, <1>8, <3>1, <3>2
    <3>3. CASE savedTmp' = {call[k].read}
      <4>1. j # k => call[k].read[j] = saved[j]
        BY <1>2, <1>5, <1>8
      <4>2. j = k => ~Renaming
        BY <1>5, <1>8, <2>3
      <4>3. Renaming' => \A d \in savedTmp' : d[j] = saved'[j]
        BY <1>3, <1>8, <3>3, <4>1, <4>2
      <4>4. QED
        BY <1>0, <1>8, <3>1, <4>3 DEF KeyInv
    <3>4. QED
      BY <1>8, <3>2, <3>3
  <2>4. QED
    BY <1>2, <1>4, <1>5, <1>8, <2>1, <2>2, <2>3
<1>9. ASSUME Return(k), beside' \subseteq {k}, \A j \in Keys \ beside' : KeyInv(j)' PROVE SettingInv'
  BY <1>4, <1>9, IdleType DEF Return
<1>10. ASSUME Return(k), UNCHANGED <<saved, savedTmp, wanted, beside>> PROVE SettingInv'
  BY <1>2, <1>6, <1>9, <1>10
<1>11. CASE NetEdit(k)
  <2>1. /\ UNCHANGED <<saved, savedTmp, wanted, beside>> /\ call[k].at = "edit"
        /\ Goto(k, "tmp") \/ Return(k)
    BY <1>11 DEF NetEdit, At, files, user
  <2>2. "tmp" \in Steps
    BY DEF Steps
  <2>3. QED
    BY <1>8, <1>10, <2>1, <2>2
<1>12. CASE NetTmp(k)
  <2>1. /\ UNCHANGED <<saved, wanted, beside>> /\ call[k].at = "tmp"
        /\ \/ savedTmp' = {call[k].read} /\ Goto(k, "rename")
           \/ savedTmp' = savedTmp /\ Return(k)
    BY <1>12 DEF NetTmp, At, user
  <2>2. "rename" \in Steps
    BY DEF Steps
  <2>3. QED
    BY <1>8, <1>10, <2>1, <2>2
<1>13. CASE NetRename(k)
  <2>1. /\ call[k].at = "rename" /\ Return(k) /\ savedTmp' = {}
        /\ \/ savedTmp = {} /\ UNCHANGED <<saved, wanted, beside>>
           \/ /\ saved' \in savedTmp /\ wanted' = [wanted EXCEPT ![k] = call[k].value]
              /\ EndsBeside(k)
    BY <1>13, Zenon DEF NetRename, At
  <2>2. CASE savedTmp = {} /\ UNCHANGED <<saved, wanted, beside>>
    BY <1>10, <2>1, <2>2
  <2>3. CASE /\ saved' \in savedTmp /\ wanted' = [wanted EXCEPT ![k] = call[k].value]
             /\ EndsBeside(k)
    <3>1. /\ beside' \subseteq {k}
          /\ k \notin beside' => late = {}
      BY <1>2, <1>5, <2>1, <2>3 DEF EndsBeside
    <3>2. ASSUME NEW j \in Keys, j # k PROVE KeyInv(j)'
      <4>1. KeyInv(j) /\ j \notin Callers
        BY <1>2, <3>2
      <4>2. saved'[j] = saved[j]
        <5>1. CASE Renaming
          BY <2>3, <4>1, <5>1 DEF KeyInv
        <5>2. CASE ~Renaming
          BY <1>5, <2>1, <2>3, <4>1, <5>2
        <5>3. QED
          BY <5>1, <5>2
      <4>3. wanted'[j] = wanted[j]
        BY <1>2, <2>3, <3>2 DEF Settings
      <4>4. QED
        BY <1>0, <2>1, <4>1, <4>2, <4>3 DEF KeyInv
    <3>3. ASSUME k \notin beside' PROVE KeyInv(k)'
      <4>1. late = {} /\ restore.at = "idle" /\ ~Renaming
        BY <1>5, <2>1, <3>1, <3>3 DEF Renaming
      <4>2. saved' = call[k].read
        BY <1>5, <2>1, <2>3, <4>1
      <4>3. saved'[k] = call[k].value
        BY <1>5, <2>1, <4>2
      <4>4. wanted'[k] = call[k].value
        BY <1>2, <2>3 DEF Settings
      <4>5. QED
        BY <1>0, <1>3, <4>1, <4>3, <4>4 DEF KeyInv
    <3>4. QED
      BY <1>9, <2>1, <3>1, <3>2, <3>3
  <2>4. QED
    BY <2>1, <2>2, <2>3
<1>14. QED
  BY <1>7, <1>11, <1>12, <1>13 DEF Net

\* Every step keeps the settings.
LEMMA NextSetting ==
  ASSUME OneSetting
  PROVE  IInv /\ LateInv /\ SettingInv /\ [Next]_vars => SettingInv'
<1> SUFFICES ASSUME IInv, LateInv, SettingInv, [Next]_vars PROVE SettingInv'
  OBVIOUS
<1>1. ASSUME Login \/ Netmap \/ UNCHANGED vars PROVE SettingInv'
  <2>1. UNCHANGED <<up, saved, savedTmp, wanted, beside, restore, late, call>>
    BY <1>1 DEF Login, Netmap, vars, backend, files, user
  <2>2. QED
    BY <2>1, OtherSetting DEF Callers
<1>2. QED
  BY <1>1, OtherCallSetting, StartSetting, StopSetting, RestoreSetting, LateSetting, NetSetting
     DEF Next

\* The settings file holds what was answered for each setting whose last update had no
\* late restore beside it, through crashes, stops and the writes of restores, those that
\* outlive their start included: for any exit nodes, any bounds and any workloads in which
\* one of the two settings is updated at a time.  (Of two updates side by side one can
\* undo the other, and a late restore can undo an update that runs beside it.)
THEOREM SettingsKept == OneSetting => (Spec => []StoreInv)
<1> SUFFICES ASSUME OneSetting PROVE Spec => []StoreInv
  OBVIOUS
<1>1. Init => IInv /\ LateInv /\ SettingInv
  BY InitIInv
<1>2. (IInv /\ LateInv /\ SettingInv) /\ [Next]_vars => (IInv /\ LateInv /\ SettingInv)'
  BY NextIInv, NextSetting
<1>3. IInv /\ LateInv /\ SettingInv => StoreInv
  <2>1. IInv /\ LateInv => TypeOK
    BY DEF IInv, LateInv, Lates, FullType, StartInv, TypeOK
  <2>2. SettingInv => SettingsStored
    BY DEF SettingInv, KeyInv, SettingsStored
  <2>3. QED
    BY <2>1, <2>2 DEF StoreInv
<1>4. QED
  BY <1>1, <1>2, <1>3, PTL DEF Spec
-----------------------------------------------------------------------------
(* The choice file of a user whose requests are its only writer *)

\* A workload with requests for an exit node has neither queries nor a logout.
SetAlone == \A callers \in Workloads :
              "set" \in callers => "query" \notin callers /\ "logout" \notin callers

\* A request under way is the last one and unanswered, and the .tmp it renames holds
\* what it asked for.
AnswerInv ==
    IF "set" \in Callers
    THEN /\ call["set"].at = "idle" /\ answered => choice = asked
         /\ call["set"].at # "idle" => asked = call["set"].id /\ ~answered
         /\ call["set"].at = "rename" => choiceTmp = {call["set"].id}
    ELSE ~answered

\* Steps that leave the choice, its .tmp and the requests for it alone.
LEMMA OtherAnswer ==
  ASSUME AnswerInv, UNCHANGED <<choice, choiceTmp, asked, answered>>, Callers' = Callers,
         "set" \in Callers => call'["set"] = call["set"]
  PROVE  AnswerInv'
  BY DEF AnswerInv

\* A request goes on, or ends without an answer.
LEMMA SetStepAnswer ==
  ASSUME IInv, AnswerInv, SetEdit \/ SetTmp
  PROVE  AnswerInv'
<1>0. /\ "set" \in Callers /\ call["set"].at \in {"edit", "tmp"}
      /\ UNCHANGED <<choice, asked, answered>>
  BY DEF SetEdit, SetTmp, At, files, user
<1>1. asked = call["set"].id /\ ~answered
  BY <1>0 DEF AnswerInv
<1>2. CASE Return("set")
  <2>1. Callers' = Callers /\ call'["set"].at = "idle"
    BY <1>0, <1>2, ReturnKept
  <2>2. QED
    BY <1>0, <1>1, <2>1 DEF AnswerInv
<1>3. ASSUME NEW at \in {"tmp", "rename"}, Goto("set", at),
             at = "rename" => choiceTmp' = {call["set"].id}
      PROVE  AnswerInv'
  <2> DEFINE c == [call["set"] EXCEPT !.at = at]
  <2>0. at \in Steps
    BY DEF Steps
  <2>1. c \in Calls /\ c.at = at /\ c.id = call["set"].id
    BY <1>0, <2>0, GotoType
  <2>2. call' = [call EXCEPT !["set"] = c]
    BY <1>3 DEF Goto
  <2> HIDE DEF c
  <2>3. Callers' = Callers /\ call'["set"] = c
    BY <1>0, <2>1, <2>2, CallKept
  <2>4. QED
    BY <1>0, <1>1, <1>3, <2>1, <2>3 DEF AnswerInv
<1>4. QED
  BY <1>2, <1>3 DEF SetEdit, SetTmp

\* A request begins unanswered, and is answered when the file holds what it asked for.
LEMMA SetAnswer ==
  ASSUME IInv, AnswerInv, Set
  PROVE  AnswerInv'
<1>1. ASSUME NEW id \in Choices, SetBegin(id) PROVE AnswerInv'
  <2> DEFINE c == [Idle EXCEPT !.at = "edit", !.id = id, !.account = account]
  <2>0. /\ "set" \in Callers /\ asked' = id /\ answered' = FALSE
        /\ call' = [call EXCEPT !["set"] = c]
    BY <1>1 DEF SetBegin, At
  <2>1. c \in Calls /\ c.id = id /\ c.at = "edit"
    BY Types, IdleType DEF Calls, Steps
  <2> HIDE DEF c
  <2>2. Callers' = Callers /\ call'["set"] = c
    BY <2>0, <2>1, CallKept
  <2>3. QED
    BY <2>0, <2>1, <2>2 DEF AnswerInv
<1>2. CASE SetRename
  <2>1. /\ "set" \in Callers /\ call["set"].at = "rename" /\ Return("set") /\ asked' = asked
        /\ \/ RenameChoice(call["set"].account)
           \/ RenameFails
    BY <1>2 DEF SetRename, At
  <2>2. Callers' = Callers /\ call'["set"].at = "idle"
    BY <2>1, ReturnKept
  <2>3. choiceTmp = {asked}
    BY <2>1 DEF AnswerInv
  <2>4. choice' = asked
    BY <2>1, <2>3 DEF RenameChoice, RenameFails
  <2>5. QED
    BY <2>1, <2>2, <2>4 DEF AnswerInv
<1>3. QED
  BY <1>1, <1>2, SetStepAnswer DEF Set

\* Every step keeps the answered choice.
LEMMA NextAnswer ==
  ASSUME SetAlone
  PROVE  IInv /\ AnswerInv /\ [Next]_vars => AnswerInv'
<1> SUFFICES ASSUME IInv, AnswerInv, [Next]_vars PROVE AnswerInv'
  OBVIOUS
<1>0. Callers \in Workloads
  BY DEF IInv, FullType
<1>1. CASE Query \/ LogoutRequest \/ LogoutRemove
  <2>1. "set" \notin Callers /\ ~answered
    BY <1>0, <1>1 DEF SetAlone, AnswerInv, Query, QueryStatus, QueryRead, QueryTmp, QueryRename,
       LogoutRequest, LogoutRemove, At
  <2>2. answered' = answered \/ answered' = FALSE
    BY <1>1 DEF Query, QueryStatus, QueryRead, QueryTmp, QueryRename, LogoutRequest,
       LogoutRemove, user
  <2>3. Callers' = Callers
    BY <1>1 DEF Query, QueryStatus, QueryRead, QueryTmp, QueryRename, LogoutRequest,
       LogoutRemove, Goto, Return, Callers, IInv, FullType
  <2>4. QED
    BY <2>1, <2>2, <2>3 DEF AnswerInv
<1>2. CASE ConfigPrefs \/ ConfigFile \/ \E k \in Keys : Net(k)
  <2>1. UNCHANGED <<choice, choiceTmp, asked, answered>>
    <3>1. ASSUME ConfigPrefs \/ ConfigFile PROVE UNCHANGED <<choice, choiceTmp, asked, answered>>
      BY <3>1 DEF ConfigPrefs, ConfigFile, files, user
    <3>2. QED
      BY <1>2, <3>1, NetChanges
  <2>2. \E l : l # "set" /\ \E c : call' = [call EXCEPT ![l] = c]
    BY <1>2 DEF ConfigPrefs, ConfigFile, Net, NetBegin, NetEdit, NetTmp, NetRename, Goto, Return,
       Keys
  <2>3. Callers' = Callers /\ ("set" \in Callers => call'["set"] = call["set"])
    BY <2>2 DEF Callers, IInv, FullType
  <2>4. QED
    BY <2>1, <2>3, OtherAnswer
<1>3. CASE Start \/ Stop \/ RestoreStep \/ LateStep \/ Login \/ Netmap \/ UNCHANGED vars
  <2>1. UNCHANGED <<choice, choiceTmp, asked, answered, call>>
    BY <1>3 DEF Start, Stop, RestoreStep, RestoreApply, RestoreTmp, RestoreRename, RestoreDeadline,
       LateStep, LateTmp, LateRename, Login, Netmap, vars, files, user
  <2>2. QED
    BY <2>1, OtherAnswer DEF Callers
<1>4. CASE Crash
  <2>1. UNCHANGED <<choice, asked, answered>> /\ call' = [k \in Callers |-> Idle]
    BY <1>4 DEF Crash, files, user
  <2>2. Callers' = Callers /\ \A k \in Callers : call'[k].at = "idle"
    BY <2>1, IdleType DEF Callers
  <2>3. QED
    BY <2>1, <2>2 DEF AnswerInv
<1>5. QED
  BY <1>1, <1>2, <1>3, <1>4, SetAnswer DEF Next

\* An answered choice is the stored one whenever nothing is under way, through crashes
\* between the .tmp and the rename, stops and restores: for any exit nodes and any
\* bounds, as long as no query or logout writes the file beside the user's requests.
\* (With either of them ChoiceKept fails.)
THEOREM AnsweredChoiceStored == SetAlone => (Spec => []ChoiceKept)
<1> SUFFICES ASSUME SetAlone PROVE Spec => []ChoiceKept
  OBVIOUS
<1>1. Init => AnswerInv
  <2>1. Init => ~answered
    BY DEF Init
  <2>2. Init => ("set" \in Callers => call["set"].at = "idle")
    BY IdleType DEF Init, Callers
  <2>3. QED
    BY <2>1, <2>2 DEF AnswerInv
<1>2. Init => IInv /\ LateInv
  BY InitIInv
<1>3. (IInv /\ LateInv /\ AnswerInv) /\ [Next]_vars => (IInv /\ LateInv /\ AnswerInv)'
  BY NextIInv, NextAnswer
<1>4. AnswerInv => ChoiceKept
  BY DEF AnswerInv, ChoiceKept, Quiet
<1>5. QED
  BY <1>1, <1>2, <1>3, <1>4, PTL DEF Spec
=============================================================================
