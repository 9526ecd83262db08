-------------------------- MODULE VpnSessionProofs --------------------------
(***************************************************************************)
(* Proofs about VpnSession, for any bounds.  Three arguments: a command     *)
(* creates at most one extension; a stop request on disk is for the         *)
(* extension that is alive, since onCreate removes older ones, and was made *)
(* when the UI had seen that extension's session run; and an OK answer to   *)
(* the latest handoff request was written by the stop made for it.  The     *)
(* last part is about LoginFlow: only the active login polls by a timer.    *)
(***************************************************************************)
EXTENDS VpnSession, TLAPS

ExtSteps == {"none", "restore", "restoring", "create", "bare", "handoff", "wait", "running",
             "stopped", "idle", "conflict"}
Statuses == {"destroyed", "entered", "pending", "starting", "running", "failed", "conflict",
             "notready", "disconnected"}
ChainSteps == {"none", "settings", "probe", "start"}

Stops == [id : Nat, of : Nat]
Exts == [n : Nat, at : ExtSteps, stop : Stops]
Files == [status : Statuses, config : BOOLEAN, hreq : Nat, hres : [id : Nat, ok : BOOLEAN],
          sreq : Stops, sres : Nat]

\* The types of the UI's variables and of the others.  That an extension's number stays
\* within the bound on commands is CountInv's part of TypeOK.
UiType ==
    /\ active \in 0 .. MaxCommand /\ connId \in 0 .. MaxCommand /\ nextId \in 1 .. MaxCommand + 1
    /\ shown \in {"running", "busy", "other"} /\ uiBackend \in BOOLEAN
    /\ connect \in BOOLEAN /\ disconnect \in BOOLEAN /\ ~(connect /\ disconnect)
    /\ chain \in [at : ChainSteps, id : Nat] /\ handoff \in [id : Nat, req : Nat]
ExtType ==
    /\ ext \in Exts /\ file \in Files /\ startReq \in BOOLEAN /\ fresh \in BOOLEAN
    /\ kills \in Nat /\ stoppedFor \in Nat

\* Every extension comes from a start request, and every start request from a command.
Pending == (IF startReq THEN 1 ELSE 0) + (IF chain.at \in {"settings", "probe"} THEN 1 ELSE 0)
CountInv == ext.n + Pending < nextId

\* A stop request an extension finds is its own.
RequestInv ==
    /\ startReq => ~Alive
    /\ Alive /\ file.sreq # NoStop => file.sreq.of = ext.n
    /\ StopIsForThisSession

Up == {"running", "stopped"}

\* Without a death the status file tells the truth, and the UI makes a stop request only
\* for a session it has seen run.
SeenInv ==
    kills = 0 =>
        /\ ~Alive => file.status = "destroyed"
        /\ file.status = "running" => ext.at = "running"
        /\ startReq => shown # "running"
        /\ Alive /\ shown = "running" => ext.at \in Up
        /\ Alive /\ file.sreq # NoStop => ext.at \in Up
        /\ StopFindsSession

\* An OK answer to the latest request comes from the stop made for it, and no stop made
\* for an older one is still to come.
HandoffInv ==
    /\ file.hreq # 0 => file.hreq = ext.n
    /\ file.hres.ok /\ file.hres.id = ext.n =>
           stoppedFor = ext.n /\ (handoff # NoHandoff => handoff.req = ext.n)

\* The inductive invariant.
IInv == UiType /\ ExtType /\ CountInv /\ RequestInv /\ SeenInv /\ HandoffInv
-----------------------------------------------------------------------------
USE BoundsAssumption

\* The initial state satisfies the inductive invariant.
LEMMA InitIInv == Init => IInv
<1> SUFFICES ASSUME Init PROVE IInv
  OBVIOUS
<1>1. UiType
  <2>1. active \in 0 .. MaxCommand /\ connId \in 0 .. MaxCommand /\ nextId \in 1 .. MaxCommand + 1
    BY DEF Init
  <2>2. chain \in [at : ChainSteps, id : Nat] /\ handoff \in [id : Nat, req : Nat]
    BY DEF Init, Idle, NoHandoff, ChainSteps
  <2>3. uiBackend \in BOOLEAN /\ connect = FALSE /\ disconnect = FALSE /\ shown = "other"
    BY DEF Init
  <2>4. QED
    BY <2>1, <2>2, <2>3 DEF UiType
<1>2. ExtType
  BY DEF Init, ExtType, Exts, ExtSteps, Files, Statuses, Stops, NoStop, NoAnswer
<1>3. CountInv
  BY DEF Init, CountInv, Pending, Idle
<1>4. RequestInv
  BY DEF Init, RequestInv, Alive, StopIsForThisSession
<1>5. SeenInv
  BY DEF Init, SeenInv, Alive, StopFindsSession
<1>6. HandoffInv
  BY DEF Init, HandoffInv, NoAnswer
<1>7. QED
  BY <1>1, <1>2, <1>3, <1>4, <1>5, <1>6 DEF IInv

\* Requests and answers that go, or a handoff that is given up, disturb no handoff.
LEMMA HandoffKept ==
  ASSUME IInv, ext'.n = ext.n, file'.hreq \in {file.hreq, 0}, file'.hres \in {file.hres, NoAnswer},
         stoppedFor' = stoppedFor, handoff' \in {handoff, NoHandoff}
  PROVE  HandoffInv'
  BY DEF IInv, HandoffInv, NoAnswer

\* A step of the UI that makes no stop request: it shows a session as running only when
\* the status file says so, and asks for an extension only when there is none.
LEMMA UiIInv ==
  ASSUME IInv, UiType', CountInv', HandoffInv',
         UNCHANGED <<ext, kills, fresh>>, startReq' \in BOOLEAN, stoppedFor' \in Nat,
         file' \in Files, file'.status = file.status, file'.sreq = file.sreq,
         startReq' => startReq \/ (~Alive /\ shown' # "running"),
         shown' = "running" => shown = "running" \/ file.status = "running"
  PROVE  IInv'
<1>1. ExtType'
  BY DEF IInv, ExtType
<1>2. RequestInv'
  BY DEF IInv, RequestInv, Alive, StopIsForThisSession
<1>3. SeenInv'
  BY DEF IInv, SeenInv, RequestInv, Alive, StopFindsSession, Up
<1>4. QED
  BY <1>1, <1>2, <1>3 DEF IInv

\* The same, for a step that leaves the files alone.
LEMMA UiQuietIInv ==
  ASSUME IInv, UiType', CountInv',
         UNCHANGED <<ext, kills, fresh, file, stoppedFor>>, handoff' \in {handoff, NoHandoff},
         startReq' \in {startReq, FALSE},
         shown' = "running" => shown = "running" \/ file.status = "running"
  PROVE  IInv'
<1>1. HandoffInv'
  BY HandoffKept
<1>2. stoppedFor' \in Nat /\ file' \in Files /\ startReq \in BOOLEAN
  BY DEF IInv, ExtType
<1>3. startReq' \in BOOLEAN
  BY <1>2
<1>4. startReq' => startReq
  BY <1>2
<1>5. QED
  BY <1>1, <1>2, <1>3, <1>4, UiIInv

\* A file of which the handoff's answer and request are removed.
LEMMA ClearType ==
  ASSUME NEW f \in Files
  PROVE  /\ ClearHandoff(f) \in Files /\ [ClearHandoff(f) EXCEPT !.config = TRUE] \in Files
         /\ ClearHandoff(f).status = f.status /\ ClearHandoff(f).sreq = f.sreq
         /\ ClearHandoff(f).hreq = 0 /\ ClearHandoff(f).hres = NoAnswer
         /\ [ClearHandoff(f) EXCEPT !.config = TRUE].status = f.status
         /\ [ClearHandoff(f) EXCEPT !.config = TRUE].sreq = f.sreq
         /\ [ClearHandoff(f) EXCEPT !.config = TRUE].hreq = 0
         /\ [ClearHandoff(f) EXCEPT !.config = TRUE].hres = NoAnswer
  BY DEF Files, ClearHandoff, NoAnswer

\* No new command, extension or start request.
LEMMA CountKept ==
  ASSUME IInv, ext'.n = ext.n, nextId' = nextId, startReq' => startReq,
         chain'.at \in {"settings", "probe"} => chain.at \in {"settings", "probe"}
  PROVE  CountInv'
  BY DEF IInv, UiType, ExtType, Exts, CountInv, Pending

\* The flags of the two commands are only cleared.
LEMMA FlagsKept ==
  ASSUME IInv, connect' = connect \/ connect' = FALSE, disconnect' = disconnect \/ disconnect' = FALSE
  PROVE  connect' \in BOOLEAN /\ disconnect' \in BOOLEAN /\ ~(connect' /\ disconnect')
<1>0. connect \in BOOLEAN /\ disconnect \in BOOLEAN /\ ~(connect /\ disconnect)
  BY DEF IInv, UiType
<1>1. CASE connect' = FALSE
  BY <1>0, <1>1
<1>2. CASE disconnect' = FALSE
  BY <1>0, <1>2
<1>3. CASE connect' = connect /\ disconnect' = disconnect
  BY <1>0, <1>3
<1>4. QED
  BY <1>1, <1>2, <1>3
-----------------------------------------------------------------------------
(* The connect command *)

\* A command takes the next number.
LEMMA BeginConnectIInv ==
  ASSUME IInv, BeginConnect
  PROVE  IInv'
<1>0. /\ UNCHANGED <<disconnect, shown, handoff, uiBackend, ext, file, startReq, fresh, kills,
                     stoppedFor>>
      /\ disconnect = FALSE
  BY DEF BeginConnect, system, history, IInv, UiType
<1>1. UiType' /\ CountInv'
  <2>1. CASE active # 0
    <3>1. connId' = 0 /\ UNCHANGED <<active, nextId, connect, chain>>
      BY <2>1 DEF BeginConnect
    <3>2. UiType'
      BY <1>0, <3>1 DEF IInv, UiType
    <3>3. CountInv'
      BY <1>0, <3>1, CountKept
    <3>4. QED
      BY <3>2, <3>3
  <2>2. CASE active = 0
    <3>1. /\ nextId \in 1 .. MaxCommand
          /\ connId' = nextId /\ active' = nextId /\ nextId' = nextId + 1 /\ connect' = TRUE
          /\ chain' = [at |-> "settings", id |-> nextId]
      BY <2>2 DEF BeginConnect
    <3>2. UiType'
      <4>1. active' \in 0 .. MaxCommand /\ connId' \in 0 .. MaxCommand /\ nextId' \in 1 .. MaxCommand + 1
        BY <3>1
      <4>2. chain' \in [at : ChainSteps, id : Nat]
        BY <3>1 DEF ChainSteps
      <4>3. QED
        BY <1>0, <3>1, <4>1, <4>2 DEF IInv, UiType
    <3>3. CountInv'
      BY <1>0, <3>1 DEF IInv, ExtType, Exts, CountInv, Pending
    <3>4. QED
      BY <3>2, <3>3
  <2>3. QED
    BY <2>1, <2>2
<1>2. QED
  BY <1>0, <1>1, UiQuietIInv

\* The settings are awaited.
LEMMA AfterSettingsIInv ==
  ASSUME IInv, AfterSettings
  PROVE  IInv'
<1>0. /\ UNCHANGED <<active, nextId, connId, disconnect, shown, handoff, uiBackend, ext, file,
                     startReq, fresh, kills, stoppedFor>>
      /\ chain.at = "settings"
      /\ connect' = connect \/ connect' = FALSE
      /\ chain' = [chain EXCEPT !.at = "probe"] \/ chain' = Idle
  BY DEF AfterSettings, system, history
<1>1. chain' \in [at : ChainSteps, id : Nat]
  BY <1>0 DEF IInv, UiType, Idle, ChainSteps
<1>a. connect' \in BOOLEAN /\ disconnect' \in BOOLEAN /\ ~(connect' /\ disconnect')
  BY <1>0, FlagsKept
<1>2. UiType'
  BY <1>0, <1>1, <1>a DEF IInv, UiType
<1>3. CountInv'
  BY <1>0, CountKept
<1>4. QED
  BY <1>0, <1>2, <1>3, UiQuietIInv

\* startVpnProbe asks for an extension, at most once per command.
LEMMA StartProbeIInv ==
  ASSUME IInv, StartProbe
  PROVE  IInv'
<1>0. /\ UNCHANGED <<nextId, connId, disconnect, handoff, ext, fresh, kills, stoppedFor>>
      /\ chain.at = "probe"
  BY DEF StartProbe, history
<1>a. /\ file \in Files /\ startReq \in BOOLEAN /\ chain \in [at : ChainSteps, id : Nat]
      /\ connect \in BOOLEAN /\ uiBackend \in BOOLEAN /\ active \in 0 .. MaxCommand
  BY DEF IInv, UiType, ExtType
<1>b. uiBackend' \in BOOLEAN
  BY <1>a DEF StartProbe, StartBackend
<1>1. CASE RequestStart
  <2>1. /\ chain' = [chain EXCEPT !.at = "start"] /\ shown' = "busy"
        /\ file' = [ClearHandoff(file) EXCEPT !.config = TRUE]
        /\ startReq' = ~Alive /\ UNCHANGED <<active, connect>>
    BY <1>1 DEF RequestStart
  <2>2. /\ file' \in Files /\ file'.status = file.status /\ file'.sreq = file.sreq
        /\ file'.hreq = 0 /\ file'.hres = NoAnswer
    BY <1>a, <2>1, ClearType
  <2>3. chain' \in [at : ChainSteps, id : Nat] /\ chain'.at = "start"
    BY <1>a, <2>1 DEF ChainSteps
  <2>4. UiType'
    BY <1>0, <1>b, <2>1, <2>3 DEF IInv, UiType
  <2>5. CountInv'
    BY <1>0, <2>3 DEF IInv, UiType, ExtType, Exts, CountInv, Pending
  <2>6. HandoffInv'
    BY <1>0, <2>2, HandoffKept
  <2>7. startReq' \in BOOLEAN /\ stoppedFor' \in Nat
    BY <1>0, <2>1 DEF IInv, ExtType
  <2>8. startReq' => ~Alive /\ shown' # "running"
    BY <2>1
  <2>9. QED
    BY <1>0, <2>1, <2>2, <2>4, <2>5, <2>6, <2>7, <2>8, UiIInv
<1>2. CASE ~RequestStart
  <2>1. /\ UNCHANGED <<file, startReq, shown>> /\ chain' = Idle
        /\ connect' \in {connect, FALSE} /\ active' \in {active, 0}
    BY <1>2 DEF StartProbe, EndConnect, Complete
  <2>2. chain' \in [at : ChainSteps, id : Nat]
    BY <2>1 DEF Idle, ChainSteps
  <2>3. UiType'
    <3>1. active' \in 0 .. MaxCommand
      BY <1>a, <2>1
    <3>2. connect' \in BOOLEAN /\ disconnect' \in BOOLEAN /\ ~(connect' /\ disconnect')
      BY <1>0, <2>1, FlagsKept
    <3>3. QED
      BY <1>0, <1>b, <2>1, <2>2, <3>1, <3>2 DEF IInv, UiType
  <2>4. CountInv'
    BY <1>0, <2>1, CountKept DEF Idle
  <2>5. QED
    BY <1>0, <2>1, <2>3, <2>4, UiQuietIInv
<1>3. QED
  BY <1>1, <1>2

\* The system's answer to the start request.
LEMMA StartResolvesIInv ==
  ASSUME IInv, StartResolves
  PROVE  IInv'
<1>0. /\ UNCHANGED <<nextId, connId, disconnect, handoff, uiBackend, ext, file, fresh, kills,
                     stoppedFor>>
      /\ chain' = Idle
  BY DEF StartResolves, history
<1>1. startReq' = startReq \/ startReq' = FALSE
  BY DEF StartResolves
<1>2. active' \in 0 .. MaxCommand
  BY DEF StartResolves, Complete, IInv, UiType
<1>3. connect' = connect \/ connect' = FALSE
  <2>1. connect \in BOOLEAN
    BY DEF IInv, UiType
  <2>2. connect' = connect \/ connect' = (connect /\ ~IsActive(chain.id))
    BY DEF StartResolves
  <2>3. QED
    BY <2>1, <2>2
<1>4. shown' \in {"busy", "other", shown}
  BY DEF StartResolves
<1>5. chain' \in [at : ChainSteps, id : Nat]
  BY <1>0 DEF Idle, ChainSteps
<1>a. connect' \in BOOLEAN /\ disconnect' \in BOOLEAN /\ ~(connect' /\ disconnect')
  BY <1>0, <1>3, FlagsKept
<1>6. UiType'
  BY <1>0, <1>2, <1>4, <1>5, <1>a DEF IInv, UiType
<1>7. CountInv'
  <2>1. startReq' => startReq
    BY <1>1
  <2>2. QED
    BY <1>0, <2>1, CountKept DEF Idle
<1>8. startReq' \in {startReq, FALSE}
  BY <1>1
<1>9. shown' = "running" => shown = "running"
  BY <1>4
<1>10. QED
  BY <1>0, <1>6, <1>7, <1>8, <1>9, UiQuietIInv
-----------------------------------------------------------------------------
(* The UI's other steps *)

\* Steps that end commands, clear flags, start the backend or read the status.
LEMMA UiSmallIInv ==
  ASSUME IInv, UNCHANGED <<nextId, connId, ext, kills, fresh, file, stoppedFor>>,
         chain' \in {chain, Idle}, handoff' \in {handoff, NoHandoff}, active' \in {active, 0},
         connect' = connect \/ connect' = FALSE, disconnect' = disconnect \/ disconnect' = FALSE,
         shown' \in {"running", "busy", "other"},
         shown' = "running" => shown = "running" \/ file.status = "running",
         uiBackend' \in BOOLEAN, startReq' \in {startReq, FALSE}
  PROVE  IInv'
<1>1. connect' \in BOOLEAN /\ disconnect' \in BOOLEAN /\ ~(connect' /\ disconnect')
  BY FlagsKept
<1>2. chain' \in [at : ChainSteps, id : Nat] /\ handoff' \in [id : Nat, req : Nat]
  BY DEF IInv, UiType, Idle, NoHandoff, ChainSteps
<1>3. UiType'
  BY <1>1, <1>2 DEF IInv, UiType
<1>4. startReq' => startReq
  OBVIOUS
<1>5. CountInv'
  BY <1>4, CountKept DEF Idle
<1>6. QED
  BY <1>3, <1>5, UiQuietIInv

\* The types that a small step keeps.
LEMMA UiTypes ==
  ASSUME IInv
  PROVE  /\ uiBackend \in BOOLEAN /\ startReq \in BOOLEAN /\ file \in Files
         /\ shown \in {"running", "busy", "other"}
         /\ connect \in BOOLEAN /\ disconnect \in BOOLEAN
         /\ chain \in [at : ChainSteps, id : Nat] /\ handoff \in [id : Nat, req : Nat]
         /\ \A c : (IF IsActive(c) THEN 0 ELSE active) \in {active, 0}
  BY DEF IInv, UiType, ExtType

\* Each of these steps is one of those.
LEMMA SmallSteps ==
  ASSUME IInv, \/ CommitConnected \/ Look \/ RecoveryEnds \/ HealthCheck \/ UiRestarted
               \/ StopTimesOut \/ StopResolves \/ DeferTimer
  PROVE  IInv'
<1> USE DEF ui, later, jobs, system, history, Complete, StartBackend
<1>1. CASE CommitConnected
  BY <1>1, UiTypes, UiSmallIInv DEF CommitConnected
<1>2. CASE Look
  <2>1. shown' \in {"running", "busy", "other"} /\ (shown' = "running" => file.status = "running")
    BY <1>2 DEF Look, Shown
  <2>2. QED
    BY <1>2, <2>1, UiTypes, UiSmallIInv DEF Look
<1>3. CASE RecoveryEnds
  <2>1. uiBackend' \in BOOLEAN /\ startReq' \in {startReq, FALSE}
    BY <1>3, UiTypes DEF RecoveryEnds
  <2>2. QED
    BY <1>3, <2>1, UiTypes, UiSmallIInv DEF RecoveryEnds
<1>4. CASE HealthCheck
  BY <1>4, UiTypes, UiSmallIInv DEF HealthCheck
<1>5. CASE UiRestarted
  <2>1. shown' \in {"running", "busy", "other"} /\ (shown' = "running" => file.status = "running")
    BY <1>5 DEF UiRestarted, Shown
  <2>2. uiBackend' \in BOOLEAN
    BY <1>5, UiTypes DEF UiRestarted
  <2>3. QED
    BY <1>5, <2>1, <2>2, UiTypes, UiSmallIInv DEF UiRestarted
<1>6. CASE StopTimesOut
  BY <1>6, UiTypes, UiSmallIInv DEF StopTimesOut
<1>7. CASE StopResolves
  <2>1. uiBackend' \in BOOLEAN /\ startReq' \in {startReq, FALSE}
    BY <1>7, UiTypes DEF StopResolves
  <2>2. QED
    BY <1>7, <2>1, UiTypes, UiSmallIInv DEF StopResolves
<1>8. CASE DeferTimer
  <2>1. uiBackend' \in BOOLEAN
    BY <1>8, UiTypes DEF DeferTimer
  <2>2. QED
    BY <1>8, <2>1, UiTypes, UiSmallIInv DEF DeferTimer
<1>9. QED
  BY <1>1, <1>2, <1>3, <1>4, <1>5, <1>6, <1>7, <1>8

\* processVpnBackendHandoffRequest takes the latest request.
LEMMA TakeHandoffIInv ==
  ASSUME IInv, TakeHandoff
  PROVE  IInv'
<1>0. /\ UNCHANGED <<active, nextId, connId, connect, disconnect, shown, chain, uiBackend, ext,
                     startReq, fresh, kills, stoppedFor>>
      /\ file.hreq # 0 /\ handoff' = [id |-> connId, req |-> file.hreq]
      /\ file' = [file EXCEPT !.hreq = 0]
  BY DEF TakeHandoff, ui, history
<1>1. /\ file' \in Files /\ file'.status = file.status /\ file'.sreq = file.sreq
      /\ file'.hreq = 0 /\ file'.hres = file.hres /\ file.hreq \in Nat
  BY <1>0, UiTypes DEF Files
<1>2. UiType'
  <2>1. handoff' \in [id : Nat, req : Nat]
    BY <1>0, <1>1 DEF IInv, UiType
  <2>2. QED
    BY <1>0, <2>1 DEF IInv, UiType
<1>3. CountInv'
  BY <1>0, CountKept
<1>4. HandoffInv'
  <2>1. handoff'.req = ext.n
    BY <1>0 DEF IInv, HandoffInv
  <2>2. QED
    BY <1>0, <1>1, <2>1 DEF IInv, HandoffInv
<1>5. QED
  BY <1>0, <1>1, <1>2, <1>3, <1>4, UiIInv DEF IInv, ExtType

\* The stop for the handoff returns: its answer counts for the extension that asked.
LEMMA HandoffStoppedIInv ==
  ASSUME IInv, HandoffStopped
  PROVE  IInv'
<1>0. /\ UNCHANGED <<active, nextId, connId, connect, disconnect, shown, chain, ext,
                     startReq, fresh, kills>>
      /\ handoff # NoHandoff /\ handoff' = NoHandoff
  BY DEF HandoffStopped, ui, history
<1>1. PICK ok \in BOOLEAN :
          /\ uiBackend' = (uiBackend /\ ~ok)
          /\ stoppedFor' = IF ok THEN handoff.req ELSE stoppedFor
          /\ file' = IF IsActive(handoff.id)
                     THEN [file EXCEPT !.hres = [id |-> handoff.req, ok |-> ok]] ELSE file
  BY DEF HandoffStopped
<1>2. handoff.req \in Nat /\ stoppedFor \in Nat
  BY UiTypes DEF IInv, ExtType
<1>3. /\ file' \in Files /\ file'.status = file.status /\ file'.sreq = file.sreq
      /\ file'.hreq = file.hreq
      /\ file'.hres = file.hres \/ (file'.hres.id = handoff.req /\ file'.hres.ok = ok)
  BY <1>1, <1>2, UiTypes DEF Files
<1>4. UiType'
  <2>1. handoff' \in [id : Nat, req : Nat]
    BY <1>0 DEF NoHandoff
  <2>2. uiBackend' \in BOOLEAN
    BY <1>1
  <2>3. QED
    BY <1>0, <2>1, <2>2 DEF IInv, UiType
<1>5. CountInv'
  BY <1>0, CountKept
<1>6. HandoffInv'
  <2>1. file'.hreq # 0 => file'.hreq = ext'.n
    BY <1>0, <1>3 DEF IInv, HandoffInv
  <2>2. ASSUME file'.hres.ok, file'.hres.id = ext'.n PROVE stoppedFor' = ext'.n
    <3>1. CASE file'.hres = file.hres
      <4>1. stoppedFor = ext.n /\ handoff.req = ext.n
        BY <1>0, <2>2, <3>1 DEF IInv, HandoffInv
      <4>2. QED
        BY <1>0, <1>1, <4>1
    <3>2. CASE file'.hres.id = handoff.req /\ file'.hres.ok = ok
      BY <1>1, <2>2, <3>2
    <3>3. QED
      BY <1>3, <3>1, <3>2
  <2>3. QED
    BY <1>0, <2>1, <2>2 DEF HandoffInv
<1>7. stoppedFor' \in Nat
  BY <1>1, <1>2
<1>8. QED
  BY <1>0, <1>3, <1>4, <1>5, <1>6, <1>7, UiIInv DEF IInv, ExtType

\* A failure that is seen, and a stop's answer that is taken.
LEMMA SeenIInv ==
  ASSUME IInv, SeeFailure \/ StopAnswered
  PROVE  IInv'
<1>0. /\ UNCHANGED <<nextId, connId, disconnect, chain, handoff, uiBackend, ext, startReq, fresh,
                     kills, stoppedFor>>
      /\ shown' \in {shown, "other"}
      /\ active' \in {active, 0}
      /\ connect' = connect \/ connect' = FALSE
  BY DEF SeeFailure, StopAnswered, ui, history, Complete
<1>1. /\ file' \in Files /\ file'.status = file.status /\ file'.sreq = file.sreq
      /\ file'.hreq \in {file.hreq, 0} /\ file'.hres \in {file.hres, NoAnswer}
  <2>1. CASE SeeFailure
    <3>1. file' = file \/ file' = ClearHandoff(file)
      BY <2>1 DEF SeeFailure
    <3>2. QED
      BY <3>1, UiTypes, ClearType
  <2>2. CASE StopAnswered
    <3>1. file' = [file EXCEPT !.sres = 0]
      BY <2>2 DEF StopAnswered
    <3>2. QED
      BY <3>1, UiTypes DEF Files
  <2>3. QED
    BY <2>1, <2>2
<1>2. UiType'
  <2>1. connect' \in BOOLEAN /\ disconnect' \in BOOLEAN /\ ~(connect' /\ disconnect')
    BY <1>0, FlagsKept
  <2>2. QED
    BY <1>0, <2>1 DEF IInv, UiType
<1>3. CountInv' /\ HandoffInv'
  BY <1>0, <1>1, CountKept, HandoffKept
<1>4. QED
  BY <1>0, <1>1, <1>2, <1>3, UiIInv DEF IInv, ExtType

\* stopVpnProbe makes its request for the extension that is there, and only when a
\* session is shown as running.
LEMMA StopProbeIInv ==
  ASSUME IInv, StopProbe
  PROVE  IInv'
<1>0. /\ UNCHANGED <<connId, shown, chain, handoff, uiBackend, ext, startReq, fresh, kills,
                     stoppedFor>>
      /\ connect' = FALSE /\ shown = "running"
  BY DEF StopProbe, history
<1>1. CASE active \in {0, connId}
  <2>0. /\ nextId \in 1 .. MaxCommand /\ active' = nextId /\ nextId' = nextId + 1
        /\ disconnect' = TRUE
    BY <1>1 DEF StopProbe
  <2>1. UiType'
    <3>1. active' \in 0 .. MaxCommand /\ nextId' \in 1 .. MaxCommand + 1
      BY <2>0
    <3>2. connect' \in BOOLEAN /\ disconnect' \in BOOLEAN /\ ~(connect' /\ disconnect')
      BY <1>0, <2>0
    <3>3. QED
      BY <1>0, <3>1, <3>2 DEF IInv, UiType
  <2>2. CountInv'
    BY <1>0, <2>0 DEF IInv, ExtType, Exts, CountInv, Pending
  <2>3. \/ file' = [file EXCEPT !.sres = 0, !.sreq = [id |-> nextId, of |-> IF Alive THEN ext.n ELSE 0]]
        \/ file' = [file EXCEPT !.sres = 0]
    BY <1>1 DEF StopProbe
  <2>4. /\ file' \in Files /\ file'.status = file.status /\ file'.hreq = file.hreq
        /\ file'.hres = file.hres
        /\ file'.sreq = file.sreq \/ (Alive => file'.sreq.of = ext.n)
    <3>1. ext.n \in Nat /\ nextId \in Nat
      BY <2>0 DEF IInv, ExtType, Exts
    <3>2. CASE file' = [file EXCEPT !.sres = 0]
      BY <3>2, UiTypes DEF Files
    <3>3. CASE file' # [file EXCEPT !.sres = 0]
      <4> DEFINE of == IF Alive THEN ext.n ELSE 0
                 stop == [id |-> nextId, of |-> of]
      <4>1. stop \in Stops /\ stop.of = of /\ (Alive => of = ext.n)
        BY <3>1 DEF Stops
      <4>2. file' = [file EXCEPT !.sres = 0, !.sreq = stop]
        BY <2>3, <3>3
      <4> HIDE DEF stop
      <4>3. /\ file' \in Files /\ file'.status = file.status /\ file'.hreq = file.hreq
            /\ file'.hres = file.hres /\ file'.sreq = stop
        BY <4>1, <4>2, UiTypes DEF Files
      <4>4. QED
        BY <4>1, <4>3
    <3>4. QED
      BY <3>2, <3>3
  <2>5. HandoffInv'
    BY <1>0, <2>4, HandoffKept
  <2>6. ExtType'
    BY <1>0, <2>4 DEF IInv, ExtType
  <2>7. RequestInv'
    BY <1>0, <2>4 DEF IInv, RequestInv, Alive, StopIsForThisSession
  <2>8. SeenInv'
    BY <1>0, <2>4 DEF IInv, SeenInv, Alive, StopFindsSession
  <2>9. QED
    BY <2>1, <2>2, <2>5, <2>6, <2>7, <2>8 DEF IInv
<1>2. CASE active \notin {0, connId}
  <2>1. UNCHANGED <<active, nextId, disconnect, file>>
    BY <1>2 DEF StopProbe
  <2>2. QED
    BY <1>0, <2>1, UiTypes, UiSmallIInv
<1>3. QED
  BY <1>1, <1>2
-----------------------------------------------------------------------------
(* The extension *)

uiVars == <<ui, chain, handoff, uiBackend, startReq, stoppedFor>>

\* The extension's steps leave the UI's variables alone.
LEMMA UiTypeKept ==
  ASSUME IInv, UNCHANGED <<ui, chain, handoff, uiBackend>>
  PROVE  UiType'
  BY DEF IInv, UiType, ui

\* A step of an extension that is not up yet: there is no stop request for it, and the
\* UI does not show it as running.
LEMMA StartupIInv ==
  ASSUME IInv, UNCHANGED <<uiVars, kills>>, Alive, ext.at \notin Up,
         ext' \in Exts, ext'.n = ext.n, ext'.stop = ext.stop, ext'.at # "none",
         file' \in Files, file'.sreq = file.sreq, fresh' \in BOOLEAN,
         file'.status \in {file.status} \/ (file'.status = "running" => ext'.at = "running"),
         HandoffInv'
  PROVE  IInv'
<1> USE DEF uiVars
<1>1. UiType'
  BY UiTypeKept
<1>2. ExtType'
  BY DEF IInv, ExtType
<1>3. CountInv'
  BY DEF IInv, CountInv, Pending, ui
<1>4. RequestInv'
  BY DEF IInv, RequestInv, Alive, StopIsForThisSession
<1>5. SeenInv'
  <2> SUFFICES ASSUME kills = 0 PROVE SeenInv'
    BY DEF SeenInv
  <2>1. /\ file.sreq = NoStop /\ ext.stop = NoStop /\ shown # "running"
        /\ file.status # "running" /\ ~startReq
    BY DEF IInv, SeenInv, RequestInv, StopFindsSession, Up
  <2>2. QED
    BY <2>1 DEF SeenInv, Alive, StopFindsSession, ui
<1>6. QED
  BY <1>1, <1>2, <1>3, <1>4, <1>5 DEF IInv

\* The types of an extension and of the file.
LEMMA ExtTypes ==
  ASSUME IInv
  PROVE  ext \in Exts /\ file \in Files /\ fresh \in BOOLEAN /\ ext.n \in Nat
  BY DEF IInv, ExtType, Exts

\* A new step of the extension.
LEMMA StepType ==
  ASSUME IInv, NEW at \in ExtSteps, ext' = [ext EXCEPT !.at = at]
  PROVE  ext' \in Exts /\ ext'.n = ext.n /\ ext'.stop = ext.stop /\ ext'.at = at
  BY ExtTypes DEF Exts

\* A new status.
LEMMA WriteType ==
  ASSUME IInv, NEW st \in Statuses, file' = [file EXCEPT !.status = st]
  PROVE  /\ file' \in Files /\ file'.status = st /\ file'.sreq = file.sreq
         /\ file'.hreq = file.hreq /\ file'.hres = file.hres
  BY ExtTypes DEF Files

\* The startup, step by step: the config is restored.
LEMMA ExtRestoreIInv ==
  ASSUME IInv, ExtRestore
  PROVE  IInv'
<1>0. UNCHANGED <<uiVars, kills, fresh>> /\ file' = [file EXCEPT !.config = FALSE]
  BY DEF ExtRestore, uiVars, jobs, history
<1>1. /\ file' \in Files /\ file'.status = file.status /\ file'.sreq = file.sreq
      /\ file'.hreq = file.hreq /\ file'.hres = file.hres
  BY <1>0, ExtTypes DEF Files
<1>2. ext.at \in {"restore", "restoring"}
  BY DEF ExtRestore
<1>3. \E at \in {"create", "restoring", "bare"} : ext' = [ext EXCEPT !.at = at]
  BY DEF ExtRestore, Goto
<1>4. ext' \in Exts /\ ext'.n = ext.n /\ ext'.stop = ext.stop /\ ext'.at # "none"
  BY <1>3, StepType DEF ExtSteps
<1>5. HandoffInv'
  BY <1>0, <1>1, <1>4, HandoffKept DEF uiVars
<1>6. QED
  BY <1>0, <1>1, <1>2, <1>4, <1>5, ExtTypes, StartupIInv DEF Alive, Up

\* The TUN is created and the handoff requested, or the startup ends.
LEMMA ExtTunIInv ==
  ASSUME IInv, ExtTun
  PROVE  IInv'
<1>0. UNCHANGED <<uiVars, kills>> /\ fresh' = TRUE /\ ext.at \in {"create", "bare"}
  BY DEF ExtTun, Write, uiVars, jobs, history
<1>1. CASE file' = [file EXCEPT !.hreq = ext.n, !.hres = NoAnswer, !.status = "pending"] /\ Goto("handoff")
  <2>1. /\ file' \in Files /\ file'.status = "pending" /\ file'.sreq = file.sreq
        /\ file'.hreq = ext.n /\ file'.hres = NoAnswer
    BY <1>1, ExtTypes DEF Files, Statuses, NoAnswer
  <2>2. ext' \in Exts /\ ext'.n = ext.n /\ ext'.stop = ext.stop /\ ext'.at = "handoff"
    BY <1>1, StepType DEF Goto, ExtSteps
  <2>3. HandoffInv'
    BY <2>1, <2>2 DEF HandoffInv, NoAnswer
  <2>4. QED
    BY <1>0, <2>1, <2>2, <2>3, StartupIInv DEF Alive, Up
<1>2. ASSUME NEW at \in {"idle", "conflict"}, NEW st \in {"notready", "failed", "conflict"},
             Goto(at), Write(st)
      PROVE  IInv'
  <2>1. ext' \in Exts /\ ext'.n = ext.n /\ ext'.stop = ext.stop /\ ext'.at = at
    BY <1>2, StepType DEF Goto, ExtSteps
  <2>2. /\ file' \in Files /\ file'.status = st /\ file'.sreq = file.sreq
        /\ file'.hreq = file.hreq /\ file'.hres = file.hres
    BY <1>2, WriteType DEF Write, Statuses
  <2>3. HandoffInv'
    BY <1>0, <2>1, <2>2, HandoffKept DEF uiVars
  <2>4. QED
    BY <1>0, <2>1, <2>2, <2>3, StartupIInv DEF Alive, Up
<1>3. QED
  BY <1>1, <1>2 DEF ExtTun

\* The answer to the request, or its timeout.
LEMMA ExtHandoffIInv ==
  ASSUME IInv, ExtHandoff
  PROVE  IInv'
<1>0. UNCHANGED <<uiVars, kills>> /\ fresh' = TRUE /\ ext.at = "handoff"
  BY DEF ExtHandoff, uiVars, jobs, history
<1>1. PICK at \in {"wait", "idle"}, st \in {"starting", "failed"} :
        Goto(at) /\ file' = [file EXCEPT !.hres = NoAnswer, !.status = st]
  BY DEF ExtHandoff
<1>2. ext' \in Exts /\ ext'.n = ext.n /\ ext'.stop = ext.stop /\ ext'.at = at
  BY <1>1, StepType DEF Goto, ExtSteps
<1>3. /\ file' \in Files /\ file'.status = st /\ file'.sreq = file.sreq
      /\ file'.hreq = file.hreq /\ file'.hres = NoAnswer
  BY <1>1, ExtTypes DEF Files, Statuses, NoAnswer
<1>4. HandoffInv'
  BY <1>0, <1>2, <1>3, HandoffKept DEF uiVars
<1>5. QED
  BY <1>0, <1>2, <1>3, <1>4, StartupIInv DEF Alive, Up

\* The backend runs, or does not.
LEMMA ExtWaitIInv ==
  ASSUME IInv, ExtWait
  PROVE  IInv'
<1>0. UNCHANGED <<uiVars, kills>> /\ fresh' = TRUE /\ ext.at = "wait"
  BY DEF ExtWait, Write, uiVars, jobs, history
<1>1. PICK at \in {"running", "idle"}, st \in {"running", "failed"} :
        Goto(at) /\ Write(st) /\ (st = "running" => at = "running")
  BY DEF ExtWait
<1>2. ext' \in Exts /\ ext'.n = ext.n /\ ext'.stop = ext.stop /\ ext'.at = at
  BY <1>1, StepType DEF Goto, ExtSteps
<1>3. /\ file' \in Files /\ file'.status = st /\ file'.sreq = file.sreq
      /\ file'.hreq = file.hreq /\ file'.hres = file.hres
  BY <1>1, WriteType DEF Write, Statuses
<1>4. HandoffInv'
  BY <1>0, <1>2, <1>3, HandoffKept DEF uiVars
<1>5. QED
  BY <1>0, <1>1, <1>2, <1>3, <1>4, StartupIInv DEF Alive, Up

\* onCreate removes every request made before, and the UI has not seen this one run.
LEMMA ExtCreateIInv ==
  ASSUME IInv, ExtCreate
  PROVE  IInv'
<1>0. /\ UNCHANGED <<ui, chain, handoff, uiBackend, stoppedFor, kills>>
      /\ startReq = TRUE /\ startReq' = FALSE /\ fresh' = TRUE
      /\ ext' = [n |-> ext.n + 1, at |-> "restore", stop |-> NoStop]
      /\ file' = [ClearHandoff(file) EXCEPT !.sreq = NoStop, !.sres = 0, !.status = "entered"]
  BY ExtTypes DEF ExtCreate, jobs, history, IInv, ExtType
<1>1. ext' \in Exts /\ ext'.n = ext.n + 1 /\ ext'.at = "restore" /\ ext'.stop = NoStop
  BY <1>0, ExtTypes DEF Exts, ExtSteps, Stops, NoStop
<1>2. /\ file' \in Files /\ file'.status = "entered" /\ file'.sreq = NoStop
      /\ file'.hreq = 0 /\ file'.hres = NoAnswer
  <2>1. ClearHandoff(file) \in Files /\ ClearHandoff(file).hreq = 0 /\ ClearHandoff(file).hres = NoAnswer
    BY ExtTypes, ClearType
  <2>2. QED
    BY <1>0, <2>1 DEF Files, Statuses, Stops, NoStop
<1>3. UiType'
  BY <1>0, UiTypeKept
<1>4. ExtType'
  BY <1>0, <1>1, <1>2 DEF IInv, ExtType
<1>5. CountInv'
  BY <1>0, <1>1, ExtTypes DEF IInv, UiType, CountInv, Pending, ui
<1>6. RequestInv'
  BY <1>0, <1>1, <1>2 DEF RequestInv, Alive, StopIsForThisSession
<1>7. SeenInv'
  <2>1. kills = 0 => shown # "running"
    BY <1>0 DEF IInv, SeenInv
  <2>2. QED
    BY <1>0, <1>1, <1>2, <2>1 DEF SeenInv, Alive, StopFindsSession, ui
<1>8. HandoffInv'
  BY <1>2 DEF HandoffInv, NoAnswer
<1>9. QED
  BY <1>3, <1>4, <1>5, <1>6, <1>7, <1>8 DEF IInv

\* The watcher takes the stop request that is on disk.
LEMMA ExtStopIInv ==
  ASSUME IInv, ExtStop
  PROVE  IInv'
<1>0. /\ UNCHANGED <<uiVars, fresh, kills>> /\ Alive /\ file.sreq # NoStop
      /\ ext' = [ext EXCEPT !.stop = file.sreq] /\ file' = [file EXCEPT !.sreq = NoStop]
  BY DEF ExtStop, uiVars, jobs, history
<1>1. ext' \in Exts /\ ext'.n = ext.n /\ ext'.at = ext.at /\ ext'.stop = file.sreq
  BY <1>0, ExtTypes DEF Exts, Files
<1>2. /\ file' \in Files /\ file'.status = file.status /\ file'.sreq = NoStop
      /\ file'.hreq = file.hreq /\ file'.hres = file.hres
  BY <1>0, ExtTypes DEF Files, Stops, NoStop
<1>3. UiType' /\ ExtType' /\ CountInv'
  BY <1>0, <1>1, <1>2, UiTypeKept DEF IInv, ExtType, CountInv, Pending, uiVars, ui
<1>4. RequestInv'
  BY <1>0, <1>1, <1>2 DEF IInv, RequestInv, Alive, StopIsForThisSession, uiVars
<1>5. SeenInv'
  BY <1>0, <1>1, <1>2 DEF IInv, SeenInv, Alive, StopFindsSession, uiVars, ui, Up
<1>6. HandoffInv'
  BY <1>0, <1>1, <1>2, HandoffKept DEF uiVars
<1>7. QED
  BY <1>3, <1>4, <1>5, <1>6 DEF IInv

\* stopVpnAndBackend serves it.
LEMMA ExtStoppedIInv ==
  ASSUME IInv, ExtStopped
  PROVE  IInv'
<1> DEFINE at == IF ext.at = "running" THEN "stopped" ELSE ext.at
<1>0. /\ UNCHANGED <<uiVars, kills>> /\ fresh' = TRUE /\ Alive
      /\ ext' = [ext EXCEPT !.stop = NoStop, !.at = at]
  BY DEF ExtStopped, uiVars, jobs, history
<1>1. PICK staged \in {file.config, TRUE} :
          file' = [file EXCEPT !.status = "disconnected", !.config = staged, !.sres = ext.stop.id]
  BY DEF ExtStopped
<1>2. at \in ExtSteps /\ at # "none" /\ (ext.at \in Up => at \in Up)
  BY <1>0, ExtTypes DEF Alive, Exts, ExtSteps, Up
<1> HIDE DEF at
<1>3. ext' \in Exts /\ ext'.n = ext.n /\ ext'.at = at /\ ext'.stop = NoStop
  BY <1>0, <1>2, ExtTypes DEF Exts, Stops, NoStop
<1>4. /\ file' \in Files /\ file'.status = "disconnected" /\ file'.sreq = file.sreq
      /\ file'.hreq = file.hreq /\ file'.hres = file.hres
  <2>1. ext.stop.id \in Nat /\ staged \in BOOLEAN
    BY ExtTypes DEF Exts, Stops, Files
  <2>2. QED
    BY <1>1, <2>1, ExtTypes DEF Files, Statuses
<1>5. UiType' /\ ExtType' /\ CountInv'
  BY <1>0, <1>3, <1>4, UiTypeKept DEF IInv, ExtType, CountInv, Pending, uiVars, ui
<1>6. RequestInv'
  BY <1>0, <1>3, <1>4 DEF IInv, RequestInv, Alive, StopIsForThisSession, uiVars
<1>7. SeenInv'
  BY <1>0, <1>2, <1>3, <1>4 DEF IInv, SeenInv, Alive, StopFindsSession, uiVars, ui
<1>8. HandoffInv'
  BY <1>0, <1>3, <1>4, HandoffKept DEF uiVars
<1>9. QED
  BY <1>5, <1>6, <1>7, <1>8 DEF IInv

\* The extension is destroyed, which the status says, or dies, which it does not.
LEMMA ExtGoneIInv ==
  ASSUME IInv, ExtDestroy \/ ExtKilled
  PROVE  IInv'
<1>0. /\ UNCHANGED uiVars /\ Alive
      /\ ext' = [ext EXCEPT !.at = "none", !.stop = NoStop]
  BY DEF ExtDestroy, ExtKilled, uiVars, jobs, history
<1>1. ext' \in Exts /\ ext'.n = ext.n /\ ext'.at = "none" /\ ext'.stop = NoStop
  BY <1>0, ExtTypes DEF Exts, ExtSteps, Stops, NoStop
<1>2. /\ file' \in Files /\ file'.sreq = file.sreq /\ file'.hreq = file.hreq
      /\ file'.hres = file.hres /\ fresh' \in BOOLEAN /\ kills' \in Nat
      /\ kills' = 0 => file'.status = "destroyed"
  <2>1. CASE ExtDestroy
    BY <2>1, ExtTypes, WriteType DEF ExtDestroy, Write, Statuses, history, IInv, ExtType
  <2>2. CASE ExtKilled
    BY <2>2, ExtTypes DEF ExtKilled, IInv, ExtType
  <2>3. QED
    BY <2>1, <2>2
<1>3. UiType' /\ ExtType' /\ CountInv'
  BY <1>0, <1>1, <1>2, UiTypeKept DEF IInv, ExtType, CountInv, Pending, uiVars, ui
<1>4. RequestInv'
  BY <1>1 DEF RequestInv, Alive, StopIsForThisSession
<1>5. SeenInv'
  <2>1. ~startReq'
    BY <1>0 DEF IInv, RequestInv, uiVars
  <2>2. QED
    BY <1>1, <1>2, <2>1 DEF SeenInv, Alive, StopFindsSession
<1>6. HandoffInv'
  BY <1>0, <1>1, <1>2, HandoffKept DEF uiVars
<1>7. QED
  BY <1>3, <1>4, <1>5, <1>6 DEF IInv

\* A heartbeat or a staged config becomes too old.
LEMMA AgeIInv ==
  ASSUME IInv, HeartbeatStale \/ ConfigExpires
  PROVE  IInv'
<1>0. UNCHANGED <<uiVars, ext, kills>> /\ fresh' \in BOOLEAN
  BY ExtTypes DEF HeartbeatStale, ConfigExpires, uiVars, jobs, history
<1>1. /\ file' \in Files /\ file'.status = file.status /\ file'.sreq = file.sreq
      /\ file'.hreq = file.hreq /\ file'.hres = file.hres
  BY ExtTypes DEF HeartbeatStale, ConfigExpires, Files
<1>2. UiType' /\ ExtType' /\ CountInv'
  BY <1>0, <1>1, UiTypeKept DEF IInv, ExtType, CountInv, Pending, uiVars, ui
<1>3. RequestInv' /\ SeenInv'
  BY <1>0, <1>1 DEF IInv, RequestInv, SeenInv, Alive, StopIsForThisSession, StopFindsSession,
     uiVars, ui
<1>4. HandoffInv'
  BY <1>0, <1>1, HandoffKept DEF uiVars
<1>5. QED
  BY <1>2, <1>3, <1>4 DEF IInv
-----------------------------------------------------------------------------
\* Every step keeps the inductive invariant.
LEMMA NextIInv == IInv /\ [Next]_vars => IInv'
<1> SUFFICES ASSUME IInv, [Next]_vars PROVE IInv'
  OBVIOUS
<1>1. CASE UiStep \/ LookStep \/ StopStep
  BY <1>1, AfterSettingsIInv, StartProbeIInv, StartResolvesIInv, TakeHandoffIInv, SeenIInv,
     SmallSteps DEF UiStep, LookStep, StopStep
<1>2. CASE ExtStep
  BY <1>2, ExtRestoreIInv, ExtTunIInv, ExtHandoffIInv, ExtWaitIInv DEF ExtStep
<1>3. CASE UNCHANGED vars
  <2>1. UNCHANGED <<nextId, connId, ext, kills, fresh, file, stoppedFor, chain, handoff, active,
                    connect, disconnect, shown, uiBackend, startReq>>
    BY <1>3 DEF vars, ui, jobs, system, history
  <2>2. QED
    BY <2>1, UiTypes, UiSmallIInv
<1>4. QED
  BY <1>1, <1>2, <1>3, BeginConnectIInv, HandoffStoppedIInv, SmallSteps, StopProbeIInv,
     ExtCreateIInv, ExtStopIInv, ExtStoppedIInv, ExtGoneIInv, AgeIInv DEF Next

\* The inductive invariant holds in every reachable state.
LEMMA SpecIInv == Spec => []IInv
  BY InitIInv, NextIInv, PTL DEF Spec

\* A stop request is served by the extension it was made for and, as long as no
\* extension has died, only when that extension's session is up, whatever the UI, the
\* extension and the system do in between.
THEOREM StopsOwn == Spec => []StopInv
<1>1. IInv => StopInv
  <2> SUFFICES ASSUME IInv PROVE StopInv
    OBVIOUS
  <2>1. ext.n \in 0 .. MaxCommand
    <3>1. ext.n \in Nat /\ nextId \in 1 .. MaxCommand + 1 /\ ext.n < nextId
      BY DEF IInv, UiType, ExtType, Exts, CountInv, Pending
    <3>2. QED
      BY <3>1
  <2>2. file.hreq \in 0 .. MaxCommand
    BY <2>1 DEF IInv, HandoffInv
  <2>3. TypeOK
    BY <2>1, <2>2 DEF IInv, UiType, TypeOK
  <2>4. StopIsForThisSession /\ (kills = 0 => StopFindsSession)
    BY DEF IInv, RequestInv, SeenInv
  <2>5. QED
    BY <2>3, <2>4 DEF StopInv
<1>2. QED
  BY <1>1, SpecIInv, PTL

\* The extension starts its backend on the TUN only after the UI's backend was stopped
\* for this very request: a late or repeated stop for an older one never counts.
THEOREM HandoffsAnswered == Spec => HandoffAnswered
<1>1. IInv /\ [Next]_vars => [ext.at = "handoff" /\ ext'.at = "wait" => stoppedFor = ext.n]_vars
  <2> SUFFICES ASSUME IInv, Next, ext.at = "handoff", ext'.at = "wait"
               PROVE  stoppedFor = ext.n
    OBVIOUS
  <2>1. CASE ExtHandoff
    <3>1. CASE file.hres.id = ext.n /\ file.hres.ok
      BY <3>1 DEF IInv, HandoffInv
    <3>2. CASE ~(file.hres.id = ext.n /\ file.hres.ok)
      <4>1. Goto("idle")
        BY <2>1, <3>2 DEF ExtHandoff
      <4>2. ext'.at = "idle"
        BY <4>1, StepType DEF Goto, ExtSteps
      <4>3. QED
        BY <4>2
    <3>3. QED
      BY <3>1, <3>2
  <2>2. CASE ~ExtHandoff
    <3>1. ext' # ext
      OBVIOUS
    <3>2. ExtCreate \/ ExtStop \/ ExtStopped \/ ExtDestroy \/ ExtKilled
      BY <2>2, <3>1 DEF Next, ExtStep, UiStep, LookStep, StopStep, ExtRestore, ExtTun, ExtWait,
         BeginConnect, AfterSettings, StartProbe, StartResolves, TakeHandoff, CommitConnected,
         SeeFailure, Look, HandoffStopped, RecoveryEnds, HealthCheck, UiRestarted, StopProbe,
         StopAnswered, StopTimesOut, StopResolves, DeferTimer, HeartbeatStale, ConfigExpires, system
    <3>3. ext'.at # "wait"
      <4>1. CASE ExtCreate
        BY <4>1 DEF ExtCreate
      <4>2. CASE ExtStop \/ ExtStopped
        <5>1. \/ ext' = [ext EXCEPT !.stop = file.sreq]
              \/ ext' = [ext EXCEPT !.stop = NoStop, !.at = ext.at]
          BY <4>2 DEF ExtStop, ExtStopped
        <5>2. QED
          BY <5>1, ExtTypes DEF Exts
      <4>3. CASE ExtDestroy \/ ExtKilled
        <5>1. ext' = [ext EXCEPT !.at = "none", !.stop = NoStop]
          BY <4>3 DEF ExtDestroy, ExtKilled
        <5>2. QED
          BY <5>1, ExtTypes DEF Exts
      <4>4. QED
        BY <3>2, <4>1, <4>2, <4>3
    <3>4. QED
      BY <3>3
  <2>3. QED
    BY <2>1, <2>2
<1>2. QED
  BY <1>1, SpecIInv, PTL DEF Spec, HandoffAnswered
-----------------------------------------------------------------------------
(* The login command, for any number of backends, commands and polls.  LoginFlow's active *)
(* and nextId are the same VpnCommandStateMachine.                                         *)

CONSTANTS MaxGen, MaxAttempt
VARIABLES gen, loggedIn, url, requested, loginGen, loginStarted, logout, inProgress, opened,
          poll, repeated

Login == INSTANCE LoginFlow

PollSteps == {"none", "timer", "status", "claim", "request", "pending", "url", "browser"}
Polls == [at : PollSteps, gen : 0 .. MaxGen, attempt : 0 .. MaxAttempt]

LoginType ==
    /\ gen \in 1 .. MaxGen /\ loginGen \in 0 .. MaxGen /\ loginStarted \in BOOLEAN
    /\ active \in 0 .. MaxCommand /\ opened \in 0 .. MaxCommand
    /\ nextId \in 1 .. MaxCommand + 1 /\ poll \in [Login!Commands -> Polls]

\* Only the active command's chain of polls has a timer, and a chain that has opened its
\* page is over: that is why the end of a login leaves no timer behind.
TimerInv ==
    /\ \A c \in Login!Commands : poll[c].at = "timer" => c = active
    /\ \A c \in Login!Commands : opened = c /\ active = c => poll[c].at = "none"

LoginInv == LoginType /\ TimerInv

\* A poll in one of its steps.
LEMMA PollAt ==
  ASSUME NEW p \in Polls, NEW at \in PollSteps
  PROVE  [p EXCEPT !.at = at] \in Polls /\ [p EXCEPT !.at = at].at = at
  BY DEF Polls

\* A step of one chain keeps the invariant if the chain sets its timer only for the active
\* command, and ends when its command does or its page is open.
LEMMA ChainInv ==
  ASSUME Login!Bounds, LoginInv, NEW c \in Login!Commands, NEW p \in Polls,
         poll' = [poll EXCEPT ![c] = p], poll[c].at # "none",
         \/ UNCHANGED <<active, opened>> /\ (p.at = "timer" => c = active)
         \/ c = active /\ active' = 0 /\ opened' = 0 /\ p.at = "none"
         \/ c = active /\ active' = active /\ opened' = c /\ p.at = "none",
         nextId' = nextId, gen' = gen, loginGen' \in 0 .. MaxGen, loginStarted' \in BOOLEAN
  PROVE  LoginInv'
<1>1. poll \in [Login!Commands -> Polls] /\ c \in 1 .. MaxCommand
  BY DEF LoginInv, LoginType, Login!Commands
<1>2. /\ poll' \in [Login!Commands -> Polls] /\ poll'[c] = p
      /\ \A d \in Login!Commands : d # c => poll'[d] = poll[d]
  BY <1>1
<1>3. active' \in 0 .. MaxCommand /\ opened' \in 0 .. MaxCommand
  BY <1>1 DEF LoginInv, LoginType, Login!Bounds
<1>4. LoginType'
  BY <1>2, <1>3 DEF LoginInv, LoginType, Login!Commands
<1>5. \A d \in Login!Commands : d # 0
  BY DEF Login!Commands, Login!Bounds
<1>6. TimerInv'
  <2>1. CASE UNCHANGED <<active, opened>> /\ (p.at = "timer" => c = active)
    BY <1>2, <2>1 DEF LoginInv, TimerInv, Login!Commands
  <2>2. CASE c = active /\ active' = 0 /\ opened' = 0 /\ p.at = "none"
    BY <1>2, <1>5, <2>2 DEF LoginInv, TimerInv, Login!Commands
  <2>3. CASE c = active /\ active' = active /\ opened' = c /\ p.at = "none"
    BY <1>2, <2>3 DEF LoginInv, TimerInv, Login!Commands
  <2>4. QED
    BY <2>1, <2>2, <2>3
<1>7. QED
  BY <1>4, <1>6 DEF LoginInv

\* The steps of a poll.
LEMMA PollStepInv ==
  ASSUME Login!Bounds, LoginInv, NEW c \in Login!Commands, Login!PollStep(c)
  PROVE  LoginInv'
<1>1. /\ poll[c] \in Polls /\ poll[c].gen \in 0 .. MaxGen /\ gen \in 0 .. MaxGen
      /\ loginGen \in 0 .. MaxGen /\ loginStarted \in BOOLEAN
  <2>1. poll[c] \in Polls
    BY DEF LoginInv, LoginType
  <2>2. poll[c].gen \in 0 .. MaxGen /\ gen \in 0 .. MaxGen /\ loginGen \in 0 .. MaxGen
    BY <2>1 DEF LoginInv, LoginType, Login!Bounds, Polls
  <2>3. QED
    BY <2>1, <2>2 DEF LoginInv, LoginType
<1>2. nextId' = nextId /\ gen' = gen /\ loginGen' \in 0 .. MaxGen /\ loginStarted' \in BOOLEAN
  BY <1>1 DEF Login!PollStep, Login!PollFires, Login!AuthStatus, Login!ClaimLogin,
         Login!RequestLogin, Login!Pending, Login!OpenBrowser, Login!BrowserOpened,
         Login!Finish, Login!ClearLoginStart, Login!world, Login!claim, Login!ui
<1>3. poll[c].at # "none"
  BY DEF Login!PollStep, Login!PollFires, Login!AuthStatus, Login!ClaimLogin,
         Login!RequestLogin, Login!Pending, Login!OpenBrowser, Login!BrowserOpened
<1>4. ASSUME NEW at \in PollSteps \ {"timer"}, Login!Goto(c, at), UNCHANGED <<active, opened>>
      PROVE  LoginInv'
  BY <1>1, <1>2, <1>3, <1>4, PollAt, ChainInv DEF Login!Goto
<1>5. ASSUME Login!Goto(c, "none"), c = active,
             \/ active' = 0 /\ opened' = 0
             \/ active' = active /\ opened' = c
      PROVE  LoginInv'
  <2>1. /\ [poll[c] EXCEPT !.at = "none"] \in Polls
        /\ [poll[c] EXCEPT !.at = "none"].at = "none"
    BY <1>1, PollAt DEF PollSteps
  <2>2. QED
    BY <1>2, <1>3, <1>5, <2>1, ChainInv DEF Login!Goto
<1>6. CASE Login!PollFires(c)
  <2>0. UNCHANGED <<active, opened>>
    BY <1>6 DEF Login!PollFires, Login!ui
  <2>1. CASE Login!IsActive(c)
    <3> DEFINE p == [[poll[c] EXCEPT !.at = "status"] EXCEPT !.gen = gen]
    <3>1. poll' = [poll EXCEPT ![c] = p]
      <4>1. poll' = [poll EXCEPT ![c].at = "status", ![c].gen = gen]
        BY <1>6, <2>1 DEF Login!PollFires
      <4>2. poll \in [Login!Commands -> Polls]
        BY DEF LoginInv, LoginType
      <4>3. QED
        BY <4>1, <4>2
    <3>2. p \in Polls /\ p.at = "status"
      BY <1>1 DEF Polls, PollSteps
    <3> HIDE DEF p
    <3>3. QED
      BY <1>2, <1>3, <2>0, <3>1, <3>2, ChainInv
  <2>2. CASE ~Login!IsActive(c)
    <3>1. Login!NoPoll \in Polls /\ Login!NoPoll.at = "none"
      BY DEF Login!NoPoll, Polls, PollSteps, Login!Bounds
    <3>2. poll' = [poll EXCEPT ![c] = Login!NoPoll]
      BY <1>6, <2>2 DEF Login!PollFires
    <3>3. QED
      BY <1>2, <1>3, <2>0, <3>1, <3>2, ChainInv
  <2>3. QED
    BY <2>1, <2>2
<1>7. CASE Login!AuthStatus(c) \/ Login!ClaimLogin(c) \/ Login!RequestLogin(c)
  <2>1. UNCHANGED <<active, opened>>
    BY <1>7 DEF Login!AuthStatus, Login!ClaimLogin, Login!RequestLogin, Login!ui
  <2>2. \E at \in PollSteps \ {"timer"} : Login!Goto(c, at)
    BY <1>7 DEF Login!AuthStatus, Login!ClaimLogin, Login!RequestLogin, PollSteps
  <2>3. QED
    BY <1>4, <2>1, <2>2
<1>8. CASE Login!Pending(c)
  <2>1. CASE Login!IsActive(c) /\ Login!PollAgain(c)
    <3> DEFINE n == IF poll[c].attempt < MaxAttempt THEN poll[c].attempt + 1 ELSE poll[c].attempt
               p == [[poll[c] EXCEPT !.at = "timer"] EXCEPT !.attempt = n]
    <3>1. poll' = [poll EXCEPT ![c] = p] /\ UNCHANGED <<active, opened>> /\ c = active
      <4>1. /\ poll' = [poll EXCEPT ![c].at = "timer",
                         ![c].attempt = IF @ < MaxAttempt THEN @ + 1 ELSE @]
            /\ UNCHANGED <<active, opened>> /\ c = active
        BY <1>8, <2>1 DEF Login!Pending, Login!ui, Login!IsActive
      <4>2. poll \in [Login!Commands -> Polls]
        BY DEF LoginInv, LoginType
      <4>3. QED
        BY <4>1, <4>2 DEF Polls
    <3>2. n \in 0 .. MaxAttempt
      BY <1>1 DEF Polls, Login!Bounds
    <3> HIDE DEF n
    <3>3. p \in Polls /\ p.at = "timer"
      BY <1>1, <3>2 DEF Polls, PollSteps
    <3> HIDE DEF p
    <3>4. QED
      BY <1>2, <1>3, <3>1, <3>3, ChainInv
  <2>2. CASE ~(Login!IsActive(c) /\ Login!PollAgain(c))
    <3>1. /\ Login!Goto(c, "none")
          /\ \/ UNCHANGED <<active, opened>>
             \/ c = active /\ active' = 0 /\ opened' = 0
      BY <1>8, <2>2 DEF Login!Pending, Login!Finish, Login!IsActive, Login!ui
    <3>2. QED
      BY <1>4, <1>5, <3>1 DEF PollSteps
  <2>3. QED
    BY <2>1, <2>2
<1>9. CASE Login!OpenBrowser(c) \/ Login!BrowserOpened(c)
  <2>1. \/ Login!Goto(c, "browser") /\ UNCHANGED <<active, opened>>
        \/ Login!Goto(c, "none") /\ UNCHANGED <<active, opened>>
        \/ Login!Goto(c, "none") /\ c = active /\ active' = 0 /\ opened' = 0
        \/ Login!Goto(c, "none") /\ c = active /\ active' = active /\ opened' = c
    BY <1>9 DEF Login!OpenBrowser, Login!BrowserOpened, Login!Finish, Login!IsActive, Login!ui
  <2>2. QED
    BY <1>4, <1>5, <2>1 DEF PollSteps
<1>10. QED
  BY <1>6, <1>7, <1>8, <1>9 DEF Login!PollStep

\* The login begins, ends, and is interrupted.
LEMMA CommandInv ==
  ASSUME Login!Bounds, LoginInv,
         \/ Login!OpenSecureLogin \/ Login!CompleteLogin
         \/ Login!PageRecreated \/ Login!LoggedOut
  PROVE  LoginInv'
<1>0. UNCHANGED <<gen, loginGen, loginStarted>>
  BY DEF Login!OpenSecureLogin, Login!CompleteLogin, Login!PageRecreated, Login!LoggedOut,
         Login!world, Login!claim
<1>1. /\ poll \in [Login!Commands -> Polls]
      /\ Login!NoPoll \in Polls /\ Login!NoPoll.at = "none"
      /\ \A c \in Login!Commands : c # 0
  BY DEF LoginInv, LoginType, Login!NoPoll, Polls, PollSteps, Login!Bounds, Login!Commands
<1>2. /\ Login!WithoutTimers \in [Login!Commands -> Polls]
      /\ \A c \in Login!Commands : Login!WithoutTimers[c].at # "timer"
      /\ \A c \in Login!Commands : poll[c].at = "none" => Login!WithoutTimers[c].at = "none"
  BY <1>1 DEF Login!WithoutTimers
<1>3. CASE Login!OpenSecureLogin
  <2> DEFINE p == [Login!NoPoll EXCEPT !.at = "timer"]
  <2>1. /\ active' = nextId /\ nextId' = nextId + 1 /\ opened' = 0 /\ nextId \in Login!Commands
        /\ poll' = [Login!WithoutTimers EXCEPT ![nextId] = p]
    BY <1>3 DEF Login!OpenSecureLogin
  <2>2. p \in Polls /\ p.at = "timer"
    BY <1>1, PollAt DEF PollSteps
  <2> HIDE DEF p
  <2>3. /\ poll' \in [Login!Commands -> Polls]
        /\ \A c \in Login!Commands : c # nextId => poll'[c].at # "timer"
    BY <1>2, <2>1, <2>2
  <2>4. active' \in 0 .. MaxCommand /\ opened' \in 0 .. MaxCommand /\ nextId' \in 1 .. MaxCommand + 1
    BY <2>1 DEF Login!Commands, Login!Bounds
  <2>5. LoginType'
    BY <1>0, <2>3, <2>4 DEF LoginInv, LoginType, Login!Commands
  <2>6. TimerInv'
    BY <1>1, <2>1, <2>3 DEF TimerInv, Login!Commands
  <2>7. QED
    BY <2>5, <2>6 DEF LoginInv
<1>4. CASE Login!CompleteLogin
  <2>1. active' = 0 /\ opened' = 0 /\ UNCHANGED <<nextId, poll>> /\ opened = active /\ active # 0
    BY <1>4 DEF Login!CompleteLogin
  <2>2. \A c \in Login!Commands : poll[c].at # "timer"
    BY <2>1 DEF LoginInv, TimerInv
  <2>3. active' \in 0 .. MaxCommand /\ opened' \in 0 .. MaxCommand
    BY <2>1 DEF Login!Bounds
  <2>4. LoginType'
    BY <1>0, <2>1, <2>3 DEF LoginInv, LoginType, Login!Commands
  <2>5. TimerInv'
    BY <1>1, <2>1, <2>2 DEF TimerInv, Login!Commands
  <2>6. QED
    BY <2>4, <2>5 DEF LoginInv
<1>5. CASE Login!PageRecreated \/ Login!LoggedOut
  <2>1. active' \in {0, active} /\ opened' = 0 /\ nextId' = nextId /\ poll' = Login!WithoutTimers
    BY <1>5 DEF Login!PageRecreated, Login!LoggedOut
  <2>2. active' \in 0 .. MaxCommand /\ opened' \in 0 .. MaxCommand
    BY <2>1 DEF LoginInv, LoginType, Login!Bounds
  <2>3. LoginType'
    BY <1>0, <1>2, <2>1, <2>2 DEF LoginInv, LoginType, Login!Commands
  <2>4. TimerInv'
    BY <1>1, <1>2, <2>1 DEF TimerInv, Login!Commands
  <2>5. QED
    BY <2>3, <2>4 DEF LoginInv
<1>6. QED
  BY <1>3, <1>4, <1>5

\* The backend, the control server and the native logout leave the command alone.
LEMMA OutsideInv ==
  ASSUME Login!Bounds, LoginInv,
         \/ Login!LogoutCall \/ Login!LogoutLocal \/ Login!LogoutReturns
         \/ Login!Restart \/ Login!PublishUrl \/ Login!Authenticate \/ UNCHANGED Login!vars
  PROVE  LoginInv'
<1>1. UNCHANGED <<active, opened, nextId, poll>>
  BY DEF Login!LogoutCall, Login!LogoutLocal, Login!LogoutReturns, Login!Restart,
         Login!PublishUrl, Login!Authenticate, Login!vars, Login!ui
<1>2. gen' = gen \/ (gen' = gen + 1 /\ gen < MaxGen)
  BY DEF Login!LogoutCall, Login!LogoutLocal, Login!LogoutReturns, Login!Restart,
         Login!PublishUrl, Login!Authenticate, Login!vars, Login!world
<1>3. loginGen' = loginGen /\ loginStarted' \in {loginStarted, FALSE}
  BY DEF Login!LogoutCall, Login!LogoutLocal, Login!LogoutReturns, Login!Restart,
         Login!PublishUrl, Login!Authenticate, Login!vars, Login!claim, Login!ClearLoginStart
<1>4. gen' \in 1 .. MaxGen
  BY <1>2 DEF LoginInv, LoginType, Login!Bounds
<1>5. loginStarted' \in BOOLEAN
  BY <1>3 DEF LoginInv, LoginType
<1>6. LoginType'
  BY <1>1, <1>3, <1>4, <1>5 DEF LoginInv, LoginType, Login!Commands
<1>7. TimerInv'
  BY <1>1 DEF LoginInv, TimerInv, Login!Commands
<1>8. QED
  BY <1>6, <1>7 DEF LoginInv

\* The login begins with no polls.
LEMMA LoginInit ==
  ASSUME Login!Bounds
  PROVE  Login!Init => LoginInv
<1> SUFFICES ASSUME Login!Init PROVE LoginInv
  OBVIOUS
<1>1. Login!NoPoll \in Polls /\ Login!NoPoll.at = "none"
  BY DEF Login!NoPoll, Polls, PollSteps, Login!Bounds
<1>2. poll \in [Login!Commands -> Polls] /\ \A c \in Login!Commands : poll[c].at = "none"
  BY <1>1 DEF Login!Init
<1>3. /\ gen \in 1 .. MaxGen /\ loginGen \in 0 .. MaxGen /\ active \in 0 .. MaxCommand
      /\ opened \in 0 .. MaxCommand /\ nextId \in 1 .. MaxCommand + 1
  BY DEF Login!Init, Login!Bounds
<1>4. loginStarted \in BOOLEAN
  BY DEF Login!Init
<1>5. QED
  BY <1>2, <1>3, <1>4 DEF LoginInv, LoginType, TimerInv

\* Every step of it keeps the timer with the active command.
LEMMA LoginNext ==
  ASSUME Login!Bounds, LoginInv, [Login!Next]_(Login!vars)
  PROVE  LoginInv'
  BY PollStepInv, CommandInv, OutsideInv DEF Login!Next

\* No claim and no poll is of a backend to come, and a command that has not begun has no
\* polls.
AgeInv ==
    /\ loginGen <= gen
    /\ \A c \in Login!Commands : poll[c].gen <= gen /\ (c >= nextId => poll[c].at = "none")

\* What a step of a poll changes.
LEMMA PollChanges ==
  ASSUME Login!Bounds, LoginInv, NEW c \in Login!Commands, Login!PollStep(c)
  PROVE  /\ \A d \in Login!Commands : d # c => poll'[d] = poll[d]
         /\ poll'[c].gen \in {poll[c].gen, gen, 0} /\ poll[c].at # "none"
         /\ loginGen' \in {loginGen, poll[c].gen}
         /\ UNCHANGED <<gen, nextId, loggedIn, url>>
<1>1. poll \in [Login!Commands -> Polls] /\ poll[c] \in Polls
  BY DEF LoginInv, LoginType
<1>2. \A p : poll' = [poll EXCEPT ![c] = p] =>
        poll'[c] = p /\ \A d \in Login!Commands : d # c => poll'[d] = poll[d]
  BY <1>1
<1>3. ASSUME NEW at, Login!Goto(c, at)
      PROVE  poll'[c].gen = poll[c].gen /\ \A d \in Login!Commands : d # c => poll'[d] = poll[d]
  BY <1>1, <1>2, <1>3 DEF Login!Goto, Polls
<1>4. CASE Login!PollFires(c)
  <2>1. /\ poll[c].at = "timer" /\ UNCHANGED <<gen, nextId, loggedIn, url, loginGen>>
        /\ \/ poll' = [poll EXCEPT ![c].at = "status", ![c].gen = gen]
           \/ poll' = [poll EXCEPT ![c] = Login!NoPoll]
    BY <1>4 DEF Login!PollFires, Login!world, Login!claim, Login!ui
  <2>2. CASE poll' = [poll EXCEPT ![c].at = "status", ![c].gen = gen]
    BY <1>1, <2>1, <2>2 DEF Polls
  <2>3. CASE poll' = [poll EXCEPT ![c] = Login!NoPoll]
    BY <1>2, <2>1, <2>3 DEF Login!NoPoll
  <2>4. QED
    BY <2>1, <2>2, <2>3
<1>5. CASE Login!AuthStatus(c) \/ Login!ClaimLogin(c) \/ Login!RequestLogin(c)
  <2>1. /\ poll[c].at # "none" /\ UNCHANGED <<gen, nextId, loggedIn, url>>
        /\ loginGen' \in {loginGen, poll[c].gen}
    BY <1>5 DEF Login!AuthStatus, Login!ClaimLogin, Login!RequestLogin, Login!world, Login!claim,
       Login!ui
  <2>2. \E at : Login!Goto(c, at)
    BY <1>5 DEF Login!AuthStatus, Login!ClaimLogin, Login!RequestLogin
  <2>3. QED
    BY <1>3, <2>1, <2>2
<1>6. CASE Login!Pending(c)
  <2>1. poll[c].at # "none" /\ UNCHANGED <<gen, nextId, loggedIn, url, loginGen>>
    BY <1>6 DEF Login!Pending, Login!Finish, Login!world, Login!claim, Login!ui
  <2>2. CASE Login!Goto(c, "none")
    BY <1>3, <2>1, <2>2
  <2>3. CASE poll' = [poll EXCEPT ![c].at = "timer",
                       ![c].attempt = IF @ < MaxAttempt THEN @ + 1 ELSE @]
    BY <1>1, <2>1, <2>3 DEF Polls
  <2>4. QED
    BY <1>6, <2>2, <2>3 DEF Login!Pending
<1>7. CASE Login!OpenBrowser(c) \/ Login!BrowserOpened(c)
  <2>1. poll[c].at # "none" /\ UNCHANGED <<gen, nextId, loggedIn, url, loginGen>>
    BY <1>7 DEF Login!OpenBrowser, Login!BrowserOpened, Login!Finish, Login!world, Login!claim,
       Login!ui
  <2>2. \E at : Login!Goto(c, at)
    BY <1>7 DEF Login!OpenBrowser, Login!BrowserOpened
  <2>3. QED
    BY <1>3, <2>1, <2>2
<1>8. QED
  BY <1>4, <1>5, <1>6, <1>7 DEF Login!PollStep

\* The types of what the ages compare.
LEMMA Ages ==
  ASSUME Login!Bounds, LoginInv
  PROVE  /\ gen \in Nat /\ gen >= 1 /\ loginGen \in Nat /\ nextId \in Nat
         /\ \A c \in Login!Commands : c \in Nat /\ poll[c] \in Polls /\ poll[c].gen \in Nat
  BY DEF LoginInv, LoginType, Login!Bounds, Login!Commands, Polls

\* A login, or a page, that begins or ends leaves the polls' backends alone.
LEMMA CommandAges ==
  ASSUME Login!Bounds, LoginInv,
         \/ Login!OpenSecureLogin \/ Login!CompleteLogin
         \/ Login!PageRecreated \/ Login!LoggedOut
  PROVE  /\ UNCHANGED <<gen, loginGen, loginStarted, requested, loggedIn>>
         /\ nextId' = nextId \/ (nextId \in Login!Commands /\ nextId' = nextId + 1)
         /\ \A c \in Login!Commands :
              \/ nextId' = nextId + 1 /\ c = nextId /\ poll'[c].gen = 0
              \/ poll[c].at = "timer" /\ poll'[c] = Login!NoPoll
              \/ poll'[c] = poll[c]
<1>1. poll \in [Login!Commands -> Polls]
  BY DEF LoginInv, LoginType
<1>2. \A c \in Login!Commands :
        \/ poll[c].at = "timer" /\ Login!WithoutTimers[c] = Login!NoPoll
        \/ Login!WithoutTimers[c] = poll[c]
  BY DEF Login!WithoutTimers
<1>3. UNCHANGED <<gen, loginGen, loginStarted, requested, loggedIn>>
  BY DEF Login!OpenSecureLogin, Login!CompleteLogin, Login!PageRecreated, Login!LoggedOut,
         Login!world, Login!claim
<1>4. CASE Login!OpenSecureLogin
  <2> DEFINE p == [Login!NoPoll EXCEPT !.at = "timer"]
  <2>1. /\ nextId \in Login!Commands /\ nextId' = nextId + 1
        /\ poll' = [Login!WithoutTimers EXCEPT ![nextId] = p]
    BY <1>4 DEF Login!OpenSecureLogin
  <2>2. p.gen = 0
    BY DEF Login!NoPoll
  <2> HIDE DEF p
  <2>3. /\ poll'[nextId] = p
        /\ \A c \in Login!Commands : c # nextId => poll'[c] = Login!WithoutTimers[c]
    BY <2>1 DEF Login!WithoutTimers
  <2>4. QED
    BY <1>2, <1>3, <2>1, <2>2, <2>3
<1>5. CASE Login!CompleteLogin
  BY <1>3, <1>5 DEF Login!CompleteLogin
<1>6. CASE Login!PageRecreated \/ Login!LoggedOut
  <2>1. nextId' = nextId /\ poll' = Login!WithoutTimers
    BY <1>6 DEF Login!PageRecreated, Login!LoggedOut
  <2>2. QED
    BY <1>2, <1>3, <2>1
<1>7. QED
  BY <1>4, <1>5, <1>6

\* Every step keeps the ages.
LEMMA AgeNext ==
  ASSUME Login!Bounds, LoginInv, AgeInv, [Login!Next]_(Login!vars)
  PROVE  AgeInv'
<1>1. ASSUME NEW c \in Login!Commands, Login!PollStep(c) PROVE AgeInv'
  <2>1. poll[c].gen <= gen /\ poll'[c].gen <= gen /\ loginGen' <= gen /\ ~(c >= nextId)
    BY <1>1, PollChanges, Ages DEF AgeInv
  <2>2. \A d \in Login!Commands : d # c => poll'[d] = poll[d]
    BY <1>1, PollChanges
  <2>3. gen' = gen /\ nextId' = nextId
    BY <1>1, PollChanges
  <2>4. QED
    BY <2>1, <2>2, <2>3 DEF AgeInv, Login!Commands
<1>2. ASSUME \/ Login!OpenSecureLogin \/ Login!CompleteLogin
             \/ Login!PageRecreated \/ Login!LoggedOut
      PROVE  AgeInv'
  <2>1. loginGen' <= gen'
    BY <1>2, CommandAges DEF AgeInv
  <2>2. ASSUME NEW c \in Login!Commands
        PROVE  poll'[c].gen <= gen' /\ (c >= nextId' => poll'[c].at = "none")
    <3>1. c \in Nat /\ nextId \in Nat /\ gen \in Nat /\ gen' = gen
      BY <1>2, CommandAges, Ages
    <3>2. poll[c].gen <= gen /\ (c >= nextId => poll[c].at = "none")
      BY DEF AgeInv
    <3>3. c >= nextId' => (c >= nextId /\ c # nextId) \/ nextId' = nextId
      BY <1>2, <3>1, CommandAges
    <3>4. Login!NoPoll.gen = 0 /\ Login!NoPoll.at = "none"
      BY DEF Login!NoPoll
    <3>5. CASE nextId' = nextId + 1 /\ c = nextId /\ poll'[c].gen = 0
      BY <3>1, <3>5
    <3>6. CASE poll'[c] = Login!NoPoll
      BY <3>1, <3>4, <3>6
    <3>7. CASE poll'[c] = poll[c]
      <4>1. c >= nextId' => c >= nextId
        BY <1>2, <3>1, CommandAges
      <4>2. QED
        BY <3>1, <3>2, <3>7, <4>1
    <3>8. QED
      BY <1>2, <3>5, <3>6, <3>7, CommandAges
  <2>3. QED
    BY <2>1, <2>2 DEF AgeInv, Login!Commands
<1>3. ASSUME \/ Login!LogoutCall \/ Login!LogoutLocal \/ Login!LogoutReturns
             \/ Login!Restart \/ Login!PublishUrl \/ Login!Authenticate \/ UNCHANGED Login!vars
      PROVE  AgeInv'
  <2>1. UNCHANGED <<nextId, poll, loginGen>>
    BY <1>3 DEF Login!LogoutCall, Login!LogoutLocal, Login!LogoutReturns, Login!Restart,
       Login!PublishUrl, Login!Authenticate, Login!vars, Login!ui, Login!claim
  <2>2. gen' = gen \/ gen' = gen + 1
    BY <1>3 DEF Login!LogoutCall, Login!LogoutLocal, Login!LogoutReturns, Login!Restart,
       Login!PublishUrl, Login!Authenticate, Login!vars, Login!world
  <2>3. QED
    BY <2>1, <2>2, Ages DEF AgeInv, Login!Commands
<1>4. QED
  BY <1>1, <1>2, <1>3 DEF Login!Next

\* The invariants of the login in every reachable state.
LEMMA LoginSpecInv == Login!Bounds => (Login!Spec => [](LoginInv /\ AgeInv))
<1> SUFFICES ASSUME Login!Bounds PROVE Login!Spec => [](LoginInv /\ AgeInv)
  OBVIOUS
<1>1. Login!Init => AgeInv
  BY DEF Login!Init, AgeInv, Login!NoPoll
<1>2. (LoginInv /\ AgeInv) /\ [Login!Next]_(Login!vars) => (LoginInv /\ AgeInv)'
  BY LoginNext, AgeNext
<1>3. QED
  BY <1>1, <1>2, LoginInit, PTL DEF Login!Spec

\* At most one chain of polls has its timer set, whatever logout, page and answers do, so
\* that stopLoginPolling, which clears one timer, stops all polling.
THEOREM OneTimer == Login!Bounds => (Login!Spec => []Login!TypeOK)
<1>1. LoginInv => Login!TypeOK
  BY DEF LoginInv, LoginType, TimerInv, Login!TypeOK, Polls
<1>2. QED
  BY <1>1, LoginSpecInv, PTL

\* A step of a poll leaves the claim with something to stand for.
LEMMA PollBacked ==
  ASSUME Login!Bounds, LoginInv, NEW c \in Login!Commands, Login!PollStep(c), Login!ClaimBacked
  PROVE  Login!ClaimBacked'
<1>0. /\ \A d \in Login!Commands : d # c => poll'[d] = poll[d]
      /\ UNCHANGED <<gen, loggedIn>>
  BY PollChanges
<1>a. poll \in [Login!Commands -> Polls] /\ poll[c] \in Polls
  BY DEF LoginInv, LoginType
<1>1. ASSUME poll[c].at # "request", UNCHANGED <<loginGen, loginStarted, requested>>
      PROVE  Login!ClaimBacked'
  BY <1>0, <1>1 DEF Login!ClaimBacked
<1>2. CASE Login!ClaimLogin(c)
  <2>1. poll[c].at = "claim" /\ requested' = requested
    BY <1>2 DEF Login!ClaimLogin, Login!world
  <2>2. CASE UNCHANGED <<loginGen, loginStarted>>
    BY <1>1, <2>1, <2>2
  <2>3. CASE Login!Goto(c, "request") /\ loginGen' = poll[c].gen
    <3>1. poll'[c].at = "request" /\ poll'[c].gen = loginGen'
      BY <1>a, <2>3 DEF Login!Goto, Polls
    <3>2. QED
      BY <3>1 DEF Login!ClaimBacked
  <2>4. QED
    BY <1>2, <2>2, <2>3 DEF Login!ClaimLogin, Login!claim
<1>3. CASE Login!RequestLogin(c)
  <2>1. CASE requested' = TRUE
    BY <2>1 DEF Login!ClaimBacked
  <2>2. CASE Login!ClearLoginStart(poll[c].gen) /\ UNCHANGED <<loginGen, requested>>
    <3>1. loginStarted' => loginStarted /\ loginGen # poll[c].gen
      BY <2>2 DEF Login!ClearLoginStart
    <3>2. QED
      BY <1>0, <2>2, <3>1 DEF Login!ClaimBacked
  <2>3. QED
    BY <1>3, <2>1, <2>2 DEF Login!RequestLogin
<1>4. CASE \/ Login!PollFires(c) \/ Login!AuthStatus(c) \/ Login!Pending(c)
           \/ Login!OpenBrowser(c) \/ Login!BrowserOpened(c)
  <2>1. poll[c].at # "request" /\ UNCHANGED <<loginGen, loginStarted, requested>>
    BY <1>4 DEF Login!PollFires, Login!AuthStatus, Login!Pending, Login!OpenBrowser,
       Login!BrowserOpened, Login!world, Login!claim
  <2>2. QED
    BY <1>1, <2>1
<1>5. QED
  BY <1>2, <1>3, <1>4 DEF Login!PollStep

\* So do the other steps, but for the one that logs the node out.
LEMMA OtherBacked ==
  ASSUME Login!Bounds, LoginInv, AgeInv, Login!ClaimBacked,
         \/ Login!OpenSecureLogin \/ Login!CompleteLogin \/ Login!PageRecreated
         \/ Login!LoggedOut \/ Login!LogoutCall \/ Login!LogoutReturns \/ Login!Restart
         \/ Login!PublishUrl \/ Login!Authenticate \/ UNCHANGED Login!vars
  PROVE  Login!ClaimBacked'
<1>1. CASE \/ Login!OpenSecureLogin \/ Login!CompleteLogin
           \/ Login!PageRecreated \/ Login!LoggedOut
  <2>1. UNCHANGED <<gen, loginGen, loginStarted, requested, loggedIn>>
    BY <1>1, CommandAges
  <2>2. ASSUME NEW c \in Login!Commands, poll[c].at = "request" PROVE poll'[c] = poll[c]
    <3>1. c # nextId
      BY <2>2, Ages DEF AgeInv
    <3>2. QED
      BY <1>1, <2>2, <3>1, CommandAges
  <2>3. QED
    BY <2>1, <2>2 DEF Login!ClaimBacked, Login!Commands
<1>2. CASE Login!Restart
  <2>1. gen' = gen + 1 /\ loginGen' = loginGen
    BY <1>2 DEF Login!Restart, Login!claim
  <2>2. loginGen' # gen'
    BY <2>1, Ages DEF AgeInv
  <2>3. QED
    BY <2>2 DEF Login!ClaimBacked
<1>3. CASE Login!Authenticate
  BY <1>3 DEF Login!Authenticate, Login!ClaimBacked
<1>4. CASE Login!LogoutCall \/ Login!LogoutReturns \/ Login!PublishUrl \/ UNCHANGED Login!vars
  <2>1. UNCHANGED <<gen, loggedIn, requested, poll, loginGen>>
    BY <1>4 DEF Login!LogoutCall, Login!LogoutReturns, Login!PublishUrl, Login!vars, Login!world,
       Login!claim
  <2>2. loginStarted' => loginStarted
    BY <1>4 DEF Login!LogoutCall, Login!LogoutReturns, Login!PublishUrl, Login!vars, Login!claim,
       Login!ClearLoginStart
  <2>3. QED
    BY <2>1, <2>2 DEF Login!ClaimBacked, Login!Commands
<1>5. QED
  BY <1>1, <1>2, <1>3, <1>4

\* Only a logout takes away what the claim of the live backend stands for: neither failed
\* requests, nor late polls of older backends and ended commands, nor restarts leave a
\* claim behind that keeps every later poll from asking for a login page.
THEOREM ClaimsBacked == Login!Bounds => (Login!Spec => Login!ClaimNotStranded)
<1> SUFFICES ASSUME Login!Bounds PROVE Login!Spec => Login!ClaimNotStranded
  OBVIOUS
<1>1. LoginInv /\ AgeInv /\ [Login!Next]_(Login!vars)
        => [Login!ClaimBacked /\ ~Login!ClaimBacked' => logout.at = "call"]_(Login!vars)
  <2> SUFFICES ASSUME LoginInv, AgeInv, [Login!Next]_(Login!vars), Login!ClaimBacked
               PROVE  Login!ClaimBacked' \/ logout.at = "call"
    OBVIOUS
  <2>1. CASE Login!LogoutLocal
    BY <2>1 DEF Login!LogoutLocal
  <2>2. QED
    BY <2>1, PollBacked, OtherBacked DEF Login!Next
<1>2. QED
  BY <1>1, LoginSpecInv, PTL DEF Login!Spec, Login!ClaimNotStranded
=============================================================================
