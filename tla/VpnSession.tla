----------------------------- MODULE VpnSession -----------------------------
(***************************************************************************)
(* A VPN session from the connect button to the disconnect button: the UI's *)
(* connect and disconnect commands (BridgeStatus.ets, VpnCommandGateway.ets)*)
(* and the VPN extension (TailscaleVpnExtensionAbility.ets), which run in   *)
(* two processes and talk through files.  Both processes can run the        *)
(* backend on one state directory, so that the UI hands its own over.  A    *)
(* deadline is a step that may come at any time.                            *)
(***************************************************************************)
EXTENDS Naturals

CONSTANTS MaxCommand,   \* bound on commands
          MaxKill,      \* bound on deaths of the extension's process
          MaxRestart    \* bound on restarts of the UI

ASSUME BoundsAssumption == MaxCommand \in Nat /\ MaxKill \in Nat /\ MaxRestart \in Nat

VARIABLES
    active, nextId,     \* VpnCommandStateMachine
    connId,             \* connectCommandId
    connect, disconnect,        \* connectInProgress, disconnectInProgress
    shown,              \* vpnStatus: "running", "busy" (isConnecting), "other"
    deferred, cached, deferTimer,   \* backendRestartDeferred, the cached config, its timer
    chain,              \* the connect command's steps: where and whose
    stopping,           \* the disconnect command's steps
    handoff,            \* the handoff of the backend: whose command, whose request
    recovery,           \* a stop of a failed extension is under way
    uiBackend,          \* the backend in the UI's process runs
    stoppedFor,         \* the handoff request it was last stopped for
    ext, extBackend,    \* the extension and the backend in its process
    startReq,           \* external: the system will create the extension
    file, fresh,        \* the files; the status file's heartbeat is recent
    kills, restarts

ui == <<active, nextId, connId, connect, disconnect, shown>>
later == <<deferred, cached, deferTimer>>
jobs == <<chain, stopping, handoff, recovery>>
history == <<stoppedFor, kills, restarts>>
system == <<uiBackend, ext, extBackend, startReq, file, fresh>>
vars == <<ui, later, jobs, system, history>>

Idle == [at |-> "none", id |-> 0]
NoHandoff == [id |-> 0, req |-> 0]
NoAnswer == [id |-> 0, ok |-> FALSE]
NoStop == [id |-> 0, of |-> 0]     \* a stop request and, for the properties, the session it was meant for

Init ==
    /\ active = 0 /\ nextId = 1 /\ connId = 0
    /\ connect = FALSE /\ disconnect = FALSE /\ shown = "other"
    /\ deferred = FALSE /\ cached = FALSE /\ deferTimer = FALSE
    /\ chain = Idle /\ stopping = Idle /\ handoff = NoHandoff
    /\ recovery = FALSE
    /\ uiBackend = TRUE /\ stoppedFor = 0
    /\ ext = [n |-> 0, at |-> "none", stop |-> NoStop] /\ extBackend = FALSE
    /\ startReq = FALSE
    /\ file = [status |-> "destroyed", config |-> FALSE, hreq |-> 0, hres |-> NoAnswer,
               sreq |-> NoStop, sres |-> 0]
    /\ fresh = FALSE /\ kills = 0 /\ restarts = 0

Alive == ext.at # "none"
IsLive == fresh /\ file.status # "destroyed"
IsActive(c) == c # 0 /\ c = active
Complete(c) == active' = IF IsActive(c) THEN 0 ELSE active
ClearHandoff(f) == [f EXCEPT !.hreq = 0, !.hres = NoAnswer]
StartBackend == uiBackend' = TRUE /\ deferred' = FALSE
-----------------------------------------------------------------------------
(* The connect command *)

\* beginVpnConnection
BeginConnect ==
    /\ ~connect /\ ~disconnect /\ shown = "other"
    /\ IF active # 0
       THEN connId' = 0 /\ UNCHANGED <<active, nextId, connect, chain>>
       ELSE /\ nextId \in 1 .. MaxCommand
            /\ connId' = nextId /\ active' = nextId /\ nextId' = nextId + 1 /\ connect' = TRUE
            /\ chain' = [at |-> "settings", id |-> nextId]
    /\ UNCHANGED <<disconnect, shown, later, stopping, handoff, recovery, system, history>>

\* Pending settings are awaited; one of them may have failed, and nothing completes the
\* command then.
AfterSettings ==
    /\ chain.at = "settings"
    /\ \/ connect /\ IsActive(chain.id) /\ chain' = [chain EXCEPT !.at = "probe"] /\ UNCHANGED connect
       \/ connect /\ IsActive(chain.id) /\ connect' = FALSE /\ chain' = Idle
       \/ ~(connect /\ IsActive(chain.id)) /\ chain' = Idle /\ UNCHANGED connect
    /\ UNCHANGED <<active, nextId, connId, disconnect, shown, later, stopping, handoff,
                   recovery, system, history>>

\* requestVpnExtensionStart, with the config staged.  A live extension is not created again.
RequestStart ==
    /\ chain' = [chain EXCEPT !.at = "start"]
    /\ file' = [ClearHandoff(file) EXCEPT !.config = TRUE]
    /\ startReq' = ~Alive
    /\ shown' = "busy"
    /\ UNCHANGED <<active, connect>>

EndConnect ==
    /\ connect' = FALSE /\ Complete(chain.id) /\ chain' = Idle
    /\ UNCHANGED <<file, startReq, shown>>

\* startVpnProbe: the fast path, the config of the backend, which is started when there
\* is none, or a failure.
StartProbe ==
    /\ chain.at = "probe"
    /\ \/ /\ ~IsActive(chain.id) /\ chain' = Idle
          /\ UNCHANGED <<file, startReq, shown, active, connect, deferred, uiBackend>>
       \/ IsActive(chain.id) /\ deferred /\ cached /\ RequestStart /\ deferred' = FALSE /\ UNCHANGED uiBackend
       \/ IsActive(chain.id) /\ uiBackend /\ RequestStart /\ UNCHANGED <<deferred, uiBackend>>
       \/ IsActive(chain.id) /\ ~uiBackend /\ RequestStart /\ StartBackend
       \/ IsActive(chain.id) /\ EndConnect /\ StartBackend
    /\ UNCHANGED <<nextId, connId, disconnect, cached, deferTimer, stopping, handoff, recovery,
                   ext, extBackend, fresh, history>>

StartResolves ==
    /\ chain.at = "start"
    /\ \/ chain' = Idle /\ UNCHANGED <<connect, active, startReq>>
       \/ /\ startReq /\ startReq' = FALSE /\ chain' = Idle
          /\ connect' = (connect /\ ~IsActive(chain.id)) /\ Complete(chain.id)
    /\ shown' = IF IsActive(chain.id) /\ startReq' = startReq THEN "busy"
                ELSE IF IsActive(chain.id) THEN "other" ELSE shown
    /\ UNCHANGED <<nextId, connId, disconnect, later, stopping, handoff, recovery,
                   uiBackend, ext, extBackend, file, fresh, history>>
-----------------------------------------------------------------------------
(* The UI looks at the status file (refreshVpnProbeStatus) *)

Shown == IF file.status = "starting" THEN "busy"
         ELSE IF file.status = "running" /\ IsLive THEN "running" ELSE "other"

\* processVpnBackendHandoffRequest
TakeHandoff ==
    /\ connect /\ IsActive(connId) /\ handoff = NoHandoff
    /\ file.status = "pending" /\ file.hreq # 0
    /\ handoff' = [id |-> connId, req |-> file.hreq]
    /\ file' = [file EXCEPT !.hreq = 0]
    /\ UNCHANGED <<ui, later, chain, stopping, recovery, uiBackend, ext, extBackend,
                   startReq, fresh, history>>

\* commitConnectedStatus
CommitConnected ==
    /\ connect /\ IsLive /\ file.status = "running"
    /\ shown' = "running" /\ connect' = FALSE /\ Complete(connId)
    /\ UNCHANGED <<nextId, connId, disconnect, later, jobs, system, history>>

\* A failure ends the attempt and stops the extension (recoverFailedVpnExtension); the
\* command is completed only for a conflict (showVpnConflictDialog).
SeeFailure ==
    /\ IsLive /\ file.status \in {"failed", "conflict"}
    /\ connect \/ (~recovery /\ ~disconnect)
    /\ shown' = "other" /\ connect' = FALSE
    /\ IF connect /\ file.status = "conflict" THEN Complete(connId) ELSE UNCHANGED active
    /\ recovery' = (recovery \/ ~disconnect)
    /\ file' = IF recovery' THEN ClearHandoff(file) ELSE file
    /\ UNCHANGED <<nextId, connId, disconnect, later, chain, stopping, handoff, uiBackend,
                   ext, extBackend, startReq, fresh, history>>

Look ==
    /\ ~(connect /\ IsLive /\ file.status = "running")
    /\ ~(IsLive /\ file.status \in {"failed", "conflict"})
    /\ shown' = Shown
    /\ UNCHANGED <<active, nextId, connId, connect, disconnect, later, jobs, system, history>>

\* The stop of the backend for the handoff returns; the answer is dropped when its
\* command has ended.
HandoffStopped ==
    /\ handoff # NoHandoff
    /\ \E ok \in BOOLEAN :
          /\ uiBackend' = (uiBackend /\ ~ok)
          /\ stoppedFor' = IF ok THEN handoff.req ELSE stoppedFor
          /\ file' = IF IsActive(handoff.id)
                     THEN [file EXCEPT !.hres = [id |-> handoff.req, ok |-> ok]] ELSE file
    /\ handoff' = NoHandoff
    /\ UNCHANGED <<ui, later, chain, stopping, recovery, ext, extBackend, startReq, fresh,
                   kills, restarts>>

\* The stop of a failed extension: it is gone, and the backend starts here again; or the
\* call fails.
RecoveryEnds ==
    /\ recovery /\ recovery' = FALSE
    /\ \/ ~Alive /\ StartBackend /\ startReq' = FALSE
       \/ UNCHANGED <<uiBackend, deferred, startReq>>
    /\ UNCHANGED <<ui, cached, deferTimer, chain, stopping, handoff, ext, extBackend,
                   file, fresh, history>>

\* refreshOrRecoverBackend: no extension seems to live and nothing is under way.  A
\* stopped backend is reported at once.
HealthCheck ==
    /\ ~IsLive /\ ~connect /\ ~disconnect /\ ~deferred /\ ~recovery /\ ~uiBackend
    /\ StartBackend
    /\ UNCHANGED <<ui, cached, deferTimer, jobs, ext, extBackend, startReq, file, fresh, history>>

\* The page, or the process, is created again: it looks at the file and starts its
\* backend unless the extension seems to live.
UiRestarted ==
    /\ restarts < MaxRestart /\ restarts' = restarts + 1
    /\ active' = 0 /\ connect' = FALSE /\ disconnect' = FALSE
    /\ shown' = IF IsLive THEN "busy" ELSE Shown
    /\ deferred' = FALSE /\ cached' = FALSE /\ deferTimer' = FALSE
    /\ chain' = Idle /\ stopping' = Idle /\ handoff' = NoHandoff /\ recovery' = FALSE
    /\ uiBackend' \in IF ~IsLive THEN {TRUE} ELSE {uiBackend, FALSE}
    /\ UNCHANGED <<nextId, connId, ext, extBackend, startReq, file, fresh, stoppedFor, kills>>
-----------------------------------------------------------------------------
(* The disconnect command *)

StopProbeAnytime ==
    /\ ~disconnect /\ nextId \in 1 .. MaxCommand
    /\ connect' = FALSE /\ active' = nextId /\ nextId' = nextId + 1 /\ disconnect' = TRUE
    /\ stopping' = [at |-> "poll", id |-> nextId]
    /\ file' = [file EXCEPT !.sres = 0, !.sreq = [id |-> nextId, of |-> ext.n]]
    /\ UNCHANGED <<connId, shown, later, chain, handoff, recovery, uiBackend, ext,
                   extBackend, startReq, fresh, history>>
\* stopVpnProbe: the connect command is ended first; without a response file to wait for
\* the extension is stopped at once.
StopProbe ==
    /\ shown = "running" /\ ~disconnect
    /\ connect' = FALSE
    /\ IF active \in {0, connId}
       THEN /\ nextId \in 1 .. MaxCommand
            /\ active' = nextId /\ nextId' = nextId + 1 /\ disconnect' = TRUE
            /\ \/ /\ stopping' = [at |-> "poll", id |-> nextId]
                  /\ file' = [file EXCEPT !.sres = 0, !.sreq = [id |-> nextId, of |-> IF Alive THEN ext.n ELSE 0]]
               \/ /\ stopping' = [at |-> "ext", id |-> nextId]
                  /\ file' = [file EXCEPT !.sres = 0]
       ELSE UNCHANGED <<active, nextId, disconnect, stopping, file>>
    /\ UNCHANGED <<connId, shown, later, chain, handoff, recovery, uiBackend, ext,
                   extBackend, startReq, fresh, history>>

\* pollVpnStopResponse: the answer is there, or time runs out.
StopAnswered ==
    /\ stopping.at = "poll" /\ IsActive(stopping.id) /\ file.sres = stopping.id
    /\ file' = [file EXCEPT !.sres = 0] /\ stopping' = [stopping EXCEPT !.at = "ext"]
    /\ UNCHANGED <<ui, later, chain, handoff, recovery, uiBackend, ext, extBackend,
                   startReq, fresh, history>>
StopTimesOutNever == FALSE /\ UNCHANGED vars
StopTimesOut ==
    /\ stopping.at = "poll" /\ IsActive(stopping.id)
    /\ active' = 0 /\ stopping' = [stopping EXCEPT !.at = "ext"]
    /\ UNCHANGED <<nextId, connId, connect, disconnect, shown, later, chain, handoff, recovery,
                   system, history>>

\* finishVpnExtensionStop: the extension is gone; its reconnect config, if it left one,
\* defers the start of the backend.  Or the call fails.
StopResolves ==
    /\ stopping.at = "ext" /\ stopping' = Idle
    /\ disconnect' = FALSE /\ shown' = "other" /\ Complete(stopping.id)
    /\ \/ /\ ~Alive /\ startReq' = FALSE
          /\ IF file.config
             THEN cached' = TRUE /\ deferred' = TRUE /\ deferTimer' = TRUE /\ UNCHANGED uiBackend
             ELSE StartBackend /\ UNCHANGED <<cached, deferTimer>>
       \/ UNCHANGED <<startReq, later, uiBackend>>
    /\ UNCHANGED <<nextId, connId, connect, chain, handoff, recovery, ext, extBackend,
                   file, fresh, history>>

\* deferBackendRestart's timer, which is also the age at which the config is too old.
DeferTimer ==
    /\ deferTimer /\ deferTimer' = FALSE /\ cached' = FALSE
    /\ IF deferred /\ shown = "other" /\ ~connect /\ ~disconnect
       THEN StartBackend ELSE UNCHANGED <<uiBackend, deferred>>
    /\ UNCHANGED <<ui, jobs, ext, extBackend, startReq, file, fresh, history>>
-----------------------------------------------------------------------------
(* The extension *)

Goto(at) == ext' = [ext EXCEPT !.at = at]
Write(st) == file' = [file EXCEPT !.status = st] /\ fresh' = TRUE

\* onCreate empties the request and response files.
ExtCreateKeepsStop ==
    /\ startReq /\ ~Alive /\ startReq' = FALSE
    /\ ext' = [n |-> ext.n + 1, at |-> "restore", stop |-> NoStop]
    /\ file' = [ClearHandoff(file) EXCEPT !.sres = 0, !.status = "entered"]
    /\ fresh' = TRUE
    /\ UNCHANGED <<ui, later, jobs, uiBackend, extBackend, history>>
ExtCreate ==
    /\ startReq /\ ~Alive /\ startReq' = FALSE
    /\ ext' = [n |-> ext.n + 1, at |-> "restore", stop |-> NoStop]
    /\ file' = [ClearHandoff(file) EXCEPT !.sreq = NoStop, !.sres = 0, !.status = "entered"]
    /\ fresh' = TRUE
    /\ UNCHANGED <<ui, later, jobs, uiBackend, extBackend, history>>

\* restoreBackendVpnConfig: the staged config, or a backend of its own.
ExtRestore ==
    /\ \/ ext.at = "restore" /\ file.config /\ Goto("create") /\ UNCHANGED extBackend
       \/ ext.at = "restore" /\ ~file.config /\ extBackend' = TRUE /\ Goto("restoring")
       \/ ext.at = "restoring" /\ ext' \in {[ext EXCEPT !.at = a] : a \in {"create", "bare"}}
                               /\ UNCHANGED extBackend
    /\ file' = [file EXCEPT !.config = FALSE]
    /\ UNCHANGED <<ui, later, jobs, uiBackend, startReq, fresh, history>>

\* The TUN is created and the handoff requested; the creation fails; another VPN is in
\* the way; or there was no config, and the status begins with the probe's OK.
ExtTun ==
    /\ ext.at \in {"create", "bare"}
    /\ \/ /\ ext.at = "create" /\ Goto("handoff") /\ fresh' = TRUE
          /\ file' = [file EXCEPT !.hreq = ext.n, !.hres = NoAnswer, !.status = "pending"]
       \/ ext.at = "bare" /\ Goto("idle") /\ Write("notready")
       \/ Goto("idle") /\ Write("failed")
       \/ Goto("conflict") /\ Write("conflict")
    /\ UNCHANGED <<ui, later, jobs, uiBackend, extBackend, startReq, history>>

ExtHandoffAnyStatus ==
    /\ ext.at = "handoff" /\ file.hres.id = ext.n
    /\ extBackend' = TRUE /\ Goto("wait") /\ fresh' = TRUE
    /\ file' = [file EXCEPT !.hres = NoAnswer, !.status = "starting"]
    /\ UNCHANGED <<ui, later, jobs, uiBackend, startReq, history>>
\* requestUiBackendHandoff: the answer to this request, or a timeout; then
\* backendRestartWithTun.
ExtHandoff ==
    /\ ext.at = "handoff"
    /\ fresh' = TRUE
    /\ \/ /\ file.hres.id = ext.n /\ file.hres.ok
          /\ extBackend' = TRUE /\ Goto("wait")
          /\ file' = [file EXCEPT !.hres = NoAnswer, !.status = "starting"]
       \/ /\ ~(file.hres.id = ext.n /\ file.hres.ok)
          /\ Goto("idle") /\ file' = [file EXCEPT !.hres = NoAnswer, !.status = "failed"]
          /\ UNCHANGED extBackend
    /\ UNCHANGED <<ui, later, jobs, uiBackend, startReq, history>>

\* waitForVpnBackend
ExtWait ==
    /\ ext.at = "wait"
    /\ \/ Goto("running") /\ Write("running")
       \/ Goto("idle") /\ Write("failed")
    /\ UNCHANGED <<ui, later, jobs, uiBackend, extBackend, startReq, history>>

\* processBackendStopRequest, called by a watcher from onCreate on.
ExtStop ==
    /\ Alive /\ ext.stop = NoStop /\ file.sreq # NoStop
    /\ ext' = [ext EXCEPT !.stop = file.sreq]
    /\ file' = [file EXCEPT !.sreq = NoStop]
    /\ UNCHANGED <<ui, later, jobs, uiBackend, extBackend, startReq, fresh, history>>

\* stopVpnAndBackend
ExtStopped ==
    /\ Alive /\ ext.stop # NoStop
    /\ ext' = [ext EXCEPT !.stop = NoStop, !.at = IF @ = "running" THEN "stopped" ELSE @]
    /\ extBackend' = FALSE /\ fresh' = TRUE
    /\ \E staged \in {file.config, TRUE} :
          file' = [file EXCEPT !.status = "disconnected", !.config = staged, !.sres = ext.stop.id]
    /\ UNCHANGED <<ui, later, jobs, uiBackend, startReq, history>>

\* onDestroy, for a stop call of the UI or because the system ends the VPN.
ExtDestroy ==
    /\ Alive
    /\ ext' = [ext EXCEPT !.at = "none", !.stop = NoStop] /\ extBackend' = FALSE
    /\ Write("destroyed")
    /\ UNCHANGED <<ui, later, jobs, uiBackend, startReq, history>>

\* The process dies.
ExtKilled ==
    /\ Alive /\ kills < MaxKill /\ kills' = kills + 1
    /\ ext' = [ext EXCEPT !.at = "none", !.stop = NoStop] /\ extBackend' = FALSE
    /\ UNCHANGED <<ui, later, jobs, uiBackend, startReq, file, fresh, stoppedFor, restarts>>

\* Only a session that runs, or waits on a conflict, repeats its heartbeat; the staged
\* config is accepted for 15 s.
HeartbeatStale ==
    /\ fresh /\ ext.at \notin {"running", "stopped", "conflict"} /\ fresh' = FALSE
    /\ UNCHANGED <<ui, later, jobs, uiBackend, ext, extBackend, startReq, file, history>>
ConfigExpires ==
    /\ file.config /\ file' = [file EXCEPT !.config = FALSE]
    /\ UNCHANGED <<ui, later, jobs, uiBackend, ext, extBackend, startReq, fresh, history>>
-----------------------------------------------------------------------------
UiStep == AfterSettings \/ StartProbe \/ StartResolves
LookStep == TakeHandoff \/ CommitConnected \/ SeeFailure \/ Look
StopStep == StopAnswered \/ StopTimesOut
ExtStep == ExtRestore \/ ExtTun \/ ExtHandoff \/ ExtWait

Next ==
    \/ BeginConnect \/ UiStep \/ LookStep \/ HandoffStopped \/ RecoveryEnds
    \/ HealthCheck \/ UiRestarted
    \/ StopProbe \/ StopStep \/ StopResolves \/ DeferTimer
    \/ ExtCreate \/ ExtStep \/ ExtStop \/ ExtStopped \/ ExtDestroy \/ ExtKilled
    \/ HeartbeatStale \/ ConfigExpires

\* Timers fire, native calls and the system's answers return, and the status file is
\* looked at every 250 ms, sooner than a deadline of seconds passes.
Fairness ==
    /\ WF_vars(UiStep) /\ WF_vars(LookStep) /\ WF_vars(HandoffStopped) /\ WF_vars(RecoveryEnds)
    /\ WF_vars(StopStep) /\ WF_vars(StopResolves) /\ WF_vars((stopping.at = "ext" \/ recovery) /\ ExtDestroy)
    /\ WF_vars(ExtCreate) /\ WF_vars(ExtStep) /\ WF_vars(ExtStopped)
Spec == Init /\ [][Next]_vars /\ Fairness
-----------------------------------------------------------------------------
(* Properties *)

\* Every variable keeps its type.
TypeOK ==
    /\ active \in 0 .. MaxCommand /\ connId \in 0 .. MaxCommand /\ nextId \in 1 .. MaxCommand + 1
    /\ shown \in {"running", "busy", "other"} /\ uiBackend \in BOOLEAN
    /\ ext.n \in 0 .. MaxCommand /\ file.hreq \in 0 .. MaxCommand
    /\ ~(connect /\ disconnect)

\* A stop request that an extension serves was made for that extension, not for one that
\* died before it could ("Never let that stale request stop a newly created session").
StopIsForThisSession == ext.stop # NoStop => ext.stop.of = ext.n

\* A stop request reaches an extension only when its startup is over: createProbeTun does
\* not look at backendStopInFlight and would start the backend again behind the stop.
StopFindsSession == ext.stop # NoStop => ext.at \in {"running", "stopped"}

\* A stop meets the session it was made for; as long as no extension has died, not
\* before that session is up.  (After a death an old status can pass for the new
\* session's.)
StopInv == TypeOK /\ StopIsForThisSession /\ (kills = 0 => StopFindsSession)

\* The extension starts its backend on the TUN only after the UI's was stopped for this
\* very request: neither a failed stop nor the answer to an earlier one counts.
HandoffAnswered ==
    [][ext.at = "handoff" /\ ext'.at = "wait" => stoppedFor = ext.n]_vars

\* A disconnect ends, whatever has become of the extension.
DisconnectEnds == disconnect ~> ~disconnect

\* The connect button is refused only while a command is really under way ("A second
\* connect is ignored while connect or disconnect is active").
CommandHasOwner == active # 0 => connect \/ disconnect

\* The UI starts its backend only when the extension has none ("Do not mistake that short
\* handoff window for a killed extension and start a second backend against the same
\* state directory").
UiStartsAlone ==
    [][~uiBackend /\ uiBackend' => ~extBackend]_vars

\* A connection attempt ends (starting leads to NeedsLogin, Running or a failure).
ConnectEnds == connect ~> ~connect

\* The status a dead extension left does not keep the UI connecting for ever.
StaleStatusRejected ==
    (~Alive /\ ~startReq) ~> (shown # "busy" \/ Alive \/ startReq)
=============================================================================
