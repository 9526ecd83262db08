-------------------------- MODULE BackendLifecycle --------------------------
(***************************************************************************)
(* The lifecycle of the Go backend (native/go_bridge/backend.go): start,   *)
(* stop and restartWithTun, the asynchronous start goroutine, the inbox    *)
(* watch and device sync goroutines it launches, and who closes what.      *)
(*                                                                         *)
(* Every step is one critical section of b.mu or one call made outside it. *)
(* A tsnet.Server, its LocalClient, its start context and its goroutines   *)
(* are all named by the generation that created them; 0 stands for nil.    *)
(* b.phase, b.subnetRoutes, osVersion and stateDir are diagnostics or      *)
(* plain data here and are left out; the transfer slots that stop cancels  *)
(* first are modelled in TaildropTransfer.                                 *)
(***************************************************************************)
EXTENDS Naturals, FiniteSets

CONSTANTS
    JsThread,     \* the thread that runs start, restartWithTun and stop
    StopWorkers,  \* worker threads that run backendStopAsync
    MaxGen        \* bound on b.generation

ASSUME ThreadAssumption == JsThread \notin StopWorkers
ASSUME MaxGenAssumption == MaxGen \in Nat

Callers == StopWorkers \cup {JsThread}
Gens == 1 .. MaxGen
GenOrNil == 0 .. MaxGen

VARIABLES
    generation,   \* b.generation
    server,       \* b.server
    client,       \* b.client
    starting,     \* b.starting
    startErr,     \* b.startErr # ""
    tunDevice,    \* b.tunDevice (and b.externalTun): the server built on it
    cancelStart,  \* b.cancelStart
    watchStop,    \* b.taildropWatchStop
    syncStop,     \* b.meshArcDeviceSyncStop
    incoming,     \* b.taildropIncoming: the backend the list came from
    pc,           \* where each generation's startAsync goroutine is
    startCancelled, \* start contexts that were cancelled
    watching,     \* running inbox watch goroutines
    watchCancelled, \* watch contexts that were cancelled
    syncing,      \* running device sync goroutines
    syncCancelled,  \* sync contexts that were cancelled
    open,         \* servers constructed and not closed
    closeFailed,  \* servers whose Close returned an error
    lostTun,      \* why an open TUN descriptor was dropped, if one ever was
    frame         \* the call each thread is executing

controller == <<generation, server, client, starting, startErr, tunDevice,
                cancelStart, watchStop, syncStop, incoming>>
goroutines == <<pc, startCancelled, watching, watchCancelled, syncing, syncCancelled>>
resources == <<open, closeFailed, lostTun>>
vars == <<controller, goroutines, resources, frame>>

\* The locals of stop and restartWithTun: what the critical section took out of
\* the controller, and where the call is.  tun: the call owns an open descriptor.
Call(at, op, s, start, watch, sync, tun) ==
    [at |-> at, op |-> op, server |-> s, start |-> start,
     watch |-> watch, sync |-> sync, tun |-> tun]
Idle == Call("idle", "none", 0, 0, 0, 0, FALSE)

Frame == [at : {"idle", "cancel", "close", "start"},
          op : {"none", "stop", "restart"},
          server : GenOrNil, start : GenOrNil, watch : GenOrNil, sync : GenOrNil,
          tun : BOOLEAN]

Init ==
    /\ generation = 0
    /\ server = 0 /\ client = 0
    /\ starting = FALSE /\ startErr = FALSE
    /\ tunDevice = 0
    /\ cancelStart = 0 /\ watchStop = 0 /\ syncStop = 0
    /\ incoming = 0
    /\ pc = [g \in Gens |-> "none"]
    /\ startCancelled = {}
    /\ watching = {} /\ watchCancelled = {}
    /\ syncing = {} /\ syncCancelled = {}
    /\ open = {} /\ closeFailed = {} /\ lostTun = {}
    /\ frame = [c \in Callers |-> Idle]

-----------------------------------------------------------------------------
\* The guard of every late write: b.server != server || b.generation != generation.
IsCurrentUnchecked(g) == g \in Gens
IsCurrent(g) == server = g /\ generation = g

-----------------------------------------------------------------------------
(* Callers *)

\* What the critical section shared by stop and restartWithTun takes out of the
\* controller into locals ...
CapturedWithoutWatch(op, tun) ==
    Call("cancel", op, server, cancelStart, 0, syncStop, tun)
Captured(op, tun) ==
    Call("cancel", op, server, cancelStart, watchStop, syncStop, tun)

\* ... and what it leaves there.
ClearFields ==
    /\ client' = 0
    /\ startErr' = FALSE
    /\ tunDevice' = 0
    /\ cancelStart' = 0 /\ watchStop' = 0 /\ syncStop' = 0
    /\ incoming' = 0
ClearControllerKeepingServer ==
    ClearFields /\ starting' = FALSE /\ server' = server
ClearControllerKeepingStarting ==
    ClearFields /\ starting' = starting /\ server' = 0
ClearController ==
    ClearFields /\ starting' = FALSE /\ server' = 0

TakeBackend(c, op, tun) ==
    /\ frame[c] = Idle
    /\ generation < MaxGen
    /\ generation' = generation + 1
    /\ frame' = [frame EXCEPT ![c] = Captured(op, tun)]
    /\ ClearController
    /\ UNCHANGED <<goroutines, resources>>

\* stop(): any thread; restartWithTun(fd) once newHarmonyTunDevice duplicated it.
Stop(c) == TakeBackend(c, "stop", FALSE)
RestartWithTun(c) == TakeBackend(c, "restart", TRUE)

\* The captured contexts are cancelled after the lock is released; a nil cancel
\* function is skipped.
CancelContextsUnchecked(c) ==
    /\ frame[c].at = "cancel"
    /\ startCancelled' = startCancelled \cup {frame[c].start}
    /\ watchCancelled' = watchCancelled \cup {frame[c].watch}
    /\ syncCancelled' = syncCancelled \cup {frame[c].sync}
    /\ frame' = [frame EXCEPT ![c] =
                   Call("close", frame[c].op, frame[c].server, 0, 0, 0, frame[c].tun)]
    /\ UNCHANGED <<controller, pc, watching, syncing, resources>>
CancelContexts(c) ==
    /\ frame[c].at = "cancel"
    /\ startCancelled' = startCancelled \cup ({frame[c].start} \ {0})
    /\ watchCancelled' = watchCancelled \cup ({frame[c].watch} \ {0})
    /\ syncCancelled' = syncCancelled \cup ({frame[c].sync} \ {0})
    /\ frame' = [frame EXCEPT ![c] =
                   Call("close", frame[c].op, frame[c].server, 0, 0, 0, frame[c].tun)]
    /\ UNCHANGED <<controller, pc, watching, syncing, resources>>

\* server.Close() succeeded, or there was no server: stop returns,
\* restartWithTun goes on to startWithDevice.
CloseServerForgotten(c) ==
    /\ frame[c].at = "close"
    /\ frame' = [frame EXCEPT ![c] =
                   IF frame[c].op = "stop" THEN Idle
                   ELSE Call("start", "restart", 0, 0, 0, 0, frame[c].tun)]
    /\ UNCHANGED <<controller, goroutines, resources>>
CloseServer(c) ==
    /\ frame[c].at = "close"
    /\ open' = open \ {frame[c].server}
    /\ frame' = [frame EXCEPT ![c] =
                   IF frame[c].op = "stop" THEN Idle
                   ELSE Call("start", "restart", 0, 0, 0, 0, frame[c].tun)]
    /\ UNCHANGED <<controller, goroutines, closeFailed, lostTun>>

\* server.Close() returned an error: both calls report FAILED and forget the
\* server; restartWithTun closes the descriptor it had duplicated.
CloseServerFails(c) ==
    /\ frame[c].at = "close"
    /\ frame[c].server # 0
    /\ closeFailed' = closeFailed \cup {frame[c].server}
    /\ frame' = [frame EXCEPT ![c] = Idle]
    /\ UNCHANGED <<controller, goroutines, open, lostTun>>

\* b.server != nil || b.starting refuses a second backend.
SlotFreeUnchecked == TRUE
SlotFree == server = 0 /\ ~starting

\* The critical section of startWithDevice that installs a new server.
InstallServer(tun) ==
    LET g == generation + 1 IN
    /\ SlotFree
    /\ generation < MaxGen
    /\ generation' = g
    /\ server' = g
    /\ starting' = TRUE /\ startErr' = FALSE
    /\ tunDevice' = IF tun THEN g ELSE 0
    /\ cancelStart' = g
    /\ open' = open \cup {g}
    /\ pc' = [pc EXCEPT ![g] = "start"]
    /\ UNCHANGED <<client, watchStop, syncStop, incoming, startCancelled, watching,
                   watchCancelled, syncing, syncCancelled, closeFailed, lostTun>>

\* start(): a rejected control URL or a backend already present changes nothing.
Start(c) ==
    /\ frame[c] = Idle
    /\ InstallServer(FALSE)
    /\ UNCHANGED frame

\* startWithDevice as the tail of restartWithTun.
StartOnTun(c) ==
    /\ frame[c].at = "start"
    /\ InstallServer(TRUE)
    /\ frame' = [frame EXCEPT ![c] = Idle]

\* startWithDevice returns early without closing the device it was given: for a
\* control URL that normalizeControlURL rejects, or because a backend is present.
StartOnTunRefused(c) ==
    /\ frame[c].at = "start"
    /\ \E reason \in {"invalid_url", "already_running"} :
         /\ reason = "already_running" => ~SlotFree
         /\ lostTun' = lostTun \cup {reason}
    /\ frame' = [frame EXCEPT ![c] = Idle]
    /\ UNCHANGED <<controller, goroutines, open, closeFailed>>
-----------------------------------------------------------------------------
(* The startAsync goroutine of generation g *)

\* server.Start() and server.LocalClient() return; a closed server fails.
ServerStarted(g) ==
    /\ pc[g] = "start"
    /\ g \in open
    /\ pc' = [pc EXCEPT ![g] = "client"]
    /\ UNCHANGED <<controller, startCancelled, watching, watchCancelled,
                   syncing, syncCancelled, resources, frame>>

\* Start or LocalClient returned an error, or the goroutine panicked and
\* recovered: setStartErrorFor, guarded.
StartFailsQuietly(g) ==
    /\ pc[g] \notin {"none", "done"}
    /\ pc' = [pc EXCEPT ![g] = "done"]
    /\ IF IsCurrent(g)
       THEN starting' = FALSE /\ cancelStart' = 0
       ELSE UNCHANGED <<starting, cancelStart>>
    /\ UNCHANGED <<generation, server, client, startErr, tunDevice, watchStop, syncStop,
                   incoming, startCancelled, watching, watchCancelled, syncing,
                   syncCancelled, resources, frame>>
StartFails(g) ==
    /\ pc[g] \notin {"none", "done"}
    /\ pc' = [pc EXCEPT ![g] = "done"]
    /\ IF IsCurrent(g)
       THEN starting' = FALSE /\ startErr' = TRUE /\ cancelStart' = 0
       ELSE UNCHANGED <<starting, startErr, cancelStart>>
    /\ UNCHANGED <<generation, server, client, tunDevice, watchStop, syncStop, incoming,
                   startCancelled, watching, watchCancelled, syncing, syncCancelled,
                   resources, frame>>

InstallClient(g) ==
    /\ pc[g] = "client"
    /\ IF IsCurrent(g) /\ g \notin startCancelled
       THEN client' = g /\ pc' = [pc EXCEPT ![g] = "watch"]
       ELSE UNCHANGED client /\ pc' = [pc EXCEPT ![g] = "done"]
    /\ UNCHANGED <<generation, server, starting, startErr, tunDevice, cancelStart,
                   watchStop, syncStop, incoming, startCancelled, watching,
                   watchCancelled, syncing, syncCancelled, resources, frame>>

\* startTaildropIncomingWatch: publish the cancel function, empty the list,
\* cancel a previous watch, launch the goroutine.
StartWatch(g) ==
    /\ pc[g] = "watch"
    /\ pc' = [pc EXCEPT ![g] = "sync"]
    /\ IF IsCurrent(g)
       THEN /\ watchCancelled' = watchCancelled \cup ({watchStop} \ {0})
            /\ watchStop' = g
            /\ incoming' = g
            /\ watching' = watching \cup {g}
       ELSE UNCHANGED <<watchCancelled, watchStop, incoming, watching>>
    /\ UNCHANGED <<generation, server, client, starting, startErr, tunDevice, cancelStart,
                   syncStop, startCancelled, syncing, syncCancelled, resources, frame>>

\* startMeshArcDeviceSync: the same shape.
StartSync(g) ==
    /\ pc[g] = "sync"
    /\ pc' = [pc EXCEPT ![g] = "restore"]
    /\ IF IsCurrent(g)
       THEN /\ syncCancelled' = syncCancelled \cup ({syncStop} \ {0})
            /\ syncStop' = g
            /\ syncing' = syncing \cup {g}
       ELSE UNCHANGED <<syncCancelled, syncStop, syncing>>
    /\ UNCHANGED <<generation, server, client, starting, startErr, tunDevice, cancelStart,
                   watchStop, incoming, startCancelled, watching, watchCancelled,
                   resources, frame>>

\* restoreBackendPreferences returned (it is bounded and obeys the start
\* context); the backend becomes ready unless it was replaced meanwhile.
BecomeReady(g) ==
    /\ pc[g] = "restore"
    /\ pc' = [pc EXCEPT ![g] = "done"]
    /\ IF IsCurrent(g) /\ g \notin startCancelled
       THEN starting' = FALSE /\ cancelStart' = 0
       ELSE UNCHANGED <<starting, cancelStart>>
    /\ UNCHANGED <<generation, server, client, startErr, tunDevice, watchStop, syncStop,
                   incoming, startCancelled, watching, watchCancelled, syncing,
                   syncCancelled, resources, frame>>
-----------------------------------------------------------------------------
(* The goroutines a start leaves behind *)

\* updateTaildropIncomingFiles: a notification read before the context was
\* cancelled may still be delivered after it.
WatchDeliver(g) ==
    /\ g \in watching
    /\ incoming' = IF IsCurrent(g) THEN g ELSE incoming
    /\ UNCHANGED <<generation, server, client, starting, startErr, tunDevice, cancelStart,
                   watchStop, syncStop, goroutines, resources, frame>>

WatchExit(g) ==
    /\ g \in watching \cap watchCancelled
    /\ watching' = watching \ {g}
    /\ UNCHANGED <<controller, pc, startCancelled, watchCancelled, syncing,
                   syncCancelled, resources, frame>>

\* meshArcDeviceSyncLoop returns; its deferred function clears its own cancel.
SyncExit(g) ==
    /\ g \in syncing \cap syncCancelled
    /\ syncing' = syncing \ {g}
    /\ syncStop' = IF IsCurrent(g) THEN 0 ELSE syncStop
    /\ UNCHANGED <<generation, server, client, starting, startErr, tunDevice, cancelStart,
                   watchStop, incoming, pc, startCancelled, watching, watchCancelled,
                   syncCancelled, resources, frame>>
-----------------------------------------------------------------------------
CallStep(c) ==
    \/ CancelContexts(c)
    \/ CloseServer(c)
    \/ CloseServerFails(c)
    \/ StartOnTun(c)
    \/ StartOnTunRefused(c)

StartStep(g) ==
    \/ ServerStarted(g)
    \/ StartFails(g)
    \/ InstallClient(g)
    \/ StartWatch(g)
    \/ StartSync(g)
    \/ BecomeReady(g)

GoroutineStep(g) == WatchDeliver(g) \/ WatchExit(g) \/ SyncExit(g)

Next ==
    \/ \E c \in Callers : Stop(c) \/ CallStep(c)
    \/ Start(JsThread)
    \/ RestartWithTun(JsThread)
    \/ \E g \in Gens : StartStep(g) \/ GoroutineStep(g)

\* A call that has begun runs to its end, server.Start returns, and a goroutine
\* whose context was cancelled notices it.
Fairness ==
    /\ \A c \in Callers : WF_vars(CallStep(c))
    /\ \A g \in Gens : WF_vars(StartStep(g)) /\ WF_vars(WatchExit(g)) /\ WF_vars(SyncExit(g))

SafeSpec == Init /\ [][Next]_vars
Spec == SafeSpec /\ Fairness
-----------------------------------------------------------------------------
(* Properties *)

StartPc == {"none", "start", "client", "watch", "sync", "restore", "done"}

FlagType ==
    /\ starting \in BOOLEAN
    /\ startErr \in BOOLEAN

ControllerType ==
    /\ generation \in GenOrNil
    /\ server \in GenOrNil /\ client \in GenOrNil
    /\ tunDevice \in GenOrNil
    /\ cancelStart \in GenOrNil /\ watchStop \in GenOrNil /\ syncStop \in GenOrNil
    /\ incoming \in GenOrNil

GoroutineType ==
    /\ pc \in [Gens -> StartPc]
    /\ startCancelled \subseteq Gens
    /\ watching \subseteq Gens /\ watchCancelled \subseteq Gens
    /\ syncing \subseteq Gens /\ syncCancelled \subseteq Gens

ResourceType ==
    /\ open \subseteq Gens /\ closeFailed \subseteq Gens
    /\ lostTun \subseteq {"invalid_url", "already_running"}

\* Every variable keeps its type; in particular only contexts that exist are
\* ever cancelled.
TypeOK ==
    /\ FlagType
    /\ ControllerType
    /\ GoroutineType
    /\ ResourceType
    /\ frame \in [Callers -> Frame]

\* A start goroutine that was overtaken by stop or restartWithTun never
\* publishes its LocalClient, nor its inbox list, nor its cancel functions, into
\* the controller of another backend: whatever the controller holds belongs to
\* the server it holds (startAsync, startTaildropIncomingWatch,
\* startMeshArcDeviceSync, updateTaildropIncomingFiles).
ControllerBelongsToServer ==
    \A x \in {client, tunDevice, cancelStart, watchStop, syncStop, incoming} :
        x # 0 => x = server

\* status() can never answer "backend initialized | LocalClient pending": a
\* backend that is neither starting nor failed has its client.
ReadyHasClient ==
    server # 0 /\ ~starting /\ ~startErr => client = server

\* A backend that reports "starting" still has a goroutine that will settle it,
\* with a context nobody cancelled or is about to cancel.
StartingIsAlive ==
    starting =>
        /\ server # 0
        /\ pc[server] \notin {"none", "done"}
        /\ server \notin startCancelled
        /\ \A c \in Callers : frame[c].start # server

\* No tsnet.Server is orphaned: one that is still open is the controller's, or a
\* running stop or restartWithTun is about to close it, or its Close failed.
NoOrphanServer ==
    \A g \in open : \/ g = server
                    \/ \E c \in Callers : frame[c].server = g
                    \/ g \in closeFailed

\* No inbox watch or device sync goroutine outlives its backend unnoticed: its
\* context is cancelled, or the controller or a running call can cancel it.
NoOrphanGoroutine ==
    /\ \A g \in watching \ watchCancelled :
         watchStop = g \/ \E c \in Callers : frame[c].watch = g
    /\ \A g \in syncing \ syncCancelled :
         syncStop = g \/ \E c \in Callers : frame[c].sync = g

\* restartWithTun never drops its duplicated descriptor because it finds a
\* backend present: it has just removed the backend, and only its own thread
\* starts one.  (A rejected control URL does drop it.)
TunNotLostToRace == "already_running" \notin lostTun

\* A server is closed by at most one call: stop and restartWithTun running on
\* two threads never both hold it, and never hold the one in the controller.
SingleCloser ==
    \A c, d \in Callers :
        frame[c].server # 0 => /\ frame[c].server # server
                               /\ c # d => frame[c].server # frame[d].server

\* Whatever a backend opened has exactly one party that will end it.
NoOrphans == NoOrphanServer /\ NoOrphanGoroutine /\ SingleCloser

\* The controller promises BackendSlot.
SlotState == IF server = 0 THEN "stopped"
             ELSE IF starting THEN "starting"
             ELSE IF startErr THEN "failed" ELSE "ready"

Slot == INSTANCE BackendSlot WITH state <- SlotState, epoch <- generation

\* A start goroutine of an older generation never revives a stopped slot,
\* marks another start ready, or fails it; every start settles.
ImplementsSlot == Slot!Spec

\* A server that left the controller is closed in the end, unless Close fails.
DroppedServerCloses ==
    \A g \in Gens : (g \in open /\ server # g) ~> (g \notin open \/ g \in closeFailed)

\* The goroutines of a backend that left the controller end.
DroppedGoroutinesEnd ==
    \A g \in Gens : (g \in watching \cup syncing /\ server # g) ~>
                   (g \notin watching \cup syncing)

\* Nothing of a backend that left the controller lingers: stop and restartWithTun
\* end, outside the lock, all that they took under it.
NothingLingers == DroppedServerCloses /\ DroppedGoroutinesEnd
=============================================================================
